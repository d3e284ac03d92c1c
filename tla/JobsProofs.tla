----------------------------- MODULE JobsProofs -----------------------------
(***************************************************************************)
(* Proofs about Jobs for any instances, ids and number of registrations:   *)
(* executions of a job never overlap, no timer outlives its job, a started *)
(* instance has all its jobs armed, and only live jobs run.                *)
(***************************************************************************)
EXTENDS Jobs, TLAPS

(* The inductive invariant has two parts.  Executions: the guard of        *)
(* #execute is up exactly while the one callback is unsettled.             *)
ExecInv ==
  /\ phase \in [Controls -> {"none", "racing", "settling"}]
  /\ work \in [Controls -> {0, 1}]
  /\ \A c \in Controls : phase[c] = "none" <=> work[c] = 0

(* Registration: a job is made once and registered once, is not stopped    *)
(* while it is registered, and has a timer only on a started instance.     *)
RegInv ==
  /\ started \in [Instances -> BOOLEAN]
  /\ controls \in [Instances -> [Ids -> Controls \cup {NoControl}]]
  /\ used \subseteq Controls /\ timer \subseteq used /\ stopped \subseteq used
  /\ \A i \in Instances, a \in Ids :
       controls[i][a] # NoControl => controls[i][a] \in used \ stopped
  /\ \A i, j \in Instances : \A a, b \in Ids :
       controls[i][a] = controls[j][b] /\ controls[i][a] # NoControl => i = j /\ a = b
  /\ \A c \in timer : \E i \in Instances, a \in Ids : started[i] /\ controls[i][a] = c
  /\ \A i \in Instances, a \in Ids :
       started[i] /\ controls[i][a] # NoControl => controls[i][a] \in timer \cup muted

(* The remaining types.                                                    *)
BookInv ==
  /\ registry \subseteq created /\ created \subseteq Instances
  /\ DefaultJobs \in created
  /\ paused \subseteq used /\ muted \subseteq used
  /\ modeTest \in BOOLEAN

-----------------------------------------------------------------------------
(* JobsInit establishes the three parts.                                       *)
LEMMA JobsStart == JobsInit => ExecInv /\ RegInv /\ BookInv
<1> SUFFICES ASSUME JobsInit PROVE ExecInv /\ RegInv /\ BookInv
  OBVIOUS
<1>1. ExecInv
  BY DEF JobsInit, ExecInv
<1>2. \A i \in Instances : started[i] = FALSE /\ \A a \in Ids : controls[i][a] = NoControl
  BY DEF JobsInit
<1>3. RegInv
  BY <1>2 DEF JobsInit, RegInv
<1>4. BookInv
  BY JobsAssumption DEF JobsInit, BookInv
<1> QED  BY <1>1, <1>3, <1>4

(* Every step keeps the guard of #execute in step with the callback.       *)
LEMMA ExecStep ==
  ASSUME ExecInv, [JobsNext]_jobsVars
  PROVE  ExecInv'
<1> USE DEF ExecInv, runs, jobsVars
<1>1. CASE UNCHANGED runs
  BY <1>1
<1>2. ASSUME NEW c \in Controls, Tick(c)
      PROVE  ExecInv'
  BY <1>2 DEF Tick
<1>3. ASSUME NEW c \in Controls, Timeout(c)
      PROVE  ExecInv'
  BY <1>3 DEF Timeout
<1>4. ASSUME NEW c \in Controls, Settle(c)
      PROVE  ExecInv'
  BY <1>4 DEF Settle
<1>5. UNCHANGED runs \/ \E c \in Controls : Tick(c) \/ Timeout(c) \/ Settle(c)
  BY DEF JobsNext, New, StartJobs, Destroy, DestroyAll, Register, StopJob, PauseJob,
         ResumeJob, StopAllJobs, RestartJobs, SetModeTest
<1> QED  BY <1>1, <1>2, <1>3, <1>4, <1>5

(* Destroying a set of instances keeps the registration part.              *)
LEMMA DestroyKeepsReg ==
  ASSUME NEW I, I \subseteq Instances, NEW R, RegInv, DestroyAll(I, R)
  PROVE  RegInv'
<1> DEFINE ended == UNION {JobsOf(i) : i \in I}
<1>1. /\ started' = [i \in Instances |-> i \notin I /\ started[i]]
      /\ controls' = [i \in Instances |->
                       IF i \in I THEN [id \in Ids |-> NoControl] ELSE controls[i]]
      /\ stopped' = stopped \cup ended /\ timer' = timer \ ended
      /\ used' = used /\ muted' = muted
  BY DEF DestroyAll
<1>2. \A c : c \in ended <=> c # NoControl /\ \E i \in I, a \in Ids : controls[i][a] = c
  BY DEF JobsOf
<1> HIDE DEF ended
<1>3. /\ started' \in [Instances -> BOOLEAN]
      /\ controls' \in [Instances -> [Ids -> Controls \cup {NoControl}]]
      /\ \A i \in Instances, a \in Ids :
           controls'[i][a] = IF i \in I THEN NoControl ELSE controls[i][a]
      /\ \A i \in Instances : started'[i] <=> (i \notin I /\ started[i])
  BY <1>1 DEF RegInv
<1>4. ended \subseteq used
  BY <1>2 DEF RegInv
<1>5. \A i \in Instances \ I, a \in Ids : controls[i][a] \notin ended
  BY <1>2 DEF RegInv
<1>6. \A i \in Instances, a \in Ids :
        controls'[i][a] # NoControl => controls'[i][a] \in used' \ stopped'
  BY <1>1, <1>3, <1>5 DEF RegInv
<1>7. \A i, j \in Instances : \A a, b \in Ids :
        controls'[i][a] = controls'[j][b] /\ controls'[i][a] # NoControl => i = j /\ a = b
  BY <1>3 DEF RegInv
<1>8. \A c \in timer' : \E i \in Instances, a \in Ids : started'[i] /\ controls'[i][a] = c
  <2> SUFFICES ASSUME NEW c \in timer'
               PROVE  \E i \in Instances, a \in Ids : started'[i] /\ controls'[i][a] = c
    OBVIOUS
  <2>1. c \in timer /\ c \notin ended /\ c # NoControl
    BY <1>1, JobsAssumption DEF RegInv
  <2>2. PICK i \in Instances, a \in Ids : started[i] /\ controls[i][a] = c
    BY <2>1 DEF RegInv
  <2>3. i \notin I
    BY <1>2, <2>1, <2>2
  <2> QED  BY <1>3, <2>2, <2>3
<1>9. \A i \in Instances, a \in Ids :
        started'[i] /\ controls'[i][a] # NoControl => controls'[i][a] \in timer' \cup muted'
  BY <1>1, <1>3, <1>5 DEF RegInv
<1> QED  BY <1>1, <1>3, <1>4, <1>6, <1>7, <1>8, <1>9 DEF RegInv

(* Every step keeps the registration part.                                 *)
LEMMA RegStep ==
  ASSUME RegInv, BookInv, [JobsNext]_jobsVars
  PROVE  RegInv'
<1> USE JobsAssumption
<1> DEFINE regVars == <<started, controls, used, timer, stopped, muted>>
<1>1. CASE UNCHANGED regVars
  BY <1>1 DEF RegInv
<1>2. ASSUME NEW i \in Instances, NEW id \in Ids, Register(i, id)
      PROVE  RegInv'
  <2>1. PICK c \in Controls \ used :
          /\ used' = used \cup {c}
          /\ controls' = [controls EXCEPT ![i][id] = c]
          /\ timer' = IF started[i] /\ ~modeTest THEN timer \cup {c} ELSE timer
          /\ muted' = IF started[i] /\ modeTest THEN muted \cup {c} ELSE muted
    BY <1>2 DEF Register
  <2>2. started' = started /\ stopped' = stopped /\ controls[i][id] = NoControl
    BY <1>2 DEF Register
  <2>3. /\ controls' \in [Instances -> [Ids -> Controls \cup {NoControl}]]
        /\ \A j \in Instances, a \in Ids :
             controls'[j][a] = IF j = i /\ a = id THEN c ELSE controls[j][a]
    BY <2>1 DEF RegInv
  <2>4. \A j \in Instances, a \in Ids : controls[j][a] # c
    BY <2>1 DEF RegInv
  <2>5. started \in [Instances -> BOOLEAN] /\ started' \in [Instances -> BOOLEAN]
    BY <2>2 DEF RegInv
  <2>6. used' \subseteq Controls /\ timer' \subseteq used' /\ stopped' \subseteq used'
    BY <2>1, <2>2 DEF RegInv
  <2>7. \A j \in Instances, a \in Ids :
          controls'[j][a] # NoControl => controls'[j][a] \in used' \ stopped'
    BY <2>1, <2>2, <2>3 DEF RegInv
  <2>8. \A j, k \in Instances : \A a, b \in Ids :
          controls'[j][a] = controls'[k][b] /\ controls'[j][a] # NoControl => j = k /\ a = b
    BY <2>3, <2>4 DEF RegInv
  <2>9. \A d \in timer' : \E j \in Instances, a \in Ids : started'[j] /\ controls'[j][a] = d
    <3> SUFFICES ASSUME NEW d \in timer'
                 PROVE  \E j \in Instances, a \in Ids : started'[j] /\ controls'[j][a] = d
      OBVIOUS
    <3>1. CASE d \in timer
      <4>1. PICK j \in Instances, a \in Ids : started[j] /\ controls[j][a] = d
        BY <3>1 DEF RegInv
      <4>2. d # NoControl
        BY <3>1 DEF RegInv
      <4> QED  BY <4>1, <4>2, <2>2, <2>3
    <3>2. CASE d \notin timer
      BY <3>2, <2>1, <2>2, <2>3
    <3> QED  BY <3>1, <3>2
  <2>10. \A j \in Instances, a \in Ids :
           started'[j] /\ controls'[j][a] # NoControl => controls'[j][a] \in timer' \cup muted'
    <3>1. started[i] => c \in timer' \cup muted'
      BY <2>1
    <3>2. timer \subseteq timer' /\ muted \subseteq muted'
      BY <2>1
    <3> QED  BY <3>1, <3>2, <2>2, <2>3 DEF RegInv
  <2> QED  BY <2>3, <2>5, <2>6, <2>7, <2>8, <2>9, <2>10 DEF RegInv
<1>3. ASSUME NEW i \in Instances, StartJobs(i)
      PROVE  RegInv'
  <2>1. /\ started' = [started EXCEPT ![i] = TRUE]
        /\ timer' = timer \cup JobsOf(i) /\ muted' = muted \ JobsOf(i)
        /\ controls' = controls /\ used' = used /\ stopped' = stopped
    BY <1>3 DEF StartJobs
  <2>2. \A c : c \in JobsOf(i) <=> c # NoControl /\ \E a \in Ids : controls[i][a] = c
    BY DEF JobsOf
  <2> QED  BY <2>1, <2>2 DEF RegInv
<1>4. ASSUME NEW i \in Instances, NEW id \in Ids, StopJob(i, id)
      PROVE  RegInv'
  <2> DEFINE c == controls[i][id]
  <2>1. /\ c # NoControl /\ stopped' = stopped \cup {c} /\ timer' = timer \ {c}
        /\ controls' = [controls EXCEPT ![i][id] = NoControl]
        /\ started' = started /\ used' = used /\ muted' = muted
    BY <1>4 DEF StopJob
  <2>2. c \in used
    BY <2>1 DEF RegInv
  <2>3. /\ controls' \in [Instances -> [Ids -> Controls \cup {NoControl}]]
        /\ \A j \in Instances, a \in Ids :
             controls'[j][a] = IF j = i /\ a = id THEN NoControl ELSE controls[j][a]
    BY <2>1 DEF RegInv
  <2>4. \A j \in Instances, a \in Ids : controls'[j][a] # c
    <3> SUFFICES ASSUME NEW j \in Instances, NEW a \in Ids
                 PROVE  controls'[j][a] # c
      OBVIOUS
    <3>1. CASE j = i /\ a = id
      BY <3>1, <2>1, <2>3
    <3>2. CASE ~(j = i /\ a = id)
      <4>1. controls'[j][a] = controls[j][a]
        BY <3>2, <2>3
      <4>2. controls[j][a] = controls[i][id] /\ controls[j][a] # NoControl => j = i /\ a = id
        BY DEF RegInv
      <4> QED  BY <4>1, <4>2, <3>2, <2>1
    <3> QED  BY <3>1, <3>2
  <2>5. \A d \in timer' : \E j \in Instances, a \in Ids : started'[j] /\ controls'[j][a] = d
    <3> SUFFICES ASSUME NEW d \in timer'
                 PROVE  \E j \in Instances, a \in Ids : started'[j] /\ controls'[j][a] = d
      OBVIOUS
    <3>1. d \in timer /\ d # c
      BY <2>1
    <3>2. PICK j \in Instances, a \in Ids : started[j] /\ controls[j][a] = d
      BY <3>1 DEF RegInv
    <3>3. controls'[j][a] = d
      BY <3>1, <3>2, <2>3
    <3> QED  BY <3>2, <3>3, <2>1
  <2> HIDE DEF c
  <2>6. \A j \in Instances, a \in Ids :
          controls'[j][a] # NoControl => controls'[j][a] = controls[j][a]
    BY <2>3
  <2>7. \A j \in Instances, a \in Ids :
          controls'[j][a] # NoControl => controls'[j][a] \in used' \ stopped'
    BY <2>1, <2>4, <2>6 DEF RegInv
  <2>8. \A j, k \in Instances : \A a, b \in Ids :
          controls'[j][a] = controls'[k][b] /\ controls'[j][a] # NoControl => j = k /\ a = b
    BY <2>6 DEF RegInv
  <2>9. \A j \in Instances, a \in Ids :
          started'[j] /\ controls'[j][a] # NoControl => controls'[j][a] \in timer' \cup muted'
    BY <2>1, <2>4, <2>6 DEF RegInv
  <2>10. /\ started' \in [Instances -> BOOLEAN]
         /\ used' \subseteq Controls /\ timer' \subseteq used' /\ stopped' \subseteq used'
    BY <2>1, <2>2 DEF RegInv
  <2> QED  BY <2>3, <2>5, <2>7, <2>8, <2>9, <2>10 DEF RegInv
<1>5. ASSUME NEW i \in Instances, Destroy(i)
      PROVE  RegInv'
  BY <1>5, DestroyKeepsReg DEF Destroy
<1>6. CASE StopAllJobs
  BY <1>6, DestroyKeepsReg DEF StopAllJobs, BookInv
<1>7. CASE RestartJobs
  <2> DEFINE mine == JobsOf(DefaultJobs)
  <2>1. /\ started' = [started EXCEPT ![DefaultJobs] = ~modeTest]
        /\ timer' = IF modeTest THEN timer \ mine ELSE timer \cup mine
        /\ muted' = IF modeTest THEN muted ELSE muted \ mine
        /\ controls' = controls /\ used' = used /\ stopped' = stopped
    BY <1>7 DEF RestartJobs
  <2>2. \A c : c \in mine <=> c # NoControl /\ \E a \in Ids : controls[DefaultJobs][a] = c
    BY DEF JobsOf
  <2> HIDE DEF mine
  <2>3. CASE modeTest
    <3>1. \A i \in Instances \ {DefaultJobs}, a \in Ids : controls[i][a] \notin mine
      BY <2>2 DEF RegInv
    <3>2. /\ started' \in [Instances -> BOOLEAN] /\ started'[DefaultJobs] = FALSE
          /\ \A i \in Instances \ {DefaultJobs} : started'[i] = started[i]
      BY <2>1, <2>3, ZenonT(30) DEF RegInv
    <3>3. \A c \in timer' : \E i \in Instances, a \in Ids : started'[i] /\ controls'[i][a] = c
      <4> SUFFICES ASSUME NEW c \in timer'
                   PROVE  \E i \in Instances, a \in Ids : started'[i] /\ controls'[i][a] = c
        OBVIOUS
      <4>1. c \in timer /\ c \notin mine /\ c # NoControl
        BY <2>1, <2>3 DEF RegInv
      <4>2. PICK i \in Instances, a \in Ids : started[i] /\ controls[i][a] = c
        BY <4>1 DEF RegInv
      <4>3. i # DefaultJobs
        BY <2>2, <4>1, <4>2
      <4> QED  BY <2>1, <3>2, <4>2, <4>3
    <3>4. \A i \in Instances, a \in Ids :
            started'[i] /\ controls'[i][a] # NoControl => controls'[i][a] \in timer' \cup muted'
      BY <2>1, <2>3, <3>1, <3>2 DEF RegInv
    <3>5. timer' \subseteq timer
      BY <2>1, <2>3
    <3> QED  BY <2>1, <3>2, <3>3, <3>4, <3>5 DEF RegInv
  <2>4. CASE ~modeTest
    <3>1. /\ started' \in [Instances -> BOOLEAN] /\ started'[DefaultJobs] = TRUE
          /\ \A i \in Instances : started[i] => started'[i]
          /\ \A i \in Instances \ {DefaultJobs} : started'[i] = started[i]
      BY <2>1, <2>4, ZenonT(30) DEF RegInv
    <3>2. timer' = timer \cup mine /\ muted' = muted \ mine
      BY <2>1, <2>4
    <3>3. mine \subseteq used
      BY <2>2 DEF RegInv
    <3>4. \A c \in timer' : \E i \in Instances, a \in Ids : started'[i] /\ controls'[i][a] = c
      <4>1. ASSUME NEW c \in timer
            PROVE  \E i \in Instances, a \in Ids : started'[i] /\ controls'[i][a] = c
        BY <2>1, <3>1 DEF RegInv
      <4>2. ASSUME NEW c \in mine
            PROVE  \E i \in Instances, a \in Ids : started'[i] /\ controls'[i][a] = c
        BY <2>1, <2>2, <3>1
      <4> QED  BY <3>2, <4>1, <4>2
    <3>5. \A i \in Instances, a \in Ids :
            started'[i] /\ controls'[i][a] # NoControl => controls'[i][a] \in timer' \cup muted'
      BY <2>1, <2>2, <3>1, <3>2 DEF RegInv
    <3> QED  BY <2>1, <3>1, <3>2, <3>3, <3>4, <3>5 DEF RegInv
  <2> QED  BY <2>3, <2>4
<1>8. UNCHANGED regVars \/ StopAllJobs \/ RestartJobs
        \/ (\E i \in Instances : StartJobs(i) \/ Destroy(i))
        \/ (\E i \in Instances, id \in Ids : Register(i, id) \/ StopJob(i, id))
  BY DEF JobsNext, jobsVars, flags, New, PauseJob, ResumeJob, SetModeTest, Tick, Timeout, Settle
<1> QED  BY <1>1, <1>2, <1>3, <1>4, <1>5, <1>6, <1>7, <1>8

(* Every step keeps the remaining types.                                   *)
LEMMA BookStep ==
  ASSUME RegInv, BookInv, [JobsNext]_jobsVars
  PROVE  BookInv'
<1> USE JobsAssumption DEF BookInv
<1>1. ASSUME NEW i \in Instances, NEW id \in Ids, PauseJob(i, id)
      PROVE  BookInv'
  BY <1>1 DEF PauseJob, RegInv
<1>2. ASSUME NEW i \in Instances, NEW id \in Ids,
             ResumeJob(i, id) \/ StopJob(i, id) \/ Register(i, id)
      PROVE  BookInv'
  <2>1. CASE ResumeJob(i, id)
    BY <2>1 DEF ResumeJob
  <2>2. CASE StopJob(i, id)
    BY <2>2 DEF StopJob
  <2>3. CASE Register(i, id)
    BY <2>3 DEF Register
  <2> QED  BY <1>2, <2>1, <2>2, <2>3
<1>3. ASSUME NEW i \in Instances, New(i) \/ StartJobs(i) \/ Destroy(i)
      PROVE  BookInv'
  <2>1. CASE New(i)
    BY <2>1 DEF New, flags
  <2>2. CASE StartJobs(i)
    BY <2>2 DEF StartJobs
  <2>3. CASE Destroy(i)
    BY <2>3 DEF Destroy, DestroyAll
  <2> QED  BY <1>3, <2>1, <2>2, <2>3
<1>4. CASE StopAllJobs
  BY <1>4 DEF StopAllJobs, DestroyAll
<1>5. CASE RestartJobs
  BY <1>5 DEF RestartJobs
<1>6. ASSUME NEW b \in BOOLEAN, SetModeTest(b)
      PROVE  BookInv'
  BY <1>6 DEF SetModeTest, flags
<1>7. ASSUME NEW c \in Controls, Tick(c) \/ Timeout(c) \/ Settle(c)
      PROVE  BookInv'
  BY <1>7 DEF Tick, Timeout, Settle, flags
<1>8. CASE UNCHANGED jobsVars
  BY <1>8 DEF jobsVars, flags
<1> QED  BY <1>1, <1>2, <1>3, <1>4, <1>5, <1>6, <1>7, <1>8 DEF JobsNext

(* The whole invariant holds of every reachable state.                     *)
THEOREM JobsInvariant == JobsSpec => [](ExecInv /\ RegInv /\ BookInv)
BY JobsStart, ExecStep, RegStep, BookStep, PTL DEF JobsSpec

-----------------------------------------------------------------------------
(* The state of the schedulers keeps its type.                             *)
THEOREM JobsTypeCorrect == JobsSpec => []JobsTypeOK
<1>1. ExecInv /\ RegInv /\ BookInv => JobsTypeOK
  <2> SUFFICES ASSUME ExecInv, RegInv, BookInv PROVE JobsTypeOK
    OBVIOUS
  <2>1. \A i \in Instances, a \in Ids : controls[i][a] \in used \cup {NoControl}
    BY DEF RegInv
  <2>2. controls \in [Instances -> [Ids -> used \cup {NoControl}]]
    BY <2>1 DEF RegInv
  <2>3. work \in [Controls -> Nat]
    BY DEF ExecInv
  <2> QED  BY <2>2, <2>3 DEF ExecInv, RegInv, BookInv, JobsTypeOK
<1> QED  BY <1>1, JobsInvariant, PTL

(* No job has two callbacks under way, timed out or not.                   *)
THEOREM ExecutionsNeverOverlap == JobsSpec => []NoOverlap
<1>1. ExecInv => NoOverlap
  BY DEF ExecInv, NoOverlap
<1> QED  BY <1>1, JobsInvariant, PTL

(* No timer outlives its job.                                              *)
THEOREM NoTimerLeaks == JobsSpec => []TimersBelongToJobs
<1>1. RegInv => TimersBelongToJobs
  <2> SUFFICES ASSUME RegInv, NEW c \in timer
               PROVE  c \notin stopped /\ \E i \in Instances : started[i] /\ c \in JobsOf(i)
    BY DEF TimersBelongToJobs
  <2>1. c # NoControl
    BY JobsAssumption DEF RegInv
  <2>2. PICK i \in Instances, a \in Ids : started[i] /\ controls[i][a] = c
    BY DEF RegInv
  <2>3. c \in JobsOf(i)
    BY <2>1, <2>2 DEF JobsOf
  <2>4. c \notin stopped
    BY <2>1, <2>2 DEF RegInv
  <2> QED  BY <2>2, <2>3, <2>4
<1> QED  BY <1>1, JobsInvariant, PTL

(* A started instance has every job armed that was not registered in test  *)
(* mode.                                                                   *)
THEOREM StartedInstancesArmed == JobsSpec => []StartedMeansArmed
<1>1. RegInv => StartedMeansArmed
  BY DEF RegInv, StartedMeansArmed, JobsOf
<1> QED  BY <1>1, JobsInvariant, PTL

(* What OnlyLiveJobsRun asks of one step.                                  *)
LiveStart ==
  \A c \in Controls : work'[c] > work[c] =>
    /\ c \notin paused
    /\ \E i \in Instances : started[i] /\ c \in JobsOf(i)

(* Only a tick starts a callback.                                          *)
LEMMA TickStarts ==
  ASSUME ExecInv, RegInv, [JobsNext]_jobsVars
  PROVE  LiveStart
<1> SUFFICES ASSUME NEW c \in Controls, work'[c] > work[c]
             PROVE  c \notin paused /\ \E i \in Instances : started[i] /\ c \in JobsOf(i)
  BY DEF LiveStart
<1>1. UNCHANGED work \/ \E d \in Controls : Tick(d) \/ Settle(d)
  BY DEF JobsNext, jobsVars, runs, New, StartJobs, Destroy, DestroyAll, Register, StopJob,
         PauseJob, ResumeJob, StopAllJobs, RestartJobs, SetModeTest, Timeout
<1>2. work[c] \in {0, 1} /\ work \in [Controls -> {0, 1}]
  BY DEF ExecInv
<1>3. ~UNCHANGED work
  BY <1>2
<1>4. PICK d \in Controls : Tick(d) \/ Settle(d)
  BY <1>1, <1>3
<1>5. ~Settle(d)
  <2> SUFFICES ASSUME Settle(d) PROVE FALSE
    OBVIOUS
  <2>1. work' = [work EXCEPT ![d] = @ - 1]
    BY DEF Settle
  <2> QED  BY <1>2, <2>1
<1>6. Tick(d)
  BY <1>4, <1>5
<1>7. c = d
  BY <1>2, <1>6 DEF Tick
<1>8. c \in timer /\ c \notin paused
  BY <1>6, <1>7 DEF Tick
<1>9. PICK i \in Instances, a \in Ids : started[i] /\ controls[i][a] = c
  BY <1>8 DEF RegInv
<1>10. c \in JobsOf(i)
  BY <1>9, JobsAssumption DEF JobsOf
<1> QED  BY <1>8, <1>9, <1>10

(* A stopped, paused or destroyed job never starts again.                  *)
THEOREM OnlyLiveJobsStart == JobsSpec => OnlyLiveJobsRun
<1>1. ExecInv /\ RegInv /\ [JobsNext]_jobsVars => [LiveStart]_jobsVars
  BY TickStarts
<1>2. JobsSpec => [][LiveStart]_jobsVars
  BY <1>1, JobsInvariant, PTL DEF JobsSpec
<1> QED  BY <1>2, PTL DEF OnlyLiveJobsRun, LiveStart
=============================================================================
