------------------------------- MODULE Jobs --------------------------------
(***************************************************************************)
(* src/tools/jobs/jobs.ts: schedulers of interval and cron jobs, the       *)
(* global registry that stopAllJobs goes through, and the test-mode flag   *)
(* of src/tools/utilities/mode.ts.                                         *)
(*                                                                         *)
(* A job is a control object; a timer that is armed fires again and again. *)
(* When a cron trigger matches is left open, so one tick stands for both   *)
(* kinds; a tick that finds nothing to do changes nothing and is left out. *)
(***************************************************************************)
EXTENDS Naturals, FiniteSets

CONSTANTS
  Instances,    \* the objects of class Jobs
  DefaultJobs,  \* the instance behind the package-level functions
  Ids,          \* job ids
  Controls,     \* the control objects; a bound on the registrations
  NoControl     \* what #controls holds for an id that is not registered

ASSUME JobsAssumption ==
  DefaultJobs \in Instances /\ NoControl \notin Controls

VARIABLES
  registry,  \* the global registry
  created,   \* the instances constructed so far
  started,   \* #started of each instance
  controls,  \* #controls: the control of each id of each instance
  used,      \* the control objects made so far
  paused,    \* the controls that are paused
  stopped,   \* the controls that are stopped
  timer,     \* the controls whose timer is armed
  phase,     \* #execute of each control: "none", "racing" or "settling"
  work,      \* how many promises of its callback are unsettled
  muted,     \* history: those registered in test mode on a started instance
  modeTest   \* the test-mode flag

flags == <<paused, stopped, timer>>
runs == <<phase, work>>
jobsVars == <<registry, created, started, controls, used, flags, runs, muted, modeTest>>

(* The jobs of an instance.                                                *)
JobsOf(i) == {controls[i][id] : id \in Ids} \ {NoControl}

-----------------------------------------------------------------------------
JobsInit ==
  /\ registry = {DefaultJobs} /\ created = {DefaultJobs}
  /\ started = [i \in Instances |-> FALSE]
  /\ controls = [i \in Instances |-> [id \in Ids |-> NoControl]]
  /\ used = {} /\ paused = {} /\ stopped = {} /\ timer = {}
  /\ phase = [c \in Controls |-> "none"]
  /\ work = [c \in Controls |-> 0]
  /\ muted = {} /\ modeTest = FALSE

(* The constructor.                                                        *)
New(i) ==
  /\ i \notin created
  /\ created' = created \cup {i} /\ registry' = registry \cup {i}
  /\ UNCHANGED <<started, controls, used, flags, runs, muted, modeTest>>

(* jobWithID and cronJobWithID; job and cronJob do the same under an id    *)
(* that is new.  An id that is taken is refused.                           *)
Register(i, id) ==
  /\ i \in created /\ controls[i][id] = NoControl
  /\ \E c \in Controls \ used :
       /\ used' = used \cup {c}
       /\ controls' = [controls EXCEPT ![i][id] = c]
       /\ timer' = IF started[i] /\ ~modeTest THEN timer \cup {c} ELSE timer
       /\ muted' = IF started[i] /\ modeTest THEN muted \cup {c} ELSE muted
  /\ UNCHANGED <<registry, created, started, paused, stopped, runs, modeTest>>

StartJobs(i) ==
  /\ i \in created /\ ~started[i] /\ ~modeTest
  /\ started' = [started EXCEPT ![i] = TRUE]
  /\ timer' = timer \cup JobsOf(i)
  /\ muted' = muted \ JobsOf(i)
  /\ UNCHANGED <<registry, created, controls, used, paused, stopped, runs, modeTest>>

StopJob(i, id) ==
  /\ controls[i][id] # NoControl
  /\ stopped' = stopped \cup {controls[i][id]}
  /\ timer' = timer \ {controls[i][id]}
  /\ controls' = [controls EXCEPT ![i][id] = NoControl]
  /\ UNCHANGED <<registry, created, started, used, paused, runs, muted, modeTest>>

PauseJob(i, id) ==
  /\ controls[i][id] # NoControl
  /\ paused' = paused \cup {controls[i][id]}
  /\ UNCHANGED <<registry, created, started, controls, used, stopped, timer, runs, muted, modeTest>>

ResumeJob(i, id) ==
  /\ controls[i][id] # NoControl
  /\ paused' = paused \ {controls[i][id]}
  /\ UNCHANGED <<registry, created, started, controls, used, stopped, timer, runs, muted, modeTest>>

(* destroy of all the instances in I: stopTimers, stopJob for every job,   *)
(* and the instance leaves the registry, which becomes R.                  *)
DestroyAll(I, R) ==
  LET ended == UNION {JobsOf(i) : i \in I}
  IN  /\ started' = [i \in Instances |-> i \notin I /\ started[i]]
      /\ controls' = [i \in Instances |->
                       IF i \in I THEN [id \in Ids |-> NoControl] ELSE controls[i]]
      /\ stopped' = stopped \cup ended /\ timer' = timer \ ended
      /\ registry' = R
      /\ UNCHANGED <<created, used, paused, runs, muted, modeTest>>

(* The default instance is not exported, so only stopAllJobs destroys it.  *)
Destroy(i) == i \in created \ {DefaultJobs} /\ DestroyAll({i}, registry \ {i})

StopAllJobs == DestroyAll(registry, {DefaultJobs})

(* restartJobs: stopTimers, then startJobs, of the default instance.       *)
RestartJobs ==
  LET mine == JobsOf(DefaultJobs)
  IN  /\ started' = [started EXCEPT ![DefaultJobs] = ~modeTest]
      /\ timer' = IF modeTest THEN timer \ mine ELSE timer \cup mine
      /\ muted' = IF modeTest THEN muted ELSE muted \ mine
      /\ UNCHANGED <<registry, created, controls, used, paused, stopped, runs, modeTest>>

(* enableModeTest, disableModeTest.                                        *)
SetModeTest(b) ==
  /\ modeTest' = b
  /\ UNCHANGED <<registry, created, started, controls, used, flags, runs, muted>>

-----------------------------------------------------------------------------
(* #execute: a tick of the timer starts the callback.                      *)
TickIgnoringPause(c) ==
  /\ c \in timer
  /\ c \notin stopped /\ phase[c] = "none"
  /\ phase' = [phase EXCEPT ![c] = "racing"]
  /\ work' = [work EXCEPT ![c] = @ + 1]
  /\ UNCHANGED <<registry, created, started, controls, used, flags, muted, modeTest>>

Tick(c) ==
  /\ c \in timer
  /\ c \notin paused /\ c \notin stopped /\ phase[c] = "none"
  /\ phase' = [phase EXCEPT ![c] = "racing"]
  /\ work' = [work EXCEPT ![c] = @ + 1]
  /\ UNCHANGED <<registry, created, started, controls, used, flags, muted, modeTest>>

(* withTimeout gives up, but the guard stays until the callback settles.   *)
TimeoutEndsExecution(c) ==
  /\ phase[c] = "racing"
  /\ phase' = [phase EXCEPT ![c] = "none"]
  /\ UNCHANGED <<registry, created, started, controls, used, flags, work, muted, modeTest>>

Timeout(c) ==
  /\ phase[c] = "racing"
  /\ phase' = [phase EXCEPT ![c] = "settling"]
  /\ UNCHANGED <<registry, created, started, controls, used, flags, work, muted, modeTest>>

SettleAfterTimeoutKeepsGuard(c) ==
  /\ work[c] > 0
  /\ work' = [work EXCEPT ![c] = @ - 1]
  /\ phase' = [phase EXCEPT ![c] = IF @ = "racing" THEN "none" ELSE @]
  /\ UNCHANGED <<registry, created, started, controls, used, flags, muted, modeTest>>

(* The callback's promise settles.                                         *)
Settle(c) ==
  /\ work[c] > 0
  /\ work' = [work EXCEPT ![c] = @ - 1]
  /\ phase' = [phase EXCEPT ![c] = "none"]
  /\ UNCHANGED <<registry, created, started, controls, used, flags, muted, modeTest>>

JobsNext ==
  \/ \E i \in Instances : New(i) \/ StartJobs(i) \/ Destroy(i)
  \/ \E i \in Instances, id \in Ids :
       Register(i, id) \/ StopJob(i, id) \/ PauseJob(i, id) \/ ResumeJob(i, id)
  \/ StopAllJobs \/ RestartJobs
  \/ \E b \in BOOLEAN : SetModeTest(b)
  \/ \E c \in Controls : Tick(c) \/ Timeout(c) \/ Settle(c)

JobsSpec == JobsInit /\ [][JobsNext]_jobsVars

(* A timer that is armed fires again (a cron job's trigger matches again), *)
(* and callbacks settle.                                                   *)
TimersGoOn == \A c \in Controls : WF_jobsVars(Tick(c)) /\ WF_jobsVars(Settle(c))

-----------------------------------------------------------------------------
(* The type of the state: no control is registered twice, and the guard of *)
(* #execute is up exactly while the callback is unsettled.                 *)
JobsTypeOK ==
  /\ registry \subseteq created /\ created \subseteq Instances
  /\ started \in [Instances -> BOOLEAN]
  /\ controls \in [Instances -> [Ids -> used \cup {NoControl}]]
  /\ \A i, j \in Instances : \A a, b \in Ids :
       controls[i][a] = controls[j][b] /\ controls[i][a] # NoControl => i = j /\ a = b
  /\ used \subseteq Controls /\ paused \subseteq used /\ stopped \subseteq used
  /\ timer \subseteq used /\ muted \subseteq used
  /\ phase \in [Controls -> {"none", "racing", "settling"}]
  /\ work \in [Controls -> Nat]
  /\ \A c \in Controls : phase[c] = "none" <=> work[c] = 0
  /\ modeTest \in BOOLEAN

(* "Later interval ticks cannot overlap" an execution, also when it has    *)
(* timed out: no job has two callbacks under way.                          *)
NoOverlap == \A c \in Controls : work[c] <= 1

(* No timer outlives its job: one that is armed belongs to a job that is   *)
(* registered, on an instance that is started.                             *)
TimersBelongToJobs ==
  \A c \in timer : c \notin stopped /\ \E i \in Instances : started[i] /\ c \in JobsOf(i)

(* Every job of a started instance is armed, however starts, restarts and  *)
(* registrations were ordered, except those registered in test mode since. *)
StartedMeansArmed ==
  \A i \in Instances : started[i] => JobsOf(i) \subseteq timer \cup muted

(* A callback starts only for a job that is registered and not paused, on  *)
(* an instance that is started.                                            *)
OnlyLiveJobsRun ==
  [][\A c \in Controls : work'[c] > work[c] =>
       /\ c \notin paused
       /\ \E i \in Instances : started[i] /\ c \in JobsOf(i)]_jobsVars

(* A job that stays armed and is not paused runs again and again: no       *)
(* timeout or failure of a callback leaves its guard behind.               *)
JobsKeepRunning ==
  \A c \in Controls : []<>(work[c] > 0 \/ c \notin timer \/ c \in paused)
=============================================================================
