--------------------------- MODULE WorkersProofs ---------------------------
(***************************************************************************)
(* Proofs about Workers for any set of limits, any default and any number  *)
(* of tasks: typing with the exact count of slots, FIFO order, no lost     *)
(* task, work conservation, and the bound on every start.                  *)
(***************************************************************************)
EXTENDS Workers, FiniteSetTheorems, SequenceTheorems, TLAPS

(* The inductive invariant: WorkConserving and StartsWithinBounds compare  *)
(* active with the tasks in flight, and QueueIsNewest is what makes the    *)
(* tasks a pump dispatches distinct and new, so all are proved together.   *)
WorkersInv == WorkersTypeOK /\ QueueIsNewest /\ NoTaskLost /\ WorkConserving

(* What q, act and busy must satisfy before a pump, with n tasks added.    *)
Pumpable(q, act, busy, n) ==
  /\ n \in 0 .. MaxTasks
  /\ q \in Seq(1 .. MaxTasks) /\ busy \subseteq 1 .. MaxTasks
  /\ act = Cardinality(busy)
  /\ \A i \in 1 .. Len(q) : q[i] = n - Len(q) + i
  /\ \A t \in busy : t <= n - Len(q)

-----------------------------------------------------------------------------
(* The loop of pump takes no more than there is, and stops only when the   *)
(* queue is empty or the slots are used up.                                *)
LEMMA TakenFits ==
  ASSUME NEW len \in Nat, NEW act \in Nat, NEW slots \in Int
  PROVE  /\ Taken(len, act, slots) \in 0 .. len
         /\ Taken(len, act, slots) # 0 => act + Taken(len, act, slots) <= slots
         /\ Taken(len, act, slots) = len \/ act + Taken(len, act, slots) >= slots
BY DEF Taken, Least

(* There are never more slots than the limit, and in sequential mode never *)
(* more than one.                                                          *)
LEMMA SlotsBounded ==
  ASSUME NEW lim \in Int, NEW par \in BOOLEAN
  PROVE  /\ Slots(lim, par) \in Int /\ Slots(lim, par) <= lim
         /\ ~par => Slots(lim, par) <= 1
BY DEF Slots, Least

(* A set of tasks is finite and has a size.                                *)
LEMMA TasksFinite ==
  ASSUME NEW S, S \subseteq 1 .. MaxTasks
  PROVE  IsFiniteSet(S) /\ Cardinality(S) \in Nat
<1>1. IsFiniteSet(1 .. MaxTasks)
  BY WorkersAssumption, FS_Interval
<1> QED  BY <1>1, FS_Subset, FS_CardinalityType

(* What one pump of a running loop does to queue, slots and tasks.         *)
LEMMA PumpEffect ==
  ASSUME NEW q, NEW act, NEW busy, NEW n,
         Pumpable(q, act, busy, n), Pump(q, act, busy),
         limit' \in Int, parallel' \in BOOLEAN
  PROVE  /\ Pumpable(queue', active', inflight', n)
         /\ Len(queue') + active' = Len(q) + act
         /\ queue' # <<>> => active' >= Slots(limit', parallel')
         /\ inflight' # busy => active' <= Slots(limit', parallel')
         /\ busy \subseteq inflight'
<1> DEFINE slots == Slots(limit', parallel')
           k == Taken(Len(q), act, slots)
           new == {q[i] : i \in 1 .. k}
           base == n - Len(q)
<1>1. /\ q \in Seq(1 .. MaxTasks) /\ Len(q) \in Nat /\ n \in Int
      /\ act \in Nat /\ IsFiniteSet(busy) /\ act = Cardinality(busy)
      /\ MaxTasks \in Nat /\ busy \subseteq 1 .. MaxTasks
  <2>1. /\ q \in Seq(1 .. MaxTasks) /\ n \in 0 .. MaxTasks
        /\ act = Cardinality(busy) /\ busy \subseteq 1 .. MaxTasks
    BY DEF Pumpable
  <2>2. IsFiniteSet(busy) /\ Cardinality(busy) \in Nat
    BY <2>1, TasksFinite
  <2>3. MaxTasks \in Nat
    BY WorkersAssumption
  <2>4. Len(q) \in Nat
    BY <2>1
  <2>5. n \in Int
    BY <2>1, <2>3
  <2> QED  BY <2>1, <2>2, <2>3, <2>4, <2>5
<1>2. slots \in Int
  BY SlotsBounded
<1>3. /\ k \in 0 .. Len(q)
      /\ k # 0 => act + k <= slots
      /\ k = Len(q) \/ act + k >= slots
  BY <1>1, <1>2, TakenFits
<1>4. /\ queue' = SubSeq(q, k + 1, Len(q))
      /\ active' = act + k
      /\ inflight' = busy \cup new
  BY DEF Pump
<1>5. base \in Int /\ new = (base + 1) .. (base + k)
  <2>1. \A i \in 1 .. k : q[i] = base + i
    BY <1>1, <1>3 DEF Pumpable
  <2>2. \A x \in (base + 1) .. (base + k) : x - base \in 1 .. k /\ x = base + (x - base)
    BY <1>1, <1>3
  <2>3. \A i \in 1 .. k : base + i \in (base + 1) .. (base + k)
    BY <1>1, <1>3
  <2>4. base \in Int
    BY <1>1
  <2>5. \A x \in new : x \in (base + 1) .. (base + k)
    <3> HIDE DEF base, k
    <3> QED  BY <2>1, <2>3
  <2>6. \A x \in (base + 1) .. (base + k) : x \in new
    <3> HIDE DEF base, k
    <3>1. \A i \in 1 .. k : base + i \in new
      BY <2>1
    <3> QED  BY <3>1, <2>2
  <2> HIDE DEF base, k, new
  <2> QED  BY <2>4, <2>5, <2>6
<1>6. IsFiniteSet(new) /\ Cardinality(new) = k
  <2> HIDE DEF new, k, base
  <2>1. k \in Nat
    BY <1>1, <1>3
  <2>2. base + 1 \in Int /\ base + k \in Int
    BY <2>1, <1>5
  <2>3. Cardinality((base + 1) .. (base + k)) =
          IF base + 1 > base + k THEN 0 ELSE (base + k) - (base + 1) + 1
    BY <2>2, FS_Interval
  <2>4. IsFiniteSet((base + 1) .. (base + k))
    BY <2>2, FS_Interval
  <2> QED  BY <2>1, <2>3, <2>4, <1>5
<1>7. busy \cap new = {}
  <2>1. \A t \in busy : t \in Int /\ t <= base
    BY <1>1 DEF Pumpable
  <2> HIDE DEF base, k, new
  <2> QED  BY <2>1, <1>5, <1>3, <1>1
<1>8. Cardinality(inflight') = act + k
  <2> HIDE DEF new, k
  <2>1. Cardinality(busy \cap new) = 0
    BY <1>7, FS_EmptySet
  <2>2. Cardinality(busy \cup new) =
          Cardinality(busy) + Cardinality(new) - Cardinality(busy \cap new)
    BY <1>1, <1>6, FS_Union
  <2>3. k \in Nat
    BY <1>1, <1>3
  <2> QED  BY <2>1, <2>2, <2>3, <1>1, <1>4, <1>6
<1>9. /\ queue' \in Seq(1 .. MaxTasks) /\ Len(queue') = Len(q) - k
      /\ \A i \in 1 .. Len(queue') : queue'[i] = q[i + k]
  <2>1. k + 1 \in 1 .. Len(q) + 1 /\ k \in Nat
    BY <1>1, <1>3
  <2> HIDE DEF k
  <2>2. Len(queue') = Len(q) - k
    BY <1>1, <1>3, <1>4, <2>1
  <2>3. \A i \in 1 .. Len(queue') : queue'[i] = q[i + k] /\ i + k \in 1 .. Len(q)
    <3> SUFFICES ASSUME NEW i \in 1 .. Len(queue')
                 PROVE  queue'[i] = q[i + k] /\ i + k \in 1 .. Len(q)
      OBVIOUS
    <3>1. i \in Int /\ i >= 1 /\ i <= Len(q) - k
      BY <1>1, <2>1, <2>2
    <3>2. queue'[i] = q[(k + 1) + i - 1]
      BY <1>1, <1>4, <2>1, <3>1
    <3>3. (k + 1) + i - 1 = i + k /\ i + k \in 1 .. Len(q)
      BY <1>1, <2>1, <3>1
    <3> QED  BY <3>2, <3>3
  <2>4. queue' \in Seq(1 .. MaxTasks)
    <3>1. \A i \in (k + 1) .. Len(q) : q[i] \in 1 .. MaxTasks
      BY <1>1, <2>1
    <3>2. k + 1 \in Int /\ Len(q) \in Int
      BY <1>1, <2>1
    <3>3. SubSeq(q, k + 1, Len(q)) \in Seq(1 .. MaxTasks)
      BY <3>1, <3>2, SubSeqProperties
    <3> QED  BY <3>3, <1>4
  <2> QED  BY <2>2, <2>3, <2>4
<1>10. \A i \in 1 .. Len(queue') : queue'[i] = n - Len(queue') + i
  <2> HIDE DEF k
  <2>1. \A i \in 1 .. Len(queue') : i + k \in 1 .. Len(q) /\ i + k \in Int
    <3>1. k \in Nat /\ k <= Len(q) /\ Len(q) \in Nat
      BY <1>1, <1>3
    <3> QED  BY <3>1, <1>9
  <2>2. \A j \in 1 .. Len(q) : q[j] = n - Len(q) + j
    BY DEF Pumpable
  <2>3. \A i \in 1 .. Len(queue') : queue'[i] = n - Len(q) + (i + k)
    BY <2>1, <2>2, <1>9
  <2> QED  BY <2>1, <2>3, <1>9, <1>1, <1>3
<1>11. \A t \in inflight' : t <= n - Len(queue')
  <2>1. \A t \in busy : t \in Int /\ t <= n - Len(q)
    BY <1>1 DEF Pumpable
  <2>2. \A t \in new : t \in Int /\ t <= base + k
    <3> HIDE DEF base, k, new
    <3> QED  BY <1>5, <1>3, <1>1
  <2> HIDE DEF k, new
  <2> QED  BY <2>1, <2>2, <1>4, <1>9, <1>1, <1>3, SMTT(30)
<1>12. inflight' \subseteq 1 .. MaxTasks
  <2>1. \A i \in 1 .. k : q[i] \in 1 .. MaxTasks
    BY <1>1, <1>3
  <2> HIDE DEF k
  <2> QED  BY <2>1, <1>1, <1>4
<1>13. Pumpable(queue', active', inflight', n)
  <2> HIDE DEF k, new
  <2> QED  BY <1>4, <1>8, <1>9, <1>10, <1>11, <1>12 DEF Pumpable
<1>14. Len(queue') + active' = Len(q) + act
  <2> HIDE DEF k
  <2> QED  BY <1>1, <1>3, <1>4, <1>9
<1>15. queue' # <<>> => active' >= slots
  <2> HIDE DEF k, slots
  <2>1. queue' # <<>> => Len(queue') # 0
    BY <1>9
  <2> QED  BY <2>1, <1>1, <1>2, <1>3, <1>4, <1>9
<1>16. inflight' # busy => active' <= slots
  <2>1. k = 0 => new = {}
    BY <1>3
  <2> HIDE DEF k, slots, new
  <2> QED  BY <2>1, <1>3, <1>4
<1> QED  BY <1>4, <1>13, <1>14, <1>15, <1>16

(* The same for a function that pumps only while the loop runs.            *)
LEMMA PumpIfRunningEffect ==
  ASSUME NEW q, NEW act, NEW busy, NEW n,
         Pumpable(q, act, busy, n), PumpIfRunning(q, act, busy),
         limit' \in Int, parallel' \in BOOLEAN, running' \in BOOLEAN
  PROVE  /\ Pumpable(queue', active', inflight', n)
         /\ Len(queue') + active' = Len(q) + act
         /\ running' /\ queue' # <<>> => active' >= Slots(limit', parallel')
         /\ inflight' # busy => running' /\ active' <= Slots(limit', parallel')
         /\ busy \subseteq inflight'
<1>1. CASE running'
  BY <1>1, PumpEffect DEF PumpIfRunning
<1>2. CASE ~running'
  BY <1>2 DEF PumpIfRunning
<1> QED  BY <1>1, <1>2

(* A state of the invariant can be pumped.                                 *)
LEMMA InvPumpable ==
  ASSUME WorkersInv
  PROVE  Pumpable(queue, active, inflight, added)
BY DEF WorkersInv, WorkersTypeOK, QueueIsNewest, Pumpable

(* What holds after a step that leaves a pumpable state with all tasks     *)
(* accounted for and the slots used is the invariant.                      *)
LEMMA PumpedInv ==
  ASSUME limit' \in Limits, running' \in BOOLEAN, parallel' \in BOOLEAN,
         settled' \in Nat, dropped' \in Nat,
         Pumpable(queue', active', inflight', added'),
         added' = Len(queue') + active' + settled' + dropped',
         running' /\ queue' # <<>> => active' >= Slots(limit', parallel')
  PROVE  WorkersInv'
<1>1. MaxTasks \in Nat /\ added' \in 0 .. MaxTasks /\ Len(queue') \in Nat
  BY WorkersAssumption DEF Pumpable
<1>2. active' = Cardinality(inflight') /\ active' \in Nat
  BY TasksFinite DEF Pumpable
<1>3. settled' \in 0 .. MaxTasks /\ dropped' \in 0 .. MaxTasks
  BY <1>1, <1>2
<1> QED  BY <1>1, <1>2, <1>3 DEF WorkersInv, WorkersTypeOK, QueueIsNewest, NoTaskLost, WorkConserving, Pumpable

-----------------------------------------------------------------------------
(* What StartsWithinBounds asks of one step.                               *)
BoundedStart ==
  ~(inflight' \subseteq inflight) =>
    /\ running'
    /\ Cardinality(inflight') <= limit'
    /\ ~parallel' => Cardinality(inflight') = 1

(* A pump that starts tasks within the slots starts them within the limit  *)
(* and the mode.                                                           *)
LEMMA StartInSlots ==
  ASSUME NEW busy, busy \subseteq inflight,
         limit' \in Int, parallel' \in BOOLEAN, running' \in BOOLEAN,
         inflight' \subseteq 1 .. MaxTasks, active' = Cardinality(inflight'),
         inflight' # busy => running' /\ active' <= Slots(limit', parallel')
  PROVE  BoundedStart
<1> SUFFICES ASSUME ~(inflight' \subseteq inflight)
             PROVE  /\ running' /\ Cardinality(inflight') <= limit'
                    /\ ~parallel' => Cardinality(inflight') = 1
  BY DEF BoundedStart
<1>1. running' /\ active' <= Slots(limit', parallel')
  OBVIOUS
<1>2. IsFiniteSet(inflight') /\ active' \in Nat
  BY TasksFinite
<1>3. active' # 0
  BY <1>2, FS_EmptySet
<1>4. /\ Slots(limit', parallel') \in Int /\ Slots(limit', parallel') <= limit'
      /\ ~parallel' => Slots(limit', parallel') <= 1
  BY SlotsBounded
<1> QED  BY <1>1, <1>2, <1>3, <1>4

(* One step from the invariant keeps it and starts tasks only in bounds.   *)
LEMMA WorkersStep ==
  ASSUME WorkersInv, [WorkersNext]_workersVars
  PROVE  WorkersInv' /\ BoundedStart
<1> USE DEF history
<1>1. Pumpable(queue, active, inflight, added)
  BY InvPumpable
<1>2. /\ limit \in Limits /\ running \in BOOLEAN /\ parallel \in BOOLEAN
      /\ settled \in Nat /\ dropped \in Nat /\ added \in 0 .. MaxTasks
      /\ added = Len(queue) + active + settled + dropped
      /\ inflight \subseteq 1 .. MaxTasks /\ active = Cardinality(inflight)
      /\ active \in Nat /\ Len(queue) \in Nat /\ queue \in Seq(1 .. MaxTasks)
      /\ IsFiniteSet(inflight) /\ MaxTasks \in Nat
  <2>1. WorkersTypeOK /\ NoTaskLost
    BY DEF WorkersInv
  <2>2. /\ limit \in Limits /\ running \in BOOLEAN /\ parallel \in BOOLEAN
        /\ settled \in 0 .. MaxTasks /\ dropped \in 0 .. MaxTasks
        /\ added \in 0 .. MaxTasks /\ queue \in Seq(1 .. MaxTasks)
        /\ inflight \subseteq 1 .. MaxTasks /\ active = Cardinality(inflight)
    BY <2>1 DEF WorkersTypeOK
  <2>3. IsFiniteSet(inflight) /\ Cardinality(inflight) \in Nat
    BY <2>2, TasksFinite
  <2>4. MaxTasks \in Nat
    BY WorkersAssumption
  <2>5. Len(queue) \in Nat
    BY <2>2
  <2>6. settled \in Nat /\ dropped \in Nat
    BY <2>2, <2>4
  <2>7. added = Len(queue) + active + settled + dropped
    BY <2>1, <2>2 DEF NoTaskLost
  <2> QED  BY <2>2, <2>3, <2>4, <2>5, <2>6, <2>7
<1>3. Limits \subseteq Int /\ DefaultLimit \in Limits
  BY WorkersAssumption
<1>4. ASSUME NEW q, NEW act, NEW busy,
             PumpIfRunning(q, act, busy), Pumpable(q, act, busy, added'),
             busy \subseteq inflight,
             limit' \in Limits, running' \in BOOLEAN, parallel' \in BOOLEAN,
             settled' \in Nat, dropped' \in Nat,
             added' = Len(q) + act + settled' + dropped'
      PROVE  WorkersInv' /\ BoundedStart
  <2>1. /\ Pumpable(queue', active', inflight', added')
        /\ Len(queue') + active' = Len(q) + act
        /\ running' /\ queue' # <<>> => active' >= Slots(limit', parallel')
        /\ inflight' # busy => running' /\ active' <= Slots(limit', parallel')
    BY <1>3, <1>4, PumpIfRunningEffect
  <2>2. /\ Len(queue') \in Nat /\ Len(q) \in Nat /\ active' \in Nat /\ act \in Nat
        /\ inflight' \subseteq 1 .. MaxTasks /\ active' = Cardinality(inflight')
        /\ added' \in Nat
    <3>1. /\ queue' \in Seq(1 .. MaxTasks) /\ q \in Seq(1 .. MaxTasks)
          /\ busy \subseteq 1 .. MaxTasks /\ act = Cardinality(busy)
          /\ inflight' \subseteq 1 .. MaxTasks /\ active' = Cardinality(inflight')
          /\ added' \in 0 .. MaxTasks
      BY <1>4, <2>1 DEF Pumpable
    <3>2. Cardinality(busy) \in Nat /\ Cardinality(inflight') \in Nat
      BY <3>1, TasksFinite
    <3>3. Len(queue') \in Nat /\ Len(q) \in Nat
      BY <3>1
    <3>4. added' \in Nat
      BY <3>1, <1>2
    <3> QED  BY <3>1, <3>2, <3>3, <3>4
  <2>3. added' = Len(queue') + active' + settled' + dropped'
    BY <1>4, <2>1, <2>2
  <2>4. WorkersInv'
    BY <1>4, <2>1, <2>3, PumpedInv
  <2>5. BoundedStart
    BY <1>3, <1>4, <2>1, <2>2, StartInSlots
  <2> QED  BY <2>4, <2>5
<1>5. CASE AddTask
  <2> DEFINE q == Append(queue, added + 1)
  <2>1. /\ Len(q) = Len(queue) + 1 /\ added + 1 \in 1 .. MaxTasks
        /\ q \in Seq(1 .. MaxTasks)
        /\ \A i \in 1 .. Len(queue) : q[i] = queue[i]
        /\ q[Len(queue) + 1] = added + 1
    BY <1>2, <1>5, SMTT(30) DEF AddTask
  <2>2. Pumpable(q, active, inflight, added')
    <3> HIDE DEF q
    <3>1. added' = added + 1
      BY <1>5 DEF AddTask
    <3>2. added' - Len(q) = added - Len(queue) /\ added \in Int /\ Len(queue) \in Nat
      BY <1>2, <2>1, <3>1, SMTT(30)
    <3>3. \A i \in 1 .. Len(q) : q[i] = added' - Len(q) + i
      <4>1. \A i \in 1 .. Len(queue) : queue[i] = added - Len(queue) + i
        BY <1>1 DEF Pumpable
      <4>2. \A i \in 1 .. Len(queue) : q[i] = added - Len(queue) + i
        BY <4>1, <2>1
      <4>3. q[Len(queue) + 1] = added - Len(queue) + (Len(queue) + 1)
        BY <2>1, <3>2
      <4>4. \A i \in 1 .. Len(q) : i \in 1 .. Len(queue) \/ i = Len(queue) + 1
        BY <2>1, <3>2
      <4> QED  BY <4>2, <4>3, <4>4, <3>2
    <3>4. \A t \in inflight : t <= added' - Len(q)
      <4>1. \A t \in inflight : t <= added - Len(queue)
        BY <1>1 DEF Pumpable
      <4> QED  BY <4>1, <3>2
    <3>5. added' \in 0 .. MaxTasks
      BY <1>2, <2>1, <3>1
    <3> QED  BY <1>2, <2>1, <3>3, <3>4, <3>5 DEF Pumpable
  <2>3. /\ PumpIfRunning(q, active, inflight)
        /\ limit' = limit /\ running' = running /\ parallel' = parallel
        /\ settled' = settled /\ dropped' = dropped /\ added' = added + 1
    BY <1>5 DEF AddTask
  <2> HIDE DEF q
  <2>4. added' = Len(q) + active + settled' + dropped'
    <3>1. Len(q) = Len(queue) + 1
      BY <2>1
    <3>2. settled' = settled /\ dropped' = dropped /\ added' = added + 1
      BY <2>3
    <3>3. /\ added = Len(queue) + active + settled + dropped
          /\ Len(queue) \in Nat /\ active \in Nat /\ settled \in Nat /\ dropped \in Nat
      BY <1>2
    <3> QED  BY <3>1, <3>2, <3>3
  <2> QED  BY <1>2, <1>4, <2>2, <2>3, <2>4
<1>6. ASSUME NEW v \in Limits, SetWorkersLimit(v)
      PROVE  WorkersInv' /\ BoundedStart
  BY <1>1, <1>2, <1>4, <1>6 DEF SetWorkersLimit
<1>7. ASSUME NEW b \in BOOLEAN, SetParallelism(b)
      PROVE  WorkersInv' /\ BoundedStart
  BY <1>1, <1>2, <1>4, <1>7 DEF SetParallelism
<1>8. CASE RunWorkers \/ RestartWorkers
  <2>1. PumpIfRunning(queue, active, inflight) /\ running' = TRUE
    BY <1>8 DEF RunWorkers, RestartWorkers, PumpIfRunning
  <2>2. /\ limit' = limit /\ parallel' = parallel /\ added' = added
        /\ settled' = settled /\ dropped' = dropped
    BY <1>8 DEF RunWorkers, RestartWorkers
  <2> QED  BY <1>1, <1>2, <1>4, <2>1, <2>2
<1>9. CASE StopWorkers
  <2>1. PumpIfRunning(queue, active, inflight) /\ running' = FALSE
    BY <1>9 DEF StopWorkers, PumpIfRunning
  <2>2. /\ limit' = limit /\ parallel' = parallel /\ added' = added
        /\ settled' = settled /\ dropped' = dropped
    BY <1>9 DEF StopWorkers
  <2> QED  BY <1>1, <1>2, <1>4, <2>1, <2>2
<1>10. CASE ResetWorkers
  <2>1. /\ running' = FALSE /\ limit' = DefaultLimit /\ parallel' = TRUE
        /\ queue' = <<>> /\ dropped' = dropped + Len(queue) /\ active' = active
        /\ added' = added /\ inflight' = inflight /\ settled' = settled
    BY <1>10 DEF ResetWorkers
  <2>2. \A t \in inflight : t \in Int /\ t <= added - Len(queue)
    BY <1>1, <1>2 DEF Pumpable
  <2>3. /\ PumpIfRunning(<<>>, active, inflight)
        /\ Len(<<>>) = 0 /\ <<>> \in Seq(1 .. MaxTasks)
    BY <2>1 DEF PumpIfRunning
  <2>4. \A t \in inflight : t <= added' - Len(<<>>)
    <3>1. added \in Int /\ Len(queue) \in Nat /\ added' = added
      BY <1>2, <2>1
    <3> QED  BY <2>2, <2>3, <3>1
  <2>5. Pumpable(<<>>, active, inflight, added')
    <3>1. \A i \in 1 .. Len(<<>>) : <<>>[i] = added' - Len(<<>>) + i
      BY <2>3
    <3> QED  BY <1>2, <2>1, <2>3, <2>4, <3>1 DEF Pumpable
  <2>6. added' = Len(<<>>) + active + settled' + dropped' /\ dropped' \in Nat
    BY <1>2, <2>1, <2>3, SMTT(30)
  <2> QED  BY <1>2, <1>3, <1>4, <2>1, <2>3, <2>5, <2>6
<1>11. ASSUME NEW t \in 1 .. MaxTasks, TaskSettles(t)
       PROVE  WorkersInv' /\ BoundedStart
  <2>1. /\ t \in inflight /\ PumpIfRunning(queue, active - 1, inflight \ {t})
        /\ limit' = limit /\ running' = running /\ parallel' = parallel
        /\ settled' = settled + 1 /\ dropped' = dropped /\ added' = added
    BY <1>11 DEF TaskSettles
  <2>2. Cardinality(inflight \ {t}) = active - 1
    BY <1>2, <2>1, FS_RemoveElement
  <2>3. Pumpable(queue, active - 1, inflight \ {t}, added')
    BY <1>1, <1>2, <2>1, <2>2 DEF Pumpable
  <2>4. added' = Len(queue) + (active - 1) + settled' + dropped'
    BY <1>2, <2>1
  <2>5. inflight \ {t} \subseteq inflight /\ settled' \in Nat
    BY <1>2, <2>1
  <2> QED  BY <1>2, <1>4, <2>1, <2>3, <2>4, <2>5
<1>12. CASE UNCHANGED workersVars
  BY <1>12 DEF workersVars, WorkersInv, WorkersTypeOK, QueueIsNewest, NoTaskLost, WorkConserving, BoundedStart
<1> QED  BY <1>5, <1>6, <1>7, <1>8, <1>9, <1>10, <1>11, <1>12 DEF WorkersNext

(* WorkersInit establishes the invariant: no task has been added.                 *)
LEMMA WorkersStart == WorkersInit => WorkersInv
<1> SUFFICES ASSUME WorkersInit PROVE WorkersInv
  OBVIOUS
<1>1. Cardinality({}) = 0 /\ Len(<<>>) = 0 /\ <<>> \in Seq(1 .. MaxTasks)
  BY FS_EmptySet
<1>2. MaxTasks \in Nat /\ 0 \in 0 .. MaxTasks /\ DefaultLimit \in Limits
  BY WorkersAssumption
<1>3. WorkersTypeOK
  BY <1>1, <1>2 DEF WorkersInit, WorkersTypeOK
<1>4. QueueIsNewest /\ NoTaskLost /\ WorkConserving
  BY <1>1 DEF WorkersInit, QueueIsNewest, NoTaskLost, WorkConserving
<1> QED  BY <1>3, <1>4 DEF WorkersInv

-----------------------------------------------------------------------------
(* The state of the worker loop keeps its type, and active counts exactly  *)
(* the tasks in flight, across every reset and restart.                    *)
THEOREM WorkersTypeCorrect == WorkersSpec => []WorkersTypeOK
<1>1. WorkersInv => WorkersTypeOK
  BY DEF WorkersInv
<1> QED  BY <1>1, WorkersStart, WorkersStep, PTL DEF WorkersSpec

(* The queue holds the newest tasks in the order of addTask: dispatch is   *)
(* first in, first out.                                                    *)
THEOREM WorkersFifo == WorkersSpec => []QueueIsNewest
<1>1. WorkersInv => QueueIsNewest
  BY DEF WorkersInv
<1> QED  BY <1>1, WorkersStart, WorkersStep, PTL DEF WorkersSpec

(* No task is lost or dispatched twice.                                    *)
THEOREM WorkersLoseNothing == WorkersSpec => []NoTaskLost
<1>1. WorkersInv => NoTaskLost
  BY DEF WorkersInv
<1> QED  BY <1>1, WorkersStart, WorkersStep, PTL DEF WorkersSpec

(* While the loop runs no task waits beside a free slot.                   *)
THEOREM WorkersConserveWork == WorkersSpec => []WorkConserving
<1>1. WorkersInv => WorkConserving
  BY DEF WorkersInv
<1> QED  BY <1>1, WorkersStart, WorkersStep, PTL DEF WorkersSpec

(* A task starts only within the limit and the mode in force.              *)
THEOREM WorkersStartInBounds == WorkersSpec => StartsWithinBounds
<1>1. WorkersInv /\ [WorkersNext]_workersVars => [BoundedStart]_workersVars
  BY WorkersStep
<1>2. WorkersSpec => [][BoundedStart]_workersVars
  BY <1>1, WorkersStart, WorkersStep, PTL DEF WorkersSpec
<1> QED  BY <1>2, PTL DEF StartsWithinBounds, BoundedStart
=============================================================================
