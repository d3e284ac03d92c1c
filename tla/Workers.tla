------------------------------ MODULE Workers ------------------------------
(***************************************************************************)
(* src/tools/workers/workers.ts: the process-wide worker loop, a FIFO      *)
(* queue of tasks and a number of execution slots that may change, or be   *)
(* none at all, while tasks are in flight.                                 *)
(*                                                                         *)
(* Every exported function and every settlement runs in one piece.  A task *)
(* is named by its place in the order of addTask; it runs only after the   *)
(* function that dispatched it has returned, so what it calls in turn is   *)
(* another step.                                                           *)
(***************************************************************************)
EXTENDS Integers, Sequences, FiniteSets, Functions

CONSTANTS
  Limits,        \* the values given to setWorkersLimit, verbatim
  DefaultLimit,  \* DEFAULT_WORKER_LIMIT
  MaxTasks       \* bound on the tasks added

ASSUME WorkersAssumption ==
  /\ Limits \subseteq Int /\ DefaultLimit \in Limits /\ DefaultLimit >= 1
  /\ MaxTasks \in Nat

VARIABLES
  limit,     \* the concurrency limit
  queue,     \* tasks not yet dispatched, oldest first
  active,    \* how many slots are taken
  running,   \* the loop is running
  parallel,  \* the dispatch mode
  added,     \* how many tasks addTask has got
  inflight,  \* the tasks dispatched and not settled
  settled,   \* history: how many tasks have settled
  dropped    \* history: how many tasks resetWorkers has thrown away

history == <<settled, dropped>>
workersVars == <<limit, queue, active, running, parallel, added, inflight, history>>

-----------------------------------------------------------------------------
Least(a, b) == IF a < b THEN a ELSE b

(* The slots pump sees: sequential mode has one at most.                   *)
Slots(lim, par) == IF par THEN lim ELSE Least(lim, 1)

(* How many tasks the loop of pump takes off a queue of len.               *)
Taken(len, act, slots) ==
  IF slots <= act THEN 0 ELSE Least(len, slots - act)

PumpSkippingOne(q, act, busy) ==
  LET n == Taken(Len(q), act, Slots(limit', parallel'))
  IN  /\ queue' = SubSeq(q, n + 2, Len(q))
      /\ active' = act + n
      /\ inflight' = busy \cup {q[i] : i \in 1 .. n}

(* pump, on the queue q with act slots taken, under the limit and the mode *)
(* already in place.                                                       *)
Pump(q, act, busy) ==
  LET n == Taken(Len(q), act, Slots(limit', parallel'))
  IN  /\ queue' = SubSeq(q, n + 1, Len(q))
      /\ active' = act + n
      /\ inflight' = busy \cup {q[i] : i \in 1 .. n}

PumpIfRunning(q, act, busy) ==
  IF running' THEN Pump(q, act, busy)
              ELSE queue' = q /\ active' = act /\ inflight' = busy

-----------------------------------------------------------------------------
WorkersInit ==
  /\ limit = DefaultLimit /\ parallel = TRUE /\ running = FALSE
  /\ queue = <<>> /\ active = 0
  /\ added = 0 /\ inflight = {} /\ settled = 0 /\ dropped = 0

AddTask ==
  /\ added < MaxTasks
  /\ added' = added + 1
  /\ UNCHANGED <<limit, running, parallel, history>>
  /\ PumpIfRunning(Append(queue, added + 1), active, inflight)

SetWorkersLimit(v) ==
  /\ limit' = v
  /\ UNCHANGED <<running, parallel, added, history>>
  /\ PumpIfRunning(queue, active, inflight)

SetParallelism(b) ==
  /\ parallel' = b
  /\ UNCHANGED <<limit, running, added, history>>
  /\ PumpIfRunning(queue, active, inflight)

(* With the loop running already this changes nothing.                     *)
RunWorkers ==
  /\ ~running
  /\ running' = TRUE
  /\ UNCHANGED <<limit, parallel, added, history>>
  /\ Pump(queue, active, inflight)

StopWorkers ==
  /\ running' = FALSE
  /\ UNCHANGED <<limit, queue, active, parallel, added, inflight, history>>

RestartWorkers ==
  /\ running' = TRUE
  /\ UNCHANGED <<limit, parallel, added, history>>
  /\ Pump(queue, active, inflight)

(* Tasks in flight keep their slots.                                       *)
ResetWorkers ==
  /\ running' = FALSE /\ limit' = DefaultLimit /\ parallel' = TRUE
  /\ queue' = <<>>
  /\ dropped' = dropped + Len(queue)
  /\ UNCHANGED <<active, added, inflight, settled>>

(* A task settles, with or without an error, and its slot is free.         *)
TaskSettlesUnheard(t) ==
  /\ t \in inflight
  /\ active' = active - 1 /\ inflight' = inflight \ {t}
  /\ settled' = settled + 1
  /\ UNCHANGED <<limit, queue, running, parallel, added, dropped>>

TaskSettles(t) ==
  /\ t \in inflight
  /\ settled' = settled + 1
  /\ UNCHANGED <<limit, running, parallel, added, dropped>>
  /\ PumpIfRunning(queue, active - 1, inflight \ {t})

WorkersNext ==
  \/ AddTask
  \/ \E v \in Limits : SetWorkersLimit(v)
  \/ \E b \in BOOLEAN : SetParallelism(b)
  \/ RunWorkers \/ StopWorkers \/ RestartWorkers \/ ResetWorkers
  \/ \E t \in 1 .. MaxTasks : TaskSettles(t)

WorkersSpec == WorkersInit /\ [][WorkersNext]_workersVars

(* Every task settles in the end: what it does is the caller's.            *)
TasksSettle == \A t \in 1 .. MaxTasks : WF_workersVars(TaskSettles(t))

-----------------------------------------------------------------------------
(* The type of the state; active counts the tasks in flight, also those    *)
(* that were in flight when the loop was reset.                            *)
WorkersTypeOK ==
  /\ limit \in Limits
  /\ running \in BOOLEAN /\ parallel \in BOOLEAN
  /\ added \in 0 .. MaxTasks /\ settled \in 0 .. MaxTasks /\ dropped \in 0 .. MaxTasks
  /\ queue \in Seq(1 .. MaxTasks)
  /\ inflight \subseteq 1 .. MaxTasks
  /\ active = Cardinality(inflight)

(* First in, first out: the queue is the tasks added last, in their order, *)
(* whatever limits, modes and restarts there were, and every task in       *)
(* flight was added before them.                                           *)
QueueIsNewest ==
  /\ \A i \in 1 .. Len(queue) : queue[i] = added - Len(queue) + i
  /\ \A t \in inflight : t <= added - Len(queue)

(* No task is lost or run twice: every task added is queued, in flight or  *)
(* settled, or was thrown away by a reset.                                 *)
NoTaskLost ==
  added = Len(queue) + Cardinality(inflight) + settled + dropped

(* While the loop runs, a task waits only for want of a slot: every change *)
(* that could free one has pumped.                                         *)
WorkConserving ==
  running /\ queue # <<>> => active >= Slots(limit, parallel)

(* A step that starts a task leaves no more tasks in flight than the limit *)
(* now in force, and starts it alone in sequential mode: "the next task    *)
(* never starts before the current one settles", also when the mode or the *)
(* limit changed while more were in flight.                                *)
StartsWithinBounds ==
  [][~(inflight' \subseteq inflight) =>
       /\ running'
       /\ Cardinality(inflight') <= limit'
       /\ ~parallel' => Cardinality(inflight') = 1]_workersVars

(* A queued task is dispatched in the end, unless the loop is stopped or   *)
(* reset or has no slot.                                                   *)
EveryTaskRuns ==
  \A t \in 1 .. MaxTasks :
    t \in Range(queue) ~> (t \notin Range(queue) \/ ~running \/ limit <= 0)
=============================================================================
