---------------------------- MODULE InstancePool ----------------------------
(***************************************************************************)
(* The bounded pool of component instances of src/wasm/runtime.ts (class   *)
(* InstancePool and its InstanceLease).                                    *)
(*                                                                         *)
(* JavaScript runs a handler to completion, so every synchronous stretch   *)
(* of a method, including the pump and the attempt to finish a close that  *)
(* end it, is one action.  What the code awaits (the factory's promise,    *)
(* the close() of an instance) ends in an action of its own, and any other *)
(* handler may run in between.                                             *)
(*                                                                         *)
(* A call c is one acquire: it is queued (c occurs in waiters), it holds a *)
(* lease (lease[c] is the instance), or it waits for the close() of the    *)
(* instance it discards (c \in retiring).                                  *)
(***************************************************************************)
EXTENDS Naturals, Sequences, FiniteSetsExt, Functions

CONSTANTS
  Calls,      \* the invocations that use the pool
  Instances,  \* the identities #nextId hands out; one may return once its instance is gone
  PoolMax,    \* #max
  NoLease     \* lease of a call that holds none

ASSUME PoolAssumption ==
  /\ IsFiniteSet(Calls)
  /\ IsFiniteSet(Instances)
  /\ PoolMax \in Nat \ {0}
  /\ NoLease \notin Instances

(* Enough identities for the pump never to run out of fresh ones: at most  *)
(* PoolMax instances are pooled or being created, and at most one more per *)
(* call is being closed.                                                   *)
ASSUME FreshAssumption ==
  Cardinality(Instances) >= PoolMax + Cardinality(Calls)

VARIABLES
  entries,      \* #entries
  busy,         \* the entries whose busy flag is set
  waiters,      \* #waiters: the queued calls, oldest first
  creating,     \* instances whose creation is in flight; its size is #creating
  lease,        \* the InstanceLease each call holds, or NoLease
  retiring,     \* calls awaiting the close() of the instance they discard
  closed,       \* #closed
  finalizing,   \* #finalizing
  draining,     \* instances the final sweep is closing
  late,         \* instances that arrived after the close and are being closed
  closeFailed,  \* a close() failure the closer will be told about
  closePromise  \* "none", "pending", "resolved" or "rejected"

slots == <<entries, busy, waiters, creating, lease>>
closing == <<finalizing, draining, closeFailed, closePromise>>
poolVars == <<slots, retiring, closed, late, closing>>

Queued == Range(waiters)
Leased(c) == lease[c] # NoLease /\ c \notin retiring
Discarded == {lease[c] : c \in retiring}

(* Instances that exist somewhere: an identity outside is free to be used. *)
Live == entries \cup creating \cup late \cup draining \cup Discarded

-----------------------------------------------------------------------------
(* waiters.splice(i, 1): s without its element i.                          *)
RemoveIndex(s, i) == [k \in 1..(Len(s) - 1) |-> IF k < i THEN s[k] ELSE s[k + 1]]

(* The entries [...entries].find may return: those not busy.  Which of     *)
(* several it returns makes no difference to the pool.                     *)
IdleOrBusy(E, B) == E

Idle(E, B) == E \ B

(* How many creations the loop of #pump starts when e entries, all busy,   *)
(* c creations and w waiters are left once the idle entries are taken.     *)
SpawnCount(e, c, w) ==
  IF w <= c \/ e + c >= PoolMax THEN 0 ELSE Min({w - c, PoolMax - (e + c)})

(* The leases L after the n oldest waiters of W are given those of pick.   *)
Grant(L, W, n, pick) ==
  [c \in Calls |-> IF \E k \in 1..n : W[k] = c
                     THEN pick[CHOOSE k \in 1..n : W[k] = c]
                     ELSE L[c]]

(* #pump on an open pool, from the values its caller has already assigned: *)
(* the oldest waiters get the idle entries, then creations are started for *)
(* waiters that none is on its way to.  An aborted waiter leaves the queue *)
(* in the same step as its abort, so none is met here.                     *)
Pump(E, B, W, C, L) ==
  LET granted == Min({Cardinality(Idle(E, B)), Len(W)})
      rest == SubSeq(W, granted + 1, Len(W))
      spawned == SpawnCount(Cardinality(E), Cardinality(C), Len(rest))
  IN \E pick \in Injection(1..granted, Idle(E, B)),
        new \in kSubset(spawned, Instances \ (Live \cup E)) :
       /\ entries' = E
       /\ busy' = B \cup Range(pick)
       /\ waiters' = rest
       /\ creating' = C \cup new
       /\ lease' = Grant(L, W, granted, pick)

(* #maybeFinishClose on a closed pool: once nothing is being created and   *)
(* no entry is busy, the sweep takes every entry and closes it.            *)
MaybeFinishClose(E, B, C) ==
  IF ~finalizing /\ C = {} /\ B = {}
    THEN finalizing' = TRUE /\ draining' = E /\ entries' = {} /\ busy' = {}
    ELSE UNCHANGED <<finalizing, draining>> /\ entries' = E /\ busy' = B

(* The tail of a handler: #pump, which on a closed pool is the attempt to  *)
(* finish the close.                                                       *)
PumpOrFinish(E, B, W, C, L) ==
  \/ /\ ~closed
     /\ Pump(E, B, W, C, L)
     /\ UNCHANGED <<finalizing, draining>>
  \/ /\ closed
     /\ MaybeFinishClose(E, B, C)
     /\ waiters' = W /\ creating' = C /\ lease' = L

-----------------------------------------------------------------------------
PoolInit ==
  /\ entries = {} /\ busy = {} /\ waiters = <<>> /\ creating = {}
  /\ lease = [c \in Calls |-> NoLease]
  /\ retiring = {} /\ late = {} /\ draining = {}
  /\ closed = FALSE /\ finalizing = FALSE /\ closeFailed = FALSE
  /\ closePromise = "none"

(* acquire: a closed pool rejects at once and changes nothing.             *)
EnqueueFirst(c) == <<c>> \o waiters

Enqueue(c) == Append(waiters, c)

Acquire(c) ==
  /\ ~closed
  /\ lease[c] = NoLease /\ c \notin Queued
  /\ Pump(entries, busy, Enqueue(c), creating, lease)
  /\ UNCHANGED <<retiring, closed, late, closing>>

(* The abort listener of a queued call: it leaves the queue, rejected.     *)
(* Closing the pool disposes every listener, so the pool is open here.     *)
AbortWaiter(c) ==
  /\ \E i \in DOMAIN waiters :
       /\ waiters[i] = c
       /\ Pump(entries, busy, RemoveIndex(waiters, i), creating, lease)
  /\ UNCHANGED <<retiring, closed, late, closing>>

(* The abort listeners of every queued call, run one after the other by    *)
(* one abort of a signal they all follow.  Each pumps for those still      *)
(* queued, so the first may start creations nobody will wait for; no       *)
(* entry is idle while calls are queued, so none is granted a lease.       *)
AbortEveryWaiter ==
  /\ waiters # <<>>
  /\ waiters' = <<>>
  /\ LET spawned == SpawnCount(Cardinality(entries), Cardinality(creating), Len(waiters) - 1)
     IN \E new \in kSubset(spawned, Instances \ Live) : creating' = creating \cup new
  /\ UNCHANGED <<entries, busy, lease, retiring, closed, late, closing>>

(* release without discard on an open pool: the entry is idle again.       *)
ReleaseForReuse(c) ==
  /\ Leased(c) /\ ~closed
  /\ Pump(entries, busy \ {lease[c]}, waiters, creating, [lease EXCEPT ![c] = NoLease])
  /\ UNCHANGED <<retiring, closed, late, closing>>

(* release with discard, or on a closed pool: the entry leaves the pool    *)
(* first, then its close() is awaited.                                     *)
ReleaseForDiscard(c) ==
  /\ Leased(c)
  /\ entries' = entries \ {lease[c]}
  /\ busy' = busy \ {lease[c]}
  /\ retiring' = retiring \cup {c}
  /\ UNCHANGED <<waiters, creating, lease, closed, late, closing>>

(* ... and the rest of release when that close() has settled.              *)
DiscardSettlesWithoutPump(c, ok) ==
  /\ c \in retiring
  /\ retiring' = retiring \ {c}
  /\ lease' = [lease EXCEPT ![c] = NoLease]
  /\ closeFailed' = (closeFailed \/ (closed /\ ~ok))
  /\ UNCHANGED <<entries, busy, waiters, creating, finalizing, draining, closed, late, closePromise>>

DiscardSettles(c, ok) ==
  /\ c \in retiring
  /\ retiring' = retiring \ {c}
  /\ closeFailed' = (closeFailed \/ (closed /\ ~ok))
  /\ PumpOrFinish(entries, busy, waiters, creating, [lease EXCEPT ![c] = NoLease])
  /\ UNCHANGED <<closed, late, closePromise>>

(* #startCreate, fulfilled: the instance joins an open pool, or its        *)
(* close() is awaited when the pool has closed meanwhile.                  *)
CreateFulfilled(i) ==
  /\ i \in creating
  /\ \/ /\ ~closed
        /\ Pump(entries \cup {i}, busy, waiters, creating \ {i}, lease)
        /\ UNCHANGED late
     \/ /\ closed
        /\ creating' = creating \ {i}
        /\ late' = late \cup {i}
        /\ UNCHANGED <<entries, busy, waiters, lease>>
  /\ UNCHANGED <<retiring, closed, closing>>

LateCloseSettles(i, ok) ==
  /\ i \in late
  /\ late' = late \ {i}
  /\ closeFailed' = (closeFailed \/ ~ok)
  /\ MaybeFinishClose(entries, busy, creating)
  /\ UNCHANGED <<waiters, creating, lease, retiring, closed, closePromise>>

(* #startCreate, rejected: the oldest waiter is told, whoever it is.       *)
CreateRejected(i) ==
  /\ i \in creating
  /\ PumpOrFinish(entries, busy, IF waiters = <<>> THEN <<>> ELSE Tail(waiters),
                  creating \ {i}, lease)
  /\ UNCHANGED <<retiring, closed, late, closeFailed, closePromise>>

(* close: the first call closes the pool and rejects every waiter, a later *)
(* one returns the same promise.                                           *)
PoolClose ==
  /\ ~closed
  /\ closed' = TRUE
  /\ closePromise' = "pending"
  /\ waiters' = <<>>
  /\ MaybeFinishClose(entries, busy, creating)
  /\ UNCHANGED <<creating, lease, retiring, late, closeFailed>>

(* The sweep of #maybeFinishClose: each close() settles, then the promise. *)
SweepCloses(i, ok) ==
  /\ i \in draining
  /\ draining' = draining \ {i}
  /\ closeFailed' = (closeFailed \/ ~ok)
  /\ UNCHANGED <<slots, retiring, closed, late, finalizing, closePromise>>

SweepDone ==
  /\ finalizing /\ draining = {} /\ closePromise = "pending"
  /\ closePromise' = IF closeFailed THEN "rejected" ELSE "resolved"
  /\ UNCHANGED <<slots, retiring, closed, late, finalizing, draining, closeFailed>>

-----------------------------------------------------------------------------
PoolNext ==
  \/ \E c \in Calls : Acquire(c)
  \/ \E c \in Calls : AbortWaiter(c)
  \/ AbortEveryWaiter
  \/ \E c \in Calls : ReleaseForReuse(c)
  \/ \E c \in Calls : ReleaseForDiscard(c)
  \/ \E c \in Calls, ok \in BOOLEAN : DiscardSettles(c, ok)
  \/ \E i \in Instances : CreateFulfilled(i)
  \/ \E i \in Instances : CreateRejected(i)
  \/ \E i \in Instances, ok \in BOOLEAN : LateCloseSettles(i, ok)
  \/ PoolClose
  \/ \E i \in Instances, ok \in BOOLEAN : SweepCloses(i, ok)
  \/ SweepDone

PoolSpec == PoolInit /\ [][PoolNext]_poolVars

-----------------------------------------------------------------------------
(* Every variable has its type.                                            *)
PoolTypeOK ==
  /\ entries \in SUBSET Instances
  /\ busy \in SUBSET entries
  /\ waiters \in Seq(Calls)
  /\ creating \in SUBSET Instances
  /\ lease \in [Calls -> Instances \cup {NoLease}]
  /\ retiring \in SUBSET Calls
  /\ draining \in SUBSET Instances
  /\ late \in SUBSET Instances
  /\ {closed, finalizing, closeFailed} \subseteq BOOLEAN
  /\ closePromise \in {"none", "pending", "resolved", "rejected"}

(* Instances in the pool and instances on their way never exceed #max.     *)
Capacity == Cardinality(entries) + Cardinality(creating) <= PoolMax

(* No two calls hold the same instance, what a call holds is still in the  *)
(* pool (so release never meets its early return), and an entry is busy    *)
(* exactly while some call holds it: none is leaked.                       *)
LeaseExclusive ==
  /\ \A c, d \in Calls : Leased(c) /\ Leased(d) /\ lease[c] = lease[d] => c = d
  /\ busy = {lease[c] : c \in {d \in Calls : Leased(d)}}

(* A call waits only while every entry is busy, and only if enough         *)
(* creations are on their way, the pool is full, or a discarded instance   *)
(* is still closing, after which the pump runs again: no lost wakeup.      *)
NoLostWakeup ==
  waiters # <<>> =>
    /\ ~closed
    /\ entries = busy
    /\ \/ Cardinality(creating) >= Len(waiters)
       \/ Cardinality(entries) + Cardinality(creating) = PoolMax
       \/ retiring # {}

(* Once the closer's promise has settled the pool holds nothing: no entry, *)
(* no lease, no waiter, no creation in flight, and the sweep is over.      *)
ClosedPoolIsEmpty ==
  closePromise \in {"resolved", "rejected"} =>
    /\ entries = {} /\ creating = {} /\ waiters = <<>> /\ draining = {}
    /\ \A c \in Calls : ~Leased(c)

(* c is queued, and d is not queued ahead of it.                           *)
Before(W, c, d) == \E i \in DOMAIN W : W[i] = c /\ \A j \in DOMAIN W : W[j] = d => i <= j

(* The pool is FIFO: whoever gets a lease leaves nobody queued that was    *)
(* queued ahead, a newcomer included, and the queue keeps the order of the *)
(* acquires whatever aborts and failed creations take out of it.           *)
FifoGrant ==
  [][\A c \in Calls, d \in Range(waiters') :
       /\ lease[c] = NoLease /\ lease'[c] # NoLease /\ d \in Queued => Before(waiters, c, d)
       /\ c \in Range(waiters') /\ Before(waiters, c, d) => Before(waiters', c, d)]_poolVars

(* The loans of the pool: the leases held.                                 *)
Lender == INSTANCE Lending WITH
  Resources <- Instances, Borrowers <- Calls, Limit <- PoolMax,
  loan <- [c \in {d \in Calls : Leased(d)} |-> lease[c]]

(* The pool implements Lending: seen from the calls that hold leases, each *)
(* step of it lends one instance, takes one back, passes one on from the   *)
(* call that releases it to the oldest waiter, or does nothing.  A discard *)
(* ends the lease when the instance leaves the pool, before its close().   *)
LendsInstances == Lender!Spec
=============================================================================
