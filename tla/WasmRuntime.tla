---------------------------- MODULE WasmRuntime ----------------------------
(***************************************************************************)
(* GoforgeWasmRuntime of src/wasm/runtime.ts over its InstancePool: lazy   *)
(* loading, invocations through the pool or through a native adapter,      *)
(* cancellation, retries and the shutdown.                                 *)
(*                                                                         *)
(* An invocation is two activities.  Its front is the async function       *)
(* invoke, at pc[c]; its back is the promise #trackBackground holds (a     *)
(* dispatch that has not settled, with the release after it), which goes   *)
(* on after an abort has already sent the front home.                      *)
(***************************************************************************)
EXTENDS InstancePool

CONSTANTS
  NativeCalls,  \* the calls whose options name a native adapter
  RetryCalls,   \* the calls with allowRetry whose operation is retrySafe
  MaxAttempts,  \* #retry.maxAttempts
  MaxInvalid    \* bound on the calls made with an invalid timeoutMs or deadline

ASSUME RuntimeAssumption ==
  /\ NativeCalls \subseteq Calls
  /\ RetryCalls \subseteq Calls
  /\ MaxAttempts \in 1..10
  /\ MaxInvalid \in Nat

VARIABLES
  state,        \* #state
  load,         \* #loadPromise: "none", "pending", "verified" or "failed"
  activeCalls,  \* #activeCalls
  pc,           \* where each invocation is
  aborted,      \* whether the abort scope of the call has fired
  attempt,      \* the attempt each invocation is at
  background,   \* the calls whose back is in #background
  closer        \* where close() is: it awaits the active calls ("draining"), then the
                \* load and the background ("drained"), the pool, the adapters

callVars == <<pc, aborted, attempt>>
hostVars == <<state, load, closer>>
runtimeVars == <<callVars, hostVars, activeCalls, background>>
vars == <<poolVars, runtimeVars>>

shutdown == closer # "open"

(* Where a front that races a promise with its signal can be.              *)
Racing == {"loading", "running", "native", "sleeping"}

(* "ok", "transient" and "failed": the awaited promise has settled and the *)
(* continuation of invoke is due.  "transient" is a guest error that       *)
(* #isSafeTransient accepts, "failed" any other error.                     *)
Outcome == {"ok", "transient", "failed"}

(* raceWithSignal: an abort rejects a front that races, and one whose      *)
(* promise has just settled too if the race has not seen it; it comes too  *)
(* late for a front whose continuation is due.                             *)
Rejectable(c) == pc[c] \in Racing \cup {"ok", "transient"}
Due(c) ==
  \/ pc[c] \notin Racing
  \/ pc[c] = "loading" /\ load \in {"verified", "failed"}
  \/ pc[c] = "sleeping"

(* acquire rejected: by the abort, or by a failed creation.                *)
AcquireFailed(c) == pc[c] = "acquiring" /\ c \notin Queued /\ lease[c] = NoLease

Move(c, where) == pc' = [pc EXCEPT ![c] = where]

-----------------------------------------------------------------------------
RuntimeInit ==
  /\ PoolInit
  /\ state = "idle" /\ load = "none" /\ closer = "open"
  /\ activeCalls = 0 /\ background = {}
  /\ pc = [c \in Calls |-> "idle"]
  /\ aborted = [c \in Calls |-> FALSE]
  /\ attempt = [c \in Calls |-> 1]

(* #assertOpen                                                             *)
Open == state \notin {"closing", "closed"}

(* #ensureLoaded up to the promise it returns: the first caller starts the *)
(* one verification, the others share it, whatever became of it.           *)
EnsureLoaded ==
  IF load = "none"
    THEN load' = "pending" /\ state' = "loading"
    ELSE UNCHANGED <<load, state>>

(* preload: an abort or the load only decides what its caller is told.     *)
Preload ==
  /\ Open /\ load = "none"
  /\ EnsureLoaded
  /\ UNCHANGED <<poolVars, callVars, activeCalls, background, closer>>

(* invoke up to its first await.  A scope that starts aborted, as every    *)
(* scope does after the shutdown, ends the call within the same stretch.   *)
Invoke(c) ==
  /\ pc[c] = "idle" /\ c \notin background
  /\ Open /\ ~shutdown
  /\ activeCalls' = activeCalls + 1
  /\ aborted' = [aborted EXCEPT ![c] = FALSE]
  /\ attempt' = [attempt EXCEPT ![c] = 1]
  /\ EnsureLoaded
  /\ Move(c, "loading")
  /\ UNCHANGED <<poolVars, background, closer>>

(* invoke with options resolveDeadline refuses: it throws after the call   *)
(* was counted and before the try whose finally uncounts it.               *)
InvokeInvalid ==
  /\ Open
  /\ activeCalls - Cardinality({c \in Calls : pc[c] # "idle"}) < MaxInvalid
  /\ activeCalls' = activeCalls + 1
  /\ UNCHANGED <<poolVars, callVars, hostVars, background>>

(* The verification ends.  A bundle verified after the shutdown is refused *)
(* like a bad one, and gets no pool.                                       *)
LoadSettles(ok) ==
  /\ load = "pending"
  /\ IF ok /\ ~shutdown
       THEN load' = "verified" /\ state' = "ready"
       ELSE load' = "failed" /\ state' = IF Open THEN "degraded" ELSE state
  /\ UNCHANGED <<poolVars, callVars, activeCalls, background, closer>>

-----------------------------------------------------------------------------
(* One attempt: the component path asks the pool for a lease, which it     *)
(* refuses an aborted call; the native path starts the adapter's execution *)
(* even then, and only the race with the signal is lost at once.           *)
StartAttempt(c) ==
  \/ /\ c \notin NativeCalls /\ ~aborted[c]
     /\ Acquire(c)
     /\ Move(c, "acquiring")
     /\ UNCHANGED background
  \/ /\ c \notin NativeCalls /\ aborted[c]
     /\ Move(c, "failed")
     /\ UNCHANGED <<poolVars, background>>
  \/ /\ c \in NativeCalls
     /\ background' = background \cup {c}
     /\ Move(c, IF aborted[c] THEN "failed" ELSE "native")
     /\ UNCHANGED poolVars
  \/ /\ c \in NativeCalls       \* NativeAdapterRegistry.resolve throws
     /\ Move(c, "failed")
     /\ UNCHANGED <<poolVars, background>>

(* The load raced by invoke is there: an operation the manifest does not   *)
(* declare fails, a declared one starts its first attempt.                 *)
LoadSeen(c) ==
  /\ pc[c] = "loading" /\ load \in {"verified", "failed"}
  /\ \/ Move(c, "failed") /\ UNCHANGED <<poolVars, background>>
     \/ load = "verified" /\ StartAttempt(c)
  /\ UNCHANGED <<aborted, attempt, hostVars, activeCalls>>

(* #invokeComponent once the lease is granted: the request is dispatched,  *)
(* or, when the call was aborted meanwhile or dispatch throws, the lease   *)
(* is discarded and that awaited.                                          *)
DispatchLeakingLease(c) ==
  /\ pc[c] = "acquiring" /\ Leased(c)
  /\ background' = IF aborted[c] THEN background ELSE background \cup {c}
  /\ Move(c, IF aborted[c] THEN "failed" ELSE "running")
  /\ UNCHANGED <<poolVars, aborted, attempt, hostVars, activeCalls>>

Dispatch(c) ==
  /\ pc[c] = "acquiring" /\ Leased(c)
  /\ \/ /\ ~aborted[c]
        /\ background' = background \cup {c}
        /\ Move(c, "running")
        /\ UNCHANGED poolVars
     \/ /\ ReleaseForDiscard(c)
        /\ Move(c, "dropping")
        /\ UNCHANGED background
  /\ UNCHANGED <<aborted, attempt, hostVars, activeCalls>>

DropSettles(c) ==
  /\ pc[c] = "dropping"
  /\ \E ok \in BOOLEAN : DiscardSettles(c, ok)
  /\ Move(c, "failed")
  /\ UNCHANGED <<aborted, attempt, hostVars, activeCalls, background>>

(* The handlers of a dispatch that has settled: a parsed response to a     *)
(* live call returns the instance to the pool, anything else discards it.  *)
DispatchSettlesReusingAborted(c) ==
  /\ c \in background /\ Leased(c)
  /\ ReleaseForReuse(c)
  /\ background' = background \ {c}
  /\ \E r \in Outcome : Move(c, IF pc[c] = "running" THEN r ELSE pc[c])
  /\ UNCHANGED <<aborted, attempt, hostVars, activeCalls>>

DispatchSettles(c) ==
  /\ c \in background /\ Leased(c)
  /\ \/ /\ ~aborted[c]
        /\ ReleaseForReuse(c)
        /\ background' = background \ {c}
        /\ \E r \in Outcome : Move(c, r)
     \/ /\ ReleaseForDiscard(c)
        /\ UNCHANGED <<pc, background>>
  /\ UNCHANGED <<aborted, attempt, hostVars, activeCalls>>

(* ... and their end once the discarded instance is closed.                *)
DispatchDiscarded(c) ==
  /\ c \in background /\ c \in retiring
  /\ \E ok \in BOOLEAN : DiscardSettles(c, ok)
  /\ background' = background \ {c}
  /\ Move(c, IF pc[c] = "running" THEN "failed" ELSE pc[c])
  /\ UNCHANGED <<aborted, attempt, hostVars, activeCalls>>

(* #invokeAdapter: the adapter's execution settles.                        *)
AdapterSettles(c) ==
  /\ c \in background /\ c \in NativeCalls
  /\ background' = background \ {c}
  /\ \E r \in Outcome : Move(c, IF pc[c] = "native" THEN r ELSE pc[c])
  /\ UNCHANGED <<poolVars, aborted, attempt, hostVars, activeCalls>>

(* The caller's signal or the deadline fires: a queued call leaves the     *)
(* queue of the pool.                                                      *)
AbortUnheard(c) ==
  /\ pc[c] # "idle" /\ ~aborted[c]
  /\ aborted' = [aborted EXCEPT ![c] = TRUE]
  /\ UNCHANGED <<poolVars, pc, attempt, hostVars, activeCalls, background>>

Abort(c) ==
  /\ pc[c] # "idle" /\ ~aborted[c]
  /\ aborted' = [aborted EXCEPT ![c] = TRUE]
  /\ IF pc[c] = "acquiring" /\ c \in Queued
       THEN AbortWaiter(c)
       ELSE UNCHANGED poolVars
  /\ \/ Rejectable(c) /\ Move(c, "failed")
     \/ Due(c) /\ UNCHANGED pc
  /\ UNCHANGED <<attempt, hostVars, activeCalls, background>>

-----------------------------------------------------------------------------
(* The finally of invoke: the call is no longer counted, and the last one  *)
(* wakes the closer.                                                       *)
FinishWithoutWake(c) ==
  /\ Move(c, "idle")
  /\ activeCalls' = activeCalls - 1
  /\ UNCHANGED closer

Finish(c) ==
  /\ Move(c, "idle")
  /\ activeCalls' = activeCalls - 1
  /\ closer' = IF closer = "draining" /\ activeCalls = 1 THEN "drained" ELSE closer

(* The continuation of a successful attempt: the runtime is ready, says    *)
(* the code, whatever it was.                                              *)
Succeed(c) ==
  /\ pc[c] = "ok"
  /\ state' = "ready"
  /\ Finish(c)
  /\ UNCHANGED <<poolVars, aborted, attempt, load, background>>

(* #isSafeTransient and the attempts left.                                 *)
CanRetry(c) ==
  /\ pc[c] = "transient" /\ ~aborted[c]
  /\ c \in RetryCalls /\ attempt[c] < MaxAttempts

Backoff(c) ==
  /\ CanRetry(c)
  /\ Move(c, "sleeping")
  /\ UNCHANGED <<poolVars, aborted, attempt, hostVars, activeCalls, background>>

(* The delay is over and the next attempt starts.                          *)
RetryUncounted(c) ==
  /\ pc[c] = "sleeping"
  /\ StartAttempt(c)
  /\ UNCHANGED <<attempt, aborted, hostVars, activeCalls>>

Retry(c) ==
  /\ pc[c] = "sleeping"
  /\ attempt' = [attempt EXCEPT ![c] = @ + 1]
  /\ StartAttempt(c)
  /\ UNCHANGED <<aborted, hostVars, activeCalls>>

Fail(c) ==
  /\ \/ pc[c] = "failed"
     \/ pc[c] = "transient" /\ ~CanRetry(c)
     \/ AcquireFailed(c)
  /\ Finish(c)
  /\ UNCHANGED <<poolVars, aborted, attempt, state, load, background>>
-----------------------------------------------------------------------------
(* close(): the first call aborts every scope; a later one returns the     *)
(* same promise.                                                           *)
Close ==
  /\ ~shutdown
  /\ state' = "closing"
  /\ closer' = IF activeCalls = 0 THEN "drained" ELSE "draining"
  /\ aborted' = [c \in Calls |-> aborted[c] \/ pc[c] # "idle"]
  /\ \E rejected \in SUBSET {c \in Calls : Rejectable(c) /\ ~aborted[c]} :
       /\ \A c \in Calls : c \in rejected \/ Due(c)
       /\ pc' = [c \in Calls |-> IF c \in rejected THEN "failed" ELSE pc[c]]
  /\ IF waiters # <<>> THEN AbortEveryWaiter ELSE UNCHANGED poolVars
  /\ UNCHANGED <<attempt, load, activeCalls, background>>

(* Once no call is active it waits for the load and the background, which  *)
(* cannot come back, then closes the pool, if the load ever made one, and  *)
(* last the adapters.                                                      *)
ClosePoolIgnoringBackground ==
  /\ closer = "drained" /\ load # "pending"
  /\ IF load = "verified"
       THEN PoolClose /\ closer' = "pool"
       ELSE UNCHANGED poolVars /\ closer' = "adapters"
  /\ UNCHANGED <<callVars, state, load, activeCalls, background>>

ClosePool ==
  /\ closer = "drained" /\ load # "pending" /\ background = {}
  /\ IF load = "verified"
       THEN PoolClose /\ closer' = "pool"
       ELSE UNCHANGED poolVars /\ closer' = "adapters"
  /\ UNCHANGED <<callVars, state, load, activeCalls, background>>

CloseAdaptersUnawaited ==
  /\ closer = "pool"
  /\ closer' = "adapters"
  /\ UNCHANGED <<poolVars, callVars, state, load, activeCalls, background>>

CloseAdapters ==
  /\ closer = "pool" /\ closePromise \in {"resolved", "rejected"}
  /\ closer' = "adapters"
  /\ UNCHANGED <<poolVars, callVars, state, load, activeCalls, background>>

CloseDone(ok) ==
  /\ closer = "adapters"
  /\ closer' = IF ok /\ closePromise # "rejected" THEN "resolved" ELSE "rejected"
  /\ state' = "closed"
  /\ UNCHANGED <<poolVars, callVars, load, activeCalls, background>>

(* What the pool does by itself, while the runtime awaits it.              *)
PoolSettles ==
  /\ \/ \E i \in Instances : CreateFulfilled(i) \/ CreateRejected(i)
     \/ \E i \in Instances, ok \in BOOLEAN : LateCloseSettles(i, ok) \/ SweepCloses(i, ok)
     \/ SweepDone
  /\ UNCHANGED runtimeVars

-----------------------------------------------------------------------------
Front(c) ==
  \/ LoadSeen(c) \/ Dispatch(c) \/ DropSettles(c) \/ Succeed(c)
  \/ Backoff(c) \/ Retry(c) \/ Fail(c)

Next ==
  \/ Preload \/ InvokeInvalid \/ Close \/ ClosePool \/ CloseAdapters
  \/ \E ok \in BOOLEAN : LoadSettles(ok) \/ CloseDone(ok)
  \/ \E c \in Calls : Invoke(c) \/ Abort(c) \/ Front(c)
  \/ \E c \in Calls : DispatchSettles(c) \/ DispatchDiscarded(c) \/ AdapterSettles(c)
  \/ PoolSettles

Spec == RuntimeInit /\ [][Next]_vars

(* The event loop runs every continuation that is due, and what the host   *)
(* provides (artifact reads, the factory, close()) settles.                *)
HostFairness ==
  /\ \A c \in Calls : WF_vars(Front(c)) /\ WF_vars(DispatchDiscarded(c))
  /\ WF_vars(\E ok \in BOOLEAN : LoadSettles(ok))
  /\ WF_vars(PoolSettles)
  /\ WF_vars(ClosePool) /\ WF_vars(CloseAdapters)
  /\ WF_vars(\E ok \in BOOLEAN : CloseDone(ok))

(* Guest code and adapters answer every request.                           *)
GuestFairness ==
  \A c \in Calls : WF_vars(DispatchSettles(c)) /\ WF_vars(AdapterSettles(c))

FairSpec == Spec /\ HostFairness

-----------------------------------------------------------------------------
(* Every variable has its type.                                            *)
RuntimeTypeOK ==
  /\ PoolTypeOK
  /\ state \in {"idle", "loading", "ready", "degraded", "closing", "closed"}
  /\ load \in {"none", "pending", "verified", "failed"}
  /\ activeCalls \in Nat
  /\ pc \in [Calls -> Racing \cup Outcome \cup {"idle", "acquiring", "dropping"}]
  /\ aborted \in [Calls -> BOOLEAN]
  /\ attempt \in [Calls -> 1..MaxAttempts]
  /\ background \in SUBSET Calls
  /\ closer \in {"open", "draining", "drained", "pool", "adapters", "resolved", "rejected"}

(* Every step of the runtime is a step of the pool as its own              *)
(* specification describes it, or leaves the pool alone.                   *)
PoolRefined == PoolSpec

(* Nobody holds an instance without a running activity that will give it   *)
(* back: the front before the dispatch, the back after it.                 *)
NoOrphanLease ==
  \A c \in Calls : lease[c] # NoLease => pc[c] \in {"acquiring", "dropping"} \/ c \in background

(* The pool is closed only after every lease is back and every discarded   *)
(* instance is closed, and no adapter is closed while it executes.         *)
ClosesAfterWork ==
  /\ closed => \A c \in Calls : lease[c] = NoLease
  /\ closer \notin {"open", "draining", "drained"} => background = {}

(* An instance a cancelled or timed-out call was using never serves        *)
(* another call: the lease lasts until the instance is being discarded.    *)
CancelledInstanceDiscarded ==
  [][\A c \in Calls : Leased(c) /\ aborted[c] => lease'[c] = lease[c]]_vars

(* A call is attempted at most maxAttempts times, and more than once only  *)
(* if it may be retried.                                                   *)
AttemptsBounded ==
  \A c \in Calls : attempt[c] <= IF c \in RetryCalls THEN MaxAttempts ELSE 1

(* The close() promise settles only when nothing is left of the pool that  *)
(* the pool itself tracks, nor of the calls.                               *)
ClosedRuntimeIsQuiet ==
  closer \in {"resolved", "rejected"} =>
    /\ entries = {} /\ creating = {} /\ draining = {} /\ retiring = {}
    /\ \A c \in Calls : pc[c] = "idle" /\ lease[c] = NoLease

(* A cancelled call returns to its caller even if the guest never answers. *)
AbortedCallReturns ==
  \A c \in Calls : pc[c] # "idle" /\ aborted[c] ~> pc[c] = "idle"

(* Every call returns, if the guests and the adapters answer.              *)
EveryCallReturns ==
  GuestFairness => \A c \in Calls : pc[c] # "idle" ~> pc[c] = "idle"

(* So does close().                                                        *)
CloseCompletes ==
  GuestFairness => (shutdown ~> closer \in {"resolved", "rejected"})
=============================================================================
