---------------------------- MODULE SessionPool ----------------------------
(***************************************************************************)
(* One token of src/encrypt/pkcs11/session.ts: its SessionPool, the login  *)
(* its SlotState caches, the calls that use both through withSession, and  *)
(* the releaseModule that drains the pool and forgets the token.           *)
(*                                                                         *)
(* A synchronous stretch is one action.  The token is external.  The FFI   *)
(* calls are synchronous and only their results are awaited: a session     *)
(* exists from the call of openSession to the call of closeSession.  The   *)
(* token forgets the login with its last session; it may restart; it does  *)
(* not issue a handle again while this process still holds it.             *)
(***************************************************************************)
EXTENDS Naturals, Sequences, FiniteSets, Functions

CONSTANTS
  Users,       \* the callers of withSession
  Abortable,   \* those whose signal may abort
  Sessions,    \* the handles the token gives out
  Size,        \* #size
  NoSession,   \* the session of a user that has none
  MaxCalls,    \* bound on the calls of each user
  MaxRestarts  \* bound on the restarts of the token

ASSUME SessionAssumption ==
  /\ IsFiniteSet(Users) /\ Abortable \subseteq Users
  /\ IsFiniteSet(Sessions) /\ NoSession \notin Sessions
  /\ Size \in Nat \ {0} /\ Cardinality(Sessions) >= 2 * Size
  /\ MaxCalls \in Nat /\ MaxRestarts \in Nat

VARIABLES
  open,      \* #open
  idle,      \* #idle (which of them pop takes is left open)
  waiters,   \* #waiters: the users queued, oldest first
  pc,        \* where each call of withSession is
  session,   \* the session each call has
  calls,     \* calls each user has made
  loggedIn,  \* #loggedIn
  attempt,   \* #login: the session the login in flight runs on, or none
  drainer,   \* releaseModule: "none", "forgotten", "draining" or "released"
  doomed,    \* sessions drain has taken and not yet closed
  alive,     \* external: the sessions the token knows
  authed,    \* external: the token is logged in
  restarts,  \* external: how often the token has restarted
  wasted     \* history: wake-ups that went to a call that had aborted

poolVars == <<open, idle, waiters>>
counts == <<calls, wasted>>
callVars == <<pc, session, counts>>
loginVars == <<loggedIn, attempt>>
drainVars == <<drainer, doomed>>
tokenVars == <<alive, authed, restarts>>
vars == <<poolVars, callVars, loginVars, drainVars, tokenVars>>

At(place) == {u \in Users : pc[u] = place}
Holders == {u \in Users : session[u] # NoSession}
Held == {session[u] : u \in Holders}

(* closeSession: external.  With its last session the token forgets the    *)
(* login; closing sessions it does not know fails, which the pool ignores. *)
CloseSessions(S) ==
  /\ alive' = alive \ S
  /\ authed' = (authed /\ alive' # {})
  /\ UNCHANGED restarts

(* #wake: P is what the caller has made of pc.                             *)
Wake(P) ==
  IF waiters = <<>>
    THEN pc' = P /\ UNCHANGED waiters
    ELSE pc' = [P EXCEPT ![Head(waiters)] = "woken"] /\ waiters' = Tail(waiters)

WakeNobody(P) == pc' = P /\ UNCHANGED waiters

-----------------------------------------------------------------------------
Init ==
  /\ open = 0 /\ idle = {} /\ waiters = <<>>
  /\ pc = [u \in Users |-> "idle"]
  /\ session = [u \in Users |-> NoSession]
  /\ calls = [u \in Users |-> 0]
  /\ loggedIn = FALSE /\ attempt = NoSession
  /\ drainer = "none" /\ doomed = {}
  /\ alive = {} /\ authed = FALSE /\ restarts = 0 /\ wasted = 0

(* withSession up to acquire: the call has the module entry and the slot.  *)
(* Once releaseModule has removed the entry no call gets this slot again.  *)
Resolve(u) ==
  /\ pc[u] = "idle" /\ calls[u] < MaxCalls /\ drainer = "none"
  /\ pc' = [pc EXCEPT ![u] = "resolved"]
  /\ calls' = [calls EXCEPT ![u] = @ + 1]
  /\ UNCHANGED <<poolVars, session, wasted, loginVars, drainVars, tokenVars>>

(* acquire, the first exit of its loop: an idle session.                   *)
TakeIdlePeeking(u) ==
  \E s \in idle :
    /\ session' = [session EXCEPT ![u] = s]
    /\ pc' = [pc EXCEPT ![u] = "acquired"]
    /\ UNCHANGED <<poolVars, tokenVars>>

TakeIdle(u) ==
  \E s \in idle :
    /\ idle' = idle \ {s}
    /\ session' = [session EXCEPT ![u] = s]
    /\ pc' = [pc EXCEPT ![u] = "acquired"]
    /\ UNCHANGED <<open, waiters, tokenVars>>

(* The second: a new session, if the bound leaves room for one; the token  *)
(* may refuse it.                                                          *)
HasRoom == open < Size

OpenNew(u) ==
  /\ idle = {} /\ HasRoom
  /\ open' = open + 1
  /\ \/ \E s \in Sessions \ (alive \cup doomed \cup Held) :
          /\ session' = [session EXCEPT ![u] = s]
          /\ alive' = alive \cup {s}
          /\ pc' = [pc EXCEPT ![u] = "opening"]
     \/ pc' = [pc EXCEPT ![u] = "refused"] /\ UNCHANGED <<session, alive>>
  /\ UNCHANGED <<idle, waiters, authed, restarts>>

(* Otherwise it queues, and goes round the loop again when it is woken.    *)
Queue(u) ==
  /\ idle = {} /\ ~HasRoom
  /\ waiters' = Append(waiters, u)
  /\ pc' = [pc EXCEPT ![u] = "waiting"]
  /\ UNCHANGED <<open, idle, session, tokenVars>>

(* throwIfAborted, at the entry and after the wake-up: it wakes nobody.    *)
ThrowIfAborted(u) ==
  /\ u \in Abortable
  /\ pc' = [pc EXCEPT ![u] = "idle"]
  /\ wasted' = IF pc[u] = "woken" THEN wasted + 1 ELSE wasted
  /\ UNCHANGED <<poolVars, session, tokenVars>>

Acquire(u) ==
  /\ pc[u] \in {"resolved", "woken"}
  /\ \/ /\ TakeIdle(u) \/ OpenNew(u) \/ Queue(u)
        /\ UNCHANGED wasted
     \/ ThrowIfAborted(u)
  /\ UNCHANGED <<calls, loginVars, drainVars>>

(* openSession settles; a refusal gives the place back and wakes a waiter. *)
OpenSucceeds(u) ==
  /\ pc[u] = "opening"
  /\ pc' = [pc EXCEPT ![u] = "acquired"]
  /\ UNCHANGED <<poolVars, session, counts, loginVars, drainVars, tokenVars>>

OpenFailsUnheard(u) ==
  /\ pc[u] = "refused"
  /\ open' = open - 1
  /\ WakeNobody([pc EXCEPT ![u] = "idle"])
  /\ UNCHANGED <<idle, session, counts, loginVars, drainVars, tokenVars>>

OpenFails(u) ==
  /\ pc[u] = "refused"
  /\ open' = open - 1
  /\ Wake([pc EXCEPT ![u] = "idle"])
  /\ UNCHANGED <<idle, session, counts, loginVars, drainVars, tokenVars>>

-----------------------------------------------------------------------------
(* login: done already, or joined while in flight, or started.             *)
Login(u) ==
  /\ pc[u] = "acquired"
  /\ pc' = [pc EXCEPT ![u] = IF loggedIn THEN "operating" ELSE "joined"]
  /\ attempt' = IF loggedIn \/ attempt # NoSession THEN attempt ELSE session[u]
  /\ UNCHANGED <<poolVars, session, counts, loggedIn, drainVars, tokenVars>>

(* The attempt settles for every call that shares it.                      *)
JoinedGoTo(place) ==
  pc' = [u \in Users |-> IF pc[u] = "joined" THEN place ELSE pc[u]]

LoginSucceeds ==
  /\ attempt \in alive
  /\ authed' = TRUE /\ loggedIn' = TRUE /\ attempt' = NoSession
  /\ JoinedGoTo("operating")
  /\ UNCHANGED <<poolVars, session, counts, drainVars, alive, restarts>>

(* It fails because no PIN was to be had or the token refused it, or with  *)
(* an error that says that the session it runs on is dead.                 *)
LoginFails(dead) ==
  /\ attempt # NoSession
  /\ dead => attempt \notin alive
  /\ attempt' = NoSession
  /\ JoinedGoTo(IF dead THEN "dead" ELSE "failed")
  /\ UNCHANGED <<poolVars, session, counts, loggedIn, drainVars, tokenVars>>

-----------------------------------------------------------------------------
(* release of a session that is still good: it is idle again.              *)
GiveBack(u) ==
  /\ idle' = idle \cup {session[u]}
  /\ session' = [session EXCEPT ![u] = NoSession]
  /\ Wake([pc EXCEPT ![u] = "idle"])
  /\ UNCHANGED <<open, counts, loginVars, drainVars, tokenVars>>

(* release of a dead one: its place is free at once, then it is closed.    *)
DiscardKeepingPlace(u) ==
  /\ session' = [session EXCEPT ![u] = NoSession]
  /\ CloseSessions({session[u]})
  /\ pc' = [pc EXCEPT ![u] = "closing"]
  /\ UNCHANGED <<poolVars, counts, loginVars, drainVars>>

Discard(u) ==
  /\ open' = open - 1
  /\ session' = [session EXCEPT ![u] = NoSession]
  /\ CloseSessions({session[u]})
  /\ pc' = [pc EXCEPT ![u] = "closing"]
  /\ UNCHANGED <<idle, waiters, counts, loginVars, drainVars>>

(* The operation ends, with a result or an error; only on a session the    *)
(* token does not know can the error say that the session is dead.         *)
OperationEnds(u) ==
  /\ pc[u] = "operating"
  /\ GiveBack(u) \/ (session[u] \notin alive /\ Discard(u))

(* The catch of withSession after a failed login, by what sessionIsDead    *)
(* says of the failure, which need not be about the call's own session.    *)
LoginFailureEnds(u) ==
  \/ pc[u] = "failed" /\ GiveBack(u)
  \/ pc[u] = "dead" /\ Discard(u)

(* The close of a dead session has settled: #wake, then resetLogin.        *)
DiscardEndsKeepingLogin(u) ==
  /\ pc[u] = "closing"
  /\ Wake([pc EXCEPT ![u] = "idle"])
  /\ UNCHANGED <<open, idle, session, counts, loginVars, drainVars, tokenVars>>

DiscardEndsUnheard(u) ==
  /\ pc[u] = "closing"
  /\ WakeNobody([pc EXCEPT ![u] = "idle"])
  /\ loggedIn' = FALSE
  /\ UNCHANGED <<open, idle, session, counts, attempt, drainVars, tokenVars>>

DiscardEnds(u) ==
  /\ pc[u] = "closing"
  /\ Wake([pc EXCEPT ![u] = "idle"])
  /\ loggedIn' = FALSE
  /\ UNCHANGED <<open, idle, session, counts, attempt, drainVars, tokenVars>>

-----------------------------------------------------------------------------
(* releaseModule forgets the entry, and later drains the pool.             *)
ReleaseModule ==
  /\ drainer = "none"
  /\ drainer' = "forgotten"
  /\ UNCHANGED <<poolVars, callVars, loginVars, doomed, tokenVars>>

(* drain closes the sessions of S one after the other.  After the last it  *)
(* wakes one waiter and releaseModule resets the login: a call that opens  *)
(* a session after that close asks for the login only later, because its   *)
(* continuations are queued behind these.                                  *)
DrainFromKeepingLogin(S) ==
  \/ /\ Cardinality(S) <= 1
     /\ drainer' = "released" /\ doomed' = {}
     /\ CloseSessions(S)
     /\ Wake(pc)
     /\ UNCHANGED loggedIn
  \/ /\ Cardinality(S) > 1
     /\ drainer' = "draining"
     /\ \E s \in S : doomed' = S \ {s} /\ CloseSessions({s})
     /\ UNCHANGED <<pc, waiters, loggedIn>>

DrainFrom(S) ==
  \/ /\ Cardinality(S) <= 1
     /\ drainer' = "released" /\ doomed' = {}
     /\ CloseSessions(S)
     /\ Wake(pc)
     /\ loggedIn' = FALSE
  \/ /\ Cardinality(S) > 1
     /\ drainer' = "draining"
     /\ \E s \in S : doomed' = S \ {s} /\ CloseSessions({s})
     /\ UNCHANGED <<pc, waiters, loggedIn>>

Drain ==
  /\ drainer = "forgotten"
  /\ idle' = {} /\ open' = open - Cardinality(idle)
  /\ DrainFrom(idle)
  /\ UNCHANGED <<session, counts, attempt>>

DrainGoesOn ==
  /\ drainer = "draining"
  /\ DrainFrom(doomed)
  /\ UNCHANGED <<open, idle, session, counts, attempt>>

(* external: the token restarts, and forgets its sessions and the login.   *)
TokenRestarts ==
  /\ restarts < MaxRestarts
  /\ restarts' = restarts + 1
  /\ alive' = {} /\ authed' = FALSE
  /\ UNCHANGED <<poolVars, callVars, loginVars, drainVars>>

-----------------------------------------------------------------------------
Step(u) ==
  \/ Acquire(u) \/ OpenSucceeds(u) \/ OpenFails(u) \/ Login(u)
  \/ OperationEnds(u) \/ LoginFailureEnds(u) \/ DiscardEnds(u)

LoginSettles == LoginSucceeds \/ \E dead \in BOOLEAN : LoginFails(dead)

Next ==
  \/ \E u \in Users : Resolve(u) \/ Step(u)
  \/ LoginSettles
  \/ ReleaseModule \/ Drain \/ DrainGoesOn
  \/ TokenRestarts

Spec == Init /\ [][Next]_vars

(* Continuations run, and what they await (the token, the PIN, the         *)
(* operation) settles.                                                     *)
FairSpec ==
  /\ Spec
  /\ \A u \in Users : WF_vars(Step(u))
  /\ WF_vars(LoginSettles) /\ WF_vars(Drain \/ DrainGoesOn)

-----------------------------------------------------------------------------
Places ==
  {"idle", "resolved", "woken", "opening", "refused", "waiting", "acquired",
   "joined", "operating", "failed", "dead", "closing"}

(* The type of the state: #open never passes the bound or falls below 0,   *)
(* #waiters holds exactly the waiting calls, and a call has a session      *)
(* exactly between openSession and release.                                *)
SessionTypeOK ==
  /\ open \in 0 .. Size
  /\ idle \subseteq Sessions /\ doomed \subseteq Sessions /\ alive \subseteq Sessions
  /\ waiters \in Seq(Users) /\ Range(waiters) = At("waiting")
  /\ pc \in [Users -> Places]
  /\ session \in [Users -> Sessions \cup {NoSession}]
  /\ \A u \in Users : (session[u] # NoSession) <=>
       pc[u] \in {"opening", "acquired", "joined", "operating", "failed", "dead"}
  /\ calls \in [Users -> 0 .. MaxCalls] /\ wasted \in Nat
  /\ restarts \in 0 .. MaxRestarts
  /\ loggedIn \in BOOLEAN /\ authed \in BOOLEAN
  /\ attempt \in Sessions \cup {NoSession}
  /\ drainer \in {"none", "forgotten", "draining", "released"}

(* #open counts the sessions the pool has to give: the idle ones, those    *)
(* calls have, and the ones asked for, and none of them is another's or    *)
(* one that drain is about to close.  A release, refusal or drain that     *)
(* counted twice or not at all would shrink the pool for good.             *)
Accounting ==
  /\ open = Cardinality(idle) + Cardinality(Holders) + Cardinality(At("refused"))
  /\ idle \cap Held = {} /\ doomed \cap (idle \cup Held) = {}

(* No capacity is left over while calls wait: for every free session or    *)
(* place there is a call already woken to take it, the close of a dead     *)
(* session in flight that will wake one, or a wake-up that an aborted call *)
(* has wasted.                                                             *)
CapacityReachesWaiters ==
  waiters # <<>> =>
    Cardinality(idle) + (Size - open)
      <= Cardinality(At("woken")) + Cardinality(At("closing")) + wasted

(* Unless the token restarted, an operation runs only while the token is   *)
(* logged in: the cached flag never outlives the login it stands for.      *)
OperatesLoggedIn ==
  restarts = 0 => \A u \in At("operating") : authed

(* A restarted token is logged in to again: while the cached flag is       *)
(* stale, the pool has a dead session whose next use resets it, or a reset *)
(* is on its way.                                                          *)
StaleLoginRecovers ==
  loggedIn /\ ~authed =>
    \/ \E s \in idle \cup Held : s \notin alive
    \/ At("closing") # {}
    \/ drainer = "draining"

(* Every call of withSession returns or throws, if no wake-up is wasted on *)
(* an aborted call: nobody waits for ever for a session, a shared login or *)
(* a drain.                                                                *)
EveryCallReturns ==
  [](wasted = 0) => \A u \in Users : pc[u] # "idle" ~> pc[u] = "idle"

(* #wake "lets one waiter retry now that capacity may exist" (line 282):   *)
(* no capacity stays free while calls wait.                                *)
WakeupsReachWaiters ==
  waiters # <<>> =>
    Cardinality(idle) + (Size - open)
      <= Cardinality(At("woken")) + Cardinality(At("closing"))

(* The loans of the pool: the sessions calls have.                         *)
Lender == INSTANCE Lending WITH
  Resources <- Sessions, Borrowers <- Users, Limit <- Size,
  loan <- [u \in Holders |-> session[u]]

(* The pool implements Lending, that is, it "hands out exclusive sessions" *)
(* within the bound: whatever is refused, aborted, discarded, drained or   *)
(* restarted, each step lends one session to one call, takes one back or   *)
(* leaves the loans alone.                                                 *)
LendsSessions == Lender!Spec
=============================================================================
