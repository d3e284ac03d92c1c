------------------------- MODULE SessionPoolProofs -------------------------
(***************************************************************************)
(* Proofs about SessionPool for any number of callers, sessions, pool size *)
(* and restarts of the token: the typing of the state, the accounting of   *)
(* #open, that freed capacity reaches the waiters, what the cached login   *)
(* may claim, and that the pool implements Lending.                        *)
(***************************************************************************)
EXTENDS SessionPool, FiniteSetTheorems, SequenceTheorems, TLAPS

-----------------------------------------------------------------------------
(* Sets of callers, by where their calls are.                              *)

\* At, of a given assignment of places.
AtIn(P, place) == {u \in Users : P[u] = place}

(* Sets of callers are finite, so their sizes are natural numbers.         *)
LEMMA CallersFinite ==
  ASSUME NEW S \in SUBSET Users
  PROVE  IsFiniteSet(S) /\ Cardinality(S) \in Nat
BY SessionAssumption, FS_Subset, FS_CardinalityType

(* So are sets of sessions.                                                *)
LEMMA SessionsFinite ==
  ASSUME NEW S \in SUBSET Sessions
  PROVE  IsFiniteSet(S) /\ Cardinality(S) \in Nat
BY SessionAssumption, FS_Subset, FS_CardinalityType

\* Q is P after the call of u has moved to a place: the call is added to the
\* set of that place and taken out of the set of its old one.
Moved(P, Q, u, place) ==
  /\ Q \in [Users -> Places]
  /\ Q[u] = place /\ \A v \in Users \ {u} : Q[v] = P[v]
  /\ \A p \in Places :
       /\ AtIn(Q, p) = IF p = place THEN AtIn(P, p) \cup {u} ELSE AtIn(P, p) \ {u}
       /\ Cardinality(AtIn(P, p)) \in Nat
       /\ p # place /\ p # P[u] => AtIn(Q, p) = AtIn(P, p)
       /\ p = place /\ p # P[u] =>
            Cardinality(AtIn(Q, p)) = Cardinality(AtIn(P, p)) + 1
       /\ p # place /\ p = P[u] =>
            Cardinality(AtIn(Q, p)) = Cardinality(AtIn(P, p)) - 1

(* An assignment to one element of pc moves that call and no other.        *)
LEMMA MoveOne ==
  ASSUME NEW P \in [Users -> Places], NEW u \in Users, NEW place \in Places,
         NEW Q, Q = [P EXCEPT ![u] = place]
  PROVE  Moved(P, Q, u, place)
<1>1. Q \in [Users -> Places] /\ Q[u] = place /\ \A v \in Users \ {u} : Q[v] = P[v]
  OBVIOUS
<1>2. ASSUME NEW p \in Places
      PROVE  /\ AtIn(Q, p) = IF p = place THEN AtIn(P, p) \cup {u} ELSE AtIn(P, p) \ {u}
             /\ Cardinality(AtIn(P, p)) \in Nat
             /\ p # place /\ p # P[u] => AtIn(Q, p) = AtIn(P, p)
             /\ p = place /\ p # P[u] =>
                  Cardinality(AtIn(Q, p)) = Cardinality(AtIn(P, p)) + 1
             /\ p # place /\ p = P[u] =>
                  Cardinality(AtIn(Q, p)) = Cardinality(AtIn(P, p)) - 1
  <2>1. AtIn(Q, p) = IF p = place THEN AtIn(P, p) \cup {u} ELSE AtIn(P, p) \ {u}
    BY <1>1 DEF AtIn
  <2>2. IsFiniteSet(AtIn(P, p)) /\ Cardinality(AtIn(P, p)) \in Nat
    BY CallersFinite DEF AtIn
  <2>3. u \in AtIn(P, p) <=> P[u] = p
    BY DEF AtIn
  <2>4. p # place /\ p # P[u] => AtIn(Q, p) = AtIn(P, p)
    BY <2>1, <2>3
  <2>5. p = place /\ p # P[u] => Cardinality(AtIn(Q, p)) = Cardinality(AtIn(P, p)) + 1
    BY <2>1, <2>2, <2>3, FS_AddElement
  <2>6. p # place /\ p = P[u] => Cardinality(AtIn(Q, p)) = Cardinality(AtIn(P, p)) - 1
    BY <2>1, <2>2, <2>3, FS_RemoveElement, ZenonT(30)
  <2> QED  BY <2>1, <2>2, <2>4, <2>5, <2>6
<1> QED  BY <1>1, <1>2 DEF Moved

-----------------------------------------------------------------------------
(* #wake.                                                                  *)

\* The queue W holds each of the calls that wait, once.
QueueHolds(W, P) ==
  /\ W \in Seq(Users)
  /\ Range(W) = AtIn(P, "waiting")
  /\ \A j, k \in 1..Len(W) : W[j] = W[k] => j = k

(* #wake takes the oldest waiter, if there is one, out of the queue and    *)
(* moves it and nobody else.                                               *)
LEMMA WakeMovesOldest ==
  ASSUME NEW P \in [Users -> Places], QueueHolds(waiters, P), Wake(P)
  PROVE  /\ pc' \in [Users -> Places]
         /\ QueueHolds(waiters', pc')
         /\ \A u \in Users : pc'[u] = P[u] \/ (P[u] = "waiting" /\ pc'[u] = "woken")
         /\ \A p \in Places \ {"waiting", "woken"} : AtIn(pc', p) = AtIn(P, p)
         /\ Cardinality(AtIn(pc', "woken")) \in Nat
         /\ Cardinality(AtIn(P, "woken")) \in Nat
         /\ waiters' # <<>> => /\ waiters # <<>>
                               /\ Cardinality(AtIn(pc', "woken")) = Cardinality(AtIn(P, "woken")) + 1
<1>0. {"waiting", "woken"} \subseteq Places
  BY DEF Places
<1>1. CASE waiters = <<>>
  <2>1. pc' = P /\ waiters' = waiters
    BY <1>1 DEF Wake
  <2>2. Cardinality(AtIn(P, "woken")) \in Nat
    BY CallersFinite DEF AtIn
  <2> QED  BY <1>1, <2>1, <2>2
<1>2. CASE waiters # <<>>
  <2> DEFINE h == Head(waiters)
             n == Len(waiters)
  <2>1. pc' = [P EXCEPT ![h] = "woken"] /\ waiters' = Tail(waiters)
    BY <1>2 DEF Wake
  <2>2. /\ waiters \in Seq(Users) /\ n \in Nat \ {0} /\ h = waiters[1]
        /\ DOMAIN waiters = 1..n
    BY <1>2, EmptySeq, LenProperties DEF QueueHolds
  <2>3. /\ Tail(waiters) \in Seq(Users) /\ Len(Tail(waiters)) = n - 1
        /\ \A i \in 1..(n - 1) : Tail(waiters)[i] = waiters[i + 1]
        /\ DOMAIN Tail(waiters) = 1..(n - 1)
    BY <1>2, <2>2, HeadTailProperties, LenProperties
  <2>4. h \in Users /\ P[h] = "waiting"
    BY <2>2 DEF QueueHolds, Range, AtIn
  <2> HIDE DEF h, n
  <2>5. \A i \in 1..n : i = 1 \/ (i - 1 \in 1..(n - 1) /\ (i - 1) + 1 = i)
    BY <2>2
  <2>6. Range(Tail(waiters)) = Range(waiters) \ {h}
    <3>1. \A j, k \in 1..n : waiters[j] = waiters[k] => j = k
      BY DEF QueueHolds, n
    <3>2. \A i \in 1..(n - 1) : i + 1 \in 1..n /\ 1 \in 1..n /\ i + 1 # 1
      BY <2>2
    <3>3. ASSUME NEW x \in Range(Tail(waiters)) PROVE x \in Range(waiters) \ {h}
      <4>1. PICK i \in 1..(n - 1) : x = waiters[i + 1]
        BY <2>3 DEF Range
      <4> QED  BY <4>1, <3>1, <3>2, <2>2 DEF Range
    <3>4. ASSUME NEW x \in Range(waiters) \ {h} PROVE x \in Range(Tail(waiters))
      <4>1. PICK i \in 1..n : x = waiters[i]
        BY <2>2 DEF Range
      <4>2. i - 1 \in 1..(n - 1) /\ Tail(waiters)[i - 1] = x
        BY <4>1, <2>2, <2>3, <2>5
      <4> QED  BY <4>2, <2>3 DEF Range
    <3> QED  BY <3>3, <3>4
  <2>7. \A j, k \in 1..Len(Tail(waiters)) : Tail(waiters)[j] = Tail(waiters)[k] => j = k
    <3>1. \A j, k \in 1..n : waiters[j] = waiters[k] => j = k
      BY DEF QueueHolds, n
    <3> QED  BY <3>1, <2>2, <2>3
  <2>8. /\ pc' \in [Users -> Places]
        /\ pc'[h] = "woken" /\ \A v \in Users \ {h} : pc'[v] = P[v]
        /\ \A p \in Places \ {"waiting", "woken"} : AtIn(pc', p) = AtIn(P, p)
        /\ Cardinality(AtIn(P, "woken")) \in Nat
        /\ Cardinality(AtIn(pc', "woken")) = Cardinality(AtIn(P, "woken")) + 1
        /\ AtIn(pc', "waiting") = AtIn(P, "waiting") \ {h}
    <3>1. Moved(P, pc', h, "woken")
      BY <1>0, <2>1, <2>4, MoveOne
    <3> QED  BY <1>0, <2>4, <3>1 DEF Moved
  <2>9. QueueHolds(waiters', pc')
    BY <2>1, <2>3, <2>6, <2>7, <2>8 DEF QueueHolds
  <2> QED  BY <1>2, <2>4, <2>8, <2>9
<1> QED  BY <1>1, <1>2

(* A call that neither was nor comes to be waiting leaves the queue alone. *)
LEMMA MoveKeepsQueue ==
  ASSUME NEW P \in [Users -> Places], NEW Q, NEW u \in Users, NEW place \in Places,
         Moved(P, Q, u, place), QueueHolds(waiters, P),
         P[u] # "waiting", place # "waiting"
  PROVE  QueueHolds(waiters, Q)
<1>1. "waiting" \in Places
  BY DEF Places
<1>2. AtIn(Q, "waiting") = AtIn(P, "waiting")
  BY <1>1 DEF Moved
<1> QED  BY <1>2 DEF QueueHolds

(* acquire queues a call behind those that wait.                           *)
LEMMA QueueAtTheEnd ==
  ASSUME NEW P \in [Users -> Places], NEW Q, NEW u \in Users,
         Moved(P, Q, u, "waiting"), QueueHolds(waiters, P), P[u] # "waiting"
  PROVE  QueueHolds(Append(waiters, u), Q)
<1> DEFINE W == Append(waiters, u)
           n == Len(waiters)
<1>1. "waiting" \in Places
  BY DEF Places
<1>2. AtIn(Q, "waiting") = AtIn(P, "waiting") \cup {u}
  BY <1>1 DEF Moved
<1>3. waiters \in Seq(Users) /\ n \in Nat /\ DOMAIN waiters = 1..n
  BY LenProperties DEF QueueHolds
<1>4. /\ W \in Seq(Users) /\ Len(W) = n + 1 /\ DOMAIN W = 1..(n + 1)
      /\ \A i \in 1..n : W[i] = waiters[i]
      /\ W[n + 1] = u
  BY <1>3, AppendProperties, LenProperties
<1>5. \A i \in 1..n : waiters[i] # u
  BY <1>3 DEF QueueHolds, Range, AtIn
<1>6. \A j, k \in 1..n : waiters[j] = waiters[k] => j = k
  BY DEF QueueHolds
<1> HIDE DEF W, n
<1>7. \A i \in 1..(n + 1) : i \in 1..n \/ i = n + 1
  BY <1>3
<1>8. \A j, k \in 1..Len(W) : W[j] = W[k] => j = k
  BY <1>4, <1>5, <1>6, <1>7
<1>9. Range(W) = Range(waiters) \cup {u}
  <2>1. n + 1 \in 1..(n + 1) /\ \A i \in 1..n : i \in 1..(n + 1)
    BY <1>3
  <2> QED  BY <2>1, <1>3, <1>4, <1>7 DEF Range
<1> QED  BY <1>2, <1>4, <1>8, <1>9 DEF QueueHolds, W

-----------------------------------------------------------------------------
(* Who has which session.                                                  *)

\* No session is with two calls.
HeldOnce == \A u, v \in Holders : session[u] = session[v] => u = v

\* drain has sessions left to close exactly while it closes them.
DoomedDraining == doomed # {} <=> drainer = "draining"

SessionsTyped == session \in [Users -> Sessions \cup {NoSession}]

(* A session nobody has goes to a call that has none.                      *)
LEMMA LendOne ==
  ASSUME SessionsTyped, HeldOnce, NEW u \in Users, u \notin Holders,
         NEW s \in Sessions, s \notin Held, session' = [session EXCEPT ![u] = s]
  PROVE  /\ SessionsTyped' /\ HeldOnce'
         /\ Holders' = Holders \cup {u} /\ Held' = Held \cup {s}
         /\ session'[u] = s /\ \A v \in Users \ {u} : session'[v] = session[v]
         /\ Cardinality(Holders) \in Nat
         /\ Cardinality(Holders') = Cardinality(Holders) + 1
<1>1. s # NoSession
  BY SessionAssumption
<1>2. SessionsTyped'
  BY DEF SessionsTyped
<1>3. session'[u] = s /\ \A v \in Users \ {u} : session'[v] = session[v]
  BY DEF SessionsTyped
<1>4. Holders' = Holders \cup {u}
  BY <1>1, <1>3 DEF Holders
<1>5. Held' = Held \cup {s}
  BY <1>3, <1>4 DEF Held, Holders
<1>6. HeldOnce'
  BY <1>3, <1>4 DEF HeldOnce, Held, Holders
<1>7. Cardinality(Holders) \in Nat /\ Cardinality(Holders') = Cardinality(Holders) + 1
  BY <1>4, CallersFinite, FS_AddElement DEF Holders
<1> QED  BY <1>2, <1>3, <1>4, <1>5, <1>6, <1>7

(* The session of a call is with nobody once the call has let go of it.    *)
LEMMA TakeBackOne ==
  ASSUME SessionsTyped, HeldOnce, NEW u \in Holders,
         session' = [session EXCEPT ![u] = NoSession]
  PROVE  /\ SessionsTyped' /\ HeldOnce'
         /\ Holders' = Holders \ {u} /\ Held' = Held \ {session[u]}
         /\ session[u] \in Sessions /\ session[u] \in Held
         /\ session'[u] = NoSession /\ \A v \in Users \ {u} : session'[v] = session[v]
         /\ Cardinality(Holders) \in Nat
         /\ Cardinality(Holders') = Cardinality(Holders) - 1
<1>1. u \in Users /\ session[u] \in Sessions /\ session[u] \in Held
  BY DEF Holders, Held, SessionsTyped
<1>2. SessionsTyped'
  BY <1>1 DEF SessionsTyped
<1>3. session'[u] = NoSession /\ \A v \in Users \ {u} : session'[v] = session[v]
  BY <1>1 DEF SessionsTyped
<1>4. Holders' = Holders \ {u}
  BY <1>1, <1>3 DEF Holders
<1>5. Held' = Held \ {session[u]}
  BY <1>1, <1>3, <1>4 DEF Held, Holders, HeldOnce
<1>6. HeldOnce'
  BY <1>3, <1>4 DEF HeldOnce, Holders
<1>7. Cardinality(Holders) \in Nat /\ Cardinality(Holders') = Cardinality(Holders) - 1
  BY <1>1, <1>4, CallersFinite, FS_RemoveElement DEF Holders
<1> QED  BY <1>1, <1>2, <1>3, <1>4, <1>5, <1>6, <1>7

(* Calls that keep their sessions leave the loans as they are.             *)
LEMMA LoansKept ==
  ASSUME UNCHANGED session
  PROVE  Holders' = Holders /\ Held' = Held /\ (HeldOnce => HeldOnce')
BY DEF Holders, Held, HeldOnce

-----------------------------------------------------------------------------
(* The inductive invariant behind the accounting.                          *)

\* The types of the variables that no other conjunct relates.
PlainTypes ==
  /\ idle \subseteq Sessions /\ doomed \subseteq Sessions /\ alive \subseteq Sessions
  /\ calls \in [Users -> 0 .. MaxCalls] /\ wasted \in Nat
  /\ restarts \in 0 .. MaxRestarts
  /\ loggedIn \in BOOLEAN /\ authed \in BOOLEAN
  /\ attempt \in Sessions \cup {NoSession}
  /\ drainer \in {"none", "forgotten", "draining", "released"}

\* A call has a session exactly in these places.
HoldingPlaces == {"opening", "acquired", "joined", "operating", "failed", "dead"}

PlacesTyped == pc \in [Users -> Places]

HoldersByPlace == \A u \in Users : (session[u] # NoSession) <=> pc[u] \in HoldingPlaces

OpenFits == open \in Nat /\ open <= Size

CoreInv ==
  /\ PlainTypes /\ PlacesTyped /\ SessionsTyped /\ OpenFits
  /\ HoldersByPlace
  /\ QueueHolds(waiters, pc)
  /\ HeldOnce /\ DoomedDraining
  /\ Accounting

(* The invariant holds when the SlotState is made.                         *)
LEMMA CoreInit == Init => CoreInv
<1> SUFFICES ASSUME Init PROVE CoreInv
  OBVIOUS
<1> USE SessionAssumption DEF Init
<1>1. PlainTypes /\ PlacesTyped /\ SessionsTyped /\ OpenFits
  <2>1. 0 \in 0 .. MaxCalls /\ 0 \in 0 .. MaxRestarts /\ 0 <= Size
    OBVIOUS
  <2>2. PlainTypes
    BY <2>1 DEF PlainTypes
  <2> QED  BY <2>1, <2>2 DEF PlacesTyped, SessionsTyped, OpenFits, Places
<1>2. HoldersByPlace
  BY DEF HoldersByPlace, HoldingPlaces
<1>3. QueueHolds(waiters, pc)
  BY EmptySeq DEF QueueHolds, Range, AtIn
<1>4. Holders = {} /\ Held = {} /\ At("refused") = {}
  BY DEF Holders, Held, At
<1>5. HeldOnce /\ DoomedDraining
  BY <1>4 DEF HeldOnce, DoomedDraining
<1>6. Accounting
  <2>1. Cardinality({}) = 0
    BY FS_EmptySet
  <2>2. Cardinality(idle) = 0 /\ Cardinality(Holders) = 0 /\ Cardinality(At("refused")) = 0
    BY <1>4, <2>1
  <2>3. open = Cardinality(idle) + Cardinality(Holders) + Cardinality(At("refused"))
    BY <2>2
  <2> QED  BY <1>4, <2>3 DEF Accounting
<1> QED  BY <1>1, <1>2, <1>3, <1>5, <1>6 DEF CoreInv

(* It gives the type invariant.                                            *)
LEMMA CoreTypes == CoreInv => SessionTypeOK
<1> SUFFICES ASSUME CoreInv PROVE SessionTypeOK
  OBVIOUS
<1>1. open \in 0 .. Size
  BY SessionAssumption DEF CoreInv, OpenFits
<1>2. waiters \in Seq(Users) /\ Range(waiters) = At("waiting")
  BY DEF CoreInv, QueueHolds, AtIn, At
<1> QED
  BY <1>1, <1>2 DEF CoreInv, SessionTypeOK, PlainTypes, PlacesTyped, SessionsTyped,
                    HoldersByPlace, HoldingPlaces

(* The sizes that #open adds up are natural numbers.                       *)
LEMMA CoreSizes ==
  ASSUME CoreInv
  PROVE  /\ IsFiniteSet(idle) /\ Cardinality(idle) \in Nat
         /\ IsFiniteSet(doomed) /\ Cardinality(doomed) \in Nat
         /\ IsFiniteSet(Holders) /\ Cardinality(Holders) \in Nat
         /\ \A p \in Places : IsFiniteSet(At(p)) /\ Cardinality(At(p)) \in Nat
BY SessionsFinite, CallersFinite DEF CoreInv, PlainTypes, Holders, At

(* Every step keeps the plain types.                                       *)
LEMMA PlainStep == CoreInv /\ Next => PlainTypes'
<1> SUFFICES ASSUME CoreInv, Next PROVE PlainTypes'
  OBVIOUS
<1> USE SessionAssumption DEF CoreInv, PlainTypes, poolVars, counts, callVars, loginVars,
                              drainVars, tokenVars, CloseSessions
<1>1. ASSUME NEW u \in Users, Resolve(u) PROVE PlainTypes'
  BY <1>1 DEF Resolve
<1>2. ASSUME NEW u \in Users, Acquire(u) PROVE PlainTypes'
  BY <1>2 DEF Acquire, TakeIdle, OpenNew, Queue, ThrowIfAborted
<1>3. ASSUME NEW u \in Users, OpenSucceeds(u) \/ OpenFails(u) PROVE PlainTypes'
  BY <1>3 DEF OpenSucceeds, OpenFails
<1>4. ASSUME NEW u \in Users, Login(u) PROVE PlainTypes'
  BY <1>4 DEF Login, SessionsTyped
<1>5. ASSUME NEW u \in Users, u \in Holders, GiveBack(u) PROVE PlainTypes'
  BY <1>5 DEF GiveBack, SessionsTyped, Holders
<1>6. ASSUME NEW u \in Users, Discard(u) PROVE PlainTypes'
  BY <1>6 DEF Discard
<1>7. ASSUME NEW u \in Users, OperationEnds(u) \/ LoginFailureEnds(u) PROVE PlainTypes'
  <2>1. u \in Holders
    BY <1>7 DEF OperationEnds, LoginFailureEnds, HoldersByPlace, HoldingPlaces, Holders
  <2> QED  BY <2>1, <1>5, <1>6, <1>7 DEF OperationEnds, LoginFailureEnds
<1>8. ASSUME NEW u \in Users, DiscardEnds(u) PROVE PlainTypes'
  BY <1>8 DEF DiscardEnds
<1>9. CASE LoginSettles
  BY <1>9 DEF LoginSettles, LoginSucceeds, LoginFails
<1>10. CASE ReleaseModule \/ TokenRestarts
  <2>1. CASE TokenRestarts
    <3>1. restarts' \in 0 .. MaxRestarts
      BY <2>1 DEF TokenRestarts
    <3> QED  BY <2>1, <3>1 DEF TokenRestarts
  <2>2. CASE ReleaseModule
    BY <2>2 DEF ReleaseModule
  <2> QED  BY <1>10, <2>1, <2>2
<1>11. CASE Drain \/ DrainGoesOn
  BY <1>11 DEF Drain, DrainGoesOn, DrainFrom
<1> QED  BY <1>1, <1>2, <1>3, <1>4, <1>7, <1>8, <1>9, <1>10, <1>11 DEF Next, Step

-----------------------------------------------------------------------------
(* The steps that lend and take back sessions, and what each does to the   *)
(* loans, the places and the count.                                        *)

\* What remains of the invariant after the plain types.
LoansOK ==
  /\ PlacesTyped /\ SessionsTyped /\ OpenFits
  /\ HoldersByPlace
  /\ QueueHolds(waiters, pc)
  /\ HeldOnce /\ DoomedDraining
  /\ Accounting

(* acquire takes an idle session.                                          *)
LEMMA TakeIdleStep ==
  ASSUME CoreInv, NEW u \in Users, pc[u] \in {"resolved", "woken"},
         TakeIdle(u), UNCHANGED drainVars
  PROVE  /\ LoansOK'
         /\ u \notin Holders /\ Cardinality(Holders) < Size
         /\ \E s \in idle : s \notin Held /\ session' = [session EXCEPT ![u] = s]
         /\ Moved(pc, pc', u, "acquired")
         /\ Cardinality(idle') = Cardinality(idle) - 1
<1> USE SessionAssumption DEF CoreInv, PlacesTyped
<1>1. PICK s \in idle : /\ idle' = idle \ {s}
                        /\ session' = [session EXCEPT ![u] = s]
                        /\ pc' = [pc EXCEPT ![u] = "acquired"]
                        /\ open' = open /\ waiters' = waiters
  BY DEF TakeIdle
<1>2. doomed' = doomed /\ drainer' = drainer
  BY DEF drainVars
<1>3. Moved(pc, pc', u, "acquired")
  BY <1>1, MoveOne DEF Places
<1>4. u \notin Holders /\ s \notin Held /\ s \in Sessions
  BY DEF HoldersByPlace, HoldingPlaces, Holders, Accounting, PlainTypes
<1>5. /\ SessionsTyped' /\ HeldOnce'
      /\ Holders' = Holders \cup {u} /\ Held' = Held \cup {s}
      /\ session'[u] = s /\ \A v \in Users \ {u} : session'[v] = session[v]
      /\ Cardinality(Holders') = Cardinality(Holders) + 1
  BY <1>1, <1>4, LendOne
<1>6. /\ Cardinality(idle) \in Nat /\ Cardinality(Holders) \in Nat
      /\ Cardinality(idle') = Cardinality(idle) - 1
  BY <1>1, CoreSizes, FS_RemoveElement
<1>7. At("refused")' = At("refused") /\ Cardinality(At("refused")) \in Nat
  BY <1>3, CoreSizes DEF Moved, At, AtIn, Places
<1>8. Cardinality(idle') \in Nat
  <2>1. idle' \in SUBSET Sessions
    BY <1>1 DEF PlainTypes
  <2> QED  BY <2>1, SessionsFinite
<1>9. Accounting'
  BY <1>1, <1>2, <1>5, <1>6, <1>7 DEF Accounting
<1>10. PlacesTyped' /\ QueueHolds(waiters', pc')
  <2>1. QueueHolds(waiters, pc')
    BY <1>3, MoveKeepsQueue DEF Places
  <2> QED  BY <1>1, <1>3, <2>1 DEF Moved
<1>11. HoldersByPlace'
  BY <1>3, <1>4, <1>5 DEF HoldersByPlace, HoldingPlaces, Moved
<1>12. OpenFits' /\ DoomedDraining'
  BY <1>1, <1>2 DEF OpenFits, DoomedDraining
<1>13. Cardinality(Holders) < Size
  BY <1>6, <1>7, <1>8 DEF Accounting, OpenFits
<1> QED
  BY <1>1, <1>3, <1>4, <1>5, <1>6, <1>9, <1>10, <1>11, <1>12, <1>13 DEF LoansOK

(* acquire asks for a new session, and the token issues one.               *)
LEMMA OpenIssuedStep ==
  ASSUME CoreInv, NEW u \in Users, pc[u] \in {"resolved", "woken"},
         idle = {}, HasRoom, open' = open + 1,
         NEW s \in Sessions \ (alive \cup doomed \cup Held),
         session' = [session EXCEPT ![u] = s], pc' = [pc EXCEPT ![u] = "opening"],
         UNCHANGED <<idle, waiters, drainVars>>
  PROVE  /\ LoansOK'
         /\ u \notin Holders /\ Cardinality(Holders) < Size
         /\ Moved(pc, pc', u, "opening")
<1> USE SessionAssumption DEF CoreInv, PlacesTyped
<1>2. doomed' = doomed /\ drainer' = drainer /\ idle' = idle /\ waiters' = waiters
  BY DEF drainVars
<1>3. Moved(pc, pc', u, "opening")
  BY MoveOne DEF Places
<1>4. u \notin Holders
  BY DEF HoldersByPlace, HoldingPlaces, Holders
<1>5. /\ SessionsTyped' /\ HeldOnce'
      /\ Holders' = Holders \cup {u} /\ Held' = Held \cup {s}
      /\ session'[u] = s /\ \A v \in Users \ {u} : session'[v] = session[v]
      /\ Cardinality(Holders') = Cardinality(Holders) + 1
  BY <1>4, LendOne
<1>6. Cardinality(idle) \in Nat /\ Cardinality(Holders) \in Nat
  BY CoreSizes
<1>7. At("refused")' = At("refused") /\ Cardinality(At("refused")) \in Nat
  BY <1>3, CoreSizes DEF Moved, At, AtIn, Places
<1>9. Accounting'
  <2>0. Cardinality(idle') = Cardinality(idle) /\ Cardinality(At("refused")') = Cardinality(At("refused"))
    BY <1>2, <1>7
  <2>1. open' = Cardinality(idle') + Cardinality(Holders') + Cardinality(At("refused")')
    <3>1. open = Cardinality(idle) + Cardinality(Holders) + Cardinality(At("refused"))
      BY DEF Accounting
    <3>2. open' = open + 1 /\ Cardinality(Holders') = Cardinality(Holders) + 1
      BY <1>5
    <3> HIDE DEF CoreInv
    <3> QED  BY <1>6, <1>7, <2>0, <3>1, <3>2
  <2>2. idle' = {} /\ doomed' \cap Held' = {}
    BY <1>2, <1>5 DEF Accounting
  <2> QED  BY <2>1, <2>2 DEF Accounting
<1>10. PlacesTyped' /\ QueueHolds(waiters', pc')
  <2>1. QueueHolds(waiters, pc')
    BY <1>3, MoveKeepsQueue DEF Places
  <2> QED  BY <1>2, <1>3, <2>1 DEF Moved
<1>11. HoldersByPlace'
  BY <1>3, <1>4, <1>5 DEF HoldersByPlace, HoldingPlaces, Moved
<1>12. OpenFits' /\ DoomedDraining'
  BY <1>2 DEF OpenFits, DoomedDraining, HasRoom
<1>13. Cardinality(Holders) < Size
  BY <1>6, <1>7 DEF Accounting, OpenFits, HasRoom
<1> QED
  BY <1>3, <1>4, <1>5, <1>9, <1>10, <1>11, <1>12, <1>13 DEF LoansOK

(* release of a good session: the session is idle, and nobody has it.      *)
LEMMA GiveBackStep ==
  ASSUME CoreInv, NEW u \in Holders, GiveBack(u)
  PROVE  /\ LoansOK'
         /\ session[u] \in Held /\ Held' = Held \ {session[u]}
         /\ Cardinality(idle') = Cardinality(idle) + 1
         /\ \E P \in [Users -> Places] :
              Moved(pc, P, u, "idle") /\ QueueHolds(waiters, P) /\ Wake(P)
<1> USE SessionAssumption DEF CoreInv, PlacesTyped
<1> DEFINE P == [pc EXCEPT ![u] = "idle"]
<1>1. /\ idle' = idle \cup {session[u]} /\ session' = [session EXCEPT ![u] = NoSession]
      /\ Wake(P) /\ open' = open /\ doomed' = doomed /\ drainer' = drainer
  BY DEF GiveBack, drainVars
<1>2. u \in Users /\ pc[u] \in HoldingPlaces
  BY DEF HoldersByPlace, Holders
<1>3. Moved(pc, P, u, "idle") /\ P \in [Users -> Places]
  BY <1>2, MoveOne DEF Places
<1> HIDE DEF P
<1>4. QueueHolds(waiters, P)
  BY <1>2, <1>3, MoveKeepsQueue DEF Places, HoldingPlaces
<1>5. /\ pc' \in [Users -> Places] /\ QueueHolds(waiters', pc')
      /\ \A v \in Users : pc'[v] = P[v] \/ (P[v] = "waiting" /\ pc'[v] = "woken")
      /\ AtIn(pc', "refused") = AtIn(P, "refused")
  BY <1>1, <1>3, <1>4, WakeMovesOldest DEF Places
<1>6. /\ SessionsTyped' /\ HeldOnce'
      /\ Holders' = Holders \ {u} /\ Held' = Held \ {session[u]}
      /\ session[u] \in Sessions /\ session[u] \in Held
      /\ session'[u] = NoSession /\ \A v \in Users \ {u} : session'[v] = session[v]
      /\ Cardinality(Holders') = Cardinality(Holders) - 1
  BY <1>1, TakeBackOne
<1>7. Cardinality(Holders) \in Nat /\ Cardinality(idle) \in Nat
  BY CoreSizes
<1>8. Cardinality(idle') = Cardinality(idle) + 1
  <2>1. session[u] \notin idle
    BY <1>6 DEF Accounting
  <2> QED  BY <1>1, <2>1, CoreSizes, FS_AddElement
<1>9. At("refused")' = At("refused") /\ Cardinality(At("refused")) \in Nat
  BY <1>2, <1>3, <1>5, CoreSizes DEF Moved, At, AtIn, Places, HoldingPlaces
<1>10. Accounting'
  BY <1>1, <1>6, <1>7, <1>8, <1>9 DEF Accounting
<1>11. HoldersByPlace'
  BY <1>2, <1>3, <1>5, <1>6 DEF HoldersByPlace, HoldingPlaces, Moved
<1>12. OpenFits' /\ DoomedDraining'
  BY <1>1 DEF OpenFits, DoomedDraining
<1> QED
  BY <1>1, <1>3, <1>4, <1>5, <1>6, <1>8, <1>10, <1>11, <1>12 DEF LoansOK

(* release of a dead session: its place in #open is free.                  *)
LEMMA DiscardStep ==
  ASSUME CoreInv, NEW u \in Holders, Discard(u)
  PROVE  /\ LoansOK'
         /\ session[u] \in Held /\ Held' = Held \ {session[u]}
         /\ Moved(pc, pc', u, "closing")
<1> USE SessionAssumption DEF CoreInv, PlacesTyped
<1>1. /\ open' = open - 1 /\ session' = [session EXCEPT ![u] = NoSession]
      /\ pc' = [pc EXCEPT ![u] = "closing"]
      /\ idle' = idle /\ waiters' = waiters /\ doomed' = doomed /\ drainer' = drainer
  BY DEF Discard, drainVars
<1>2. u \in Users /\ pc[u] \in HoldingPlaces
  BY DEF HoldersByPlace, Holders
<1>3. Moved(pc, pc', u, "closing")
  BY <1>1, <1>2, MoveOne DEF Places
<1>4. QueueHolds(waiters', pc') /\ PlacesTyped'
  <2>1. QueueHolds(waiters, pc')
    BY <1>2, <1>3, MoveKeepsQueue DEF Places, HoldingPlaces
  <2> QED  BY <1>1, <1>3, <2>1 DEF Moved
<1>5. /\ SessionsTyped' /\ HeldOnce'
      /\ Holders' = Holders \ {u} /\ Held' = Held \ {session[u]}
      /\ session[u] \in Held
      /\ session'[u] = NoSession /\ \A v \in Users \ {u} : session'[v] = session[v]
      /\ Cardinality(Holders') = Cardinality(Holders) - 1
  BY <1>1, TakeBackOne
<1>6. /\ Cardinality(Holders) \in Nat /\ Cardinality(idle) \in Nat
      /\ Cardinality(Holders) # 0
  BY CoreSizes, FS_EmptySet
<1>7. At("refused")' = At("refused") /\ Cardinality(At("refused")) \in Nat
  BY <1>2, <1>3, CoreSizes DEF Moved, At, AtIn, Places, HoldingPlaces
<1>8. Accounting'
  BY <1>1, <1>5, <1>6, <1>7 DEF Accounting, OpenFits
<1>9. HoldersByPlace'
  BY <1>2, <1>3, <1>5 DEF HoldersByPlace, HoldingPlaces, Moved
<1>10. OpenFits' /\ DoomedDraining'
  BY <1>1, <1>6, <1>7 DEF OpenFits, DoomedDraining, Accounting
<1> QED
  BY <1>3, <1>4, <1>5, <1>8, <1>9, <1>10 DEF LoansOK

(* A call that moves on, and neither gets nor loses a session, a place in  *)
(* the queue or a place in #open.                                          *)
LEMMA MoveStep ==
  ASSUME CoreInv, NEW u \in Users, NEW place \in Places,
         pc' = [pc EXCEPT ![u] = place],
         UNCHANGED <<open, idle, waiters, session, drainVars>>,
         pc[u] \notin {"waiting", "refused"}, place \notin {"waiting", "refused"},
         pc[u] \in HoldingPlaces <=> place \in HoldingPlaces
  PROVE  LoansOK' /\ Moved(pc, pc', u, place)
<1> USE DEF CoreInv, PlacesTyped
<1>1. /\ open' = open /\ idle' = idle /\ waiters' = waiters /\ session' = session
      /\ doomed' = doomed /\ drainer' = drainer
  BY DEF drainVars
<1>2. Moved(pc, pc', u, place)
  BY MoveOne
<1>3. QueueHolds(waiters', pc') /\ PlacesTyped'
  <2>1. QueueHolds(waiters, pc')
    BY <1>2, MoveKeepsQueue
  <2> QED  BY <1>1, <1>2, <2>1 DEF Moved
<1>4. Holders' = Holders /\ Held' = Held /\ HeldOnce' /\ SessionsTyped'
  BY <1>1, LoansKept DEF SessionsTyped
<1>5. At("refused")' = At("refused")
  BY <1>2 DEF Moved, At, AtIn, Places
<1>6. Accounting'
  BY <1>1, <1>4, <1>5 DEF Accounting
<1>7. HoldersByPlace'
  BY <1>1, <1>2 DEF HoldersByPlace, Moved
<1>8. OpenFits' /\ DoomedDraining'
  BY <1>1 DEF OpenFits, DoomedDraining
<1> QED  BY <1>2, <1>3, <1>4, <1>6, <1>7, <1>8 DEF LoansOK

(* acquire asks for a new session, and the token refuses it: the place in  *)
(* #open is taken until the refusal arrives.                               *)
LEMMA OpenRefusedStep ==
  ASSUME CoreInv, NEW u \in Users, pc[u] \in {"resolved", "woken"},
         HasRoom, open' = open + 1, pc' = [pc EXCEPT ![u] = "refused"],
         UNCHANGED <<idle, waiters, session, drainVars>>
  PROVE  LoansOK' /\ Moved(pc, pc', u, "refused")
<1> USE SessionAssumption DEF CoreInv, PlacesTyped
<1>1. /\ idle' = idle /\ waiters' = waiters /\ session' = session
      /\ doomed' = doomed /\ drainer' = drainer
  BY DEF drainVars
<1>2. Moved(pc, pc', u, "refused")
  BY MoveOne DEF Places
<1>3. QueueHolds(waiters', pc') /\ PlacesTyped'
  <2>1. QueueHolds(waiters, pc')
    BY <1>2, MoveKeepsQueue DEF Places
  <2> QED  BY <1>1, <1>2, <2>1 DEF Moved
<1>4. Holders' = Holders /\ Held' = Held /\ HeldOnce' /\ SessionsTyped'
  BY <1>1, LoansKept DEF SessionsTyped
<1>5. Cardinality(At("refused")') = Cardinality(At("refused")) + 1
  BY <1>2 DEF Moved, At, AtIn, Places
<1>6. Accounting'
  <2>1. /\ Cardinality(idle) \in Nat /\ Cardinality(Holders) \in Nat
        /\ Cardinality(At("refused")) \in Nat
    BY CoreSizes DEF Places
  <2>2. open' = Cardinality(idle') + Cardinality(Holders') + Cardinality(At("refused")')
    BY <1>1, <1>4, <1>5, <2>1 DEF Accounting
  <2> QED  BY <1>1, <1>4, <2>2 DEF Accounting
<1>7. HoldersByPlace'
  BY <1>1, <1>2 DEF HoldersByPlace, HoldingPlaces, Moved
<1>8. OpenFits' /\ DoomedDraining'
  BY <1>1 DEF OpenFits, DoomedDraining, HasRoom
<1> QED  BY <1>2, <1>3, <1>4, <1>6, <1>7, <1>8 DEF LoansOK

(* acquire queues.                                                         *)
LEMMA QueueStep ==
  ASSUME CoreInv, NEW u \in Users, pc[u] \in {"resolved", "woken"}, Queue(u), UNCHANGED drainVars
  PROVE  LoansOK' /\ Moved(pc, pc', u, "waiting")
<1> USE DEF CoreInv, PlacesTyped
<1>1. /\ open' = open /\ idle' = idle /\ session' = session
      /\ doomed' = doomed /\ drainer' = drainer
      /\ waiters' = Append(waiters, u) /\ pc' = [pc EXCEPT ![u] = "waiting"]
  BY DEF drainVars, Queue
<1>2. Moved(pc, pc', u, "waiting")
  BY <1>1, MoveOne DEF Places
<1>3. QueueHolds(waiters', pc') /\ PlacesTyped'
  <2>1. QueueHolds(Append(waiters, u), pc')
    BY <1>2, QueueAtTheEnd
  <2> QED  BY <1>1, <1>2, <2>1 DEF Moved
<1>4. Holders' = Holders /\ Held' = Held /\ HeldOnce' /\ SessionsTyped'
  BY <1>1, LoansKept DEF SessionsTyped
<1>5. At("refused")' = At("refused")
  BY <1>2 DEF Moved, At, AtIn, Places
<1>6. Accounting'
  BY <1>1, <1>4, <1>5 DEF Accounting
<1>7. HoldersByPlace'
  BY <1>1, <1>2 DEF HoldersByPlace, HoldingPlaces, Moved
<1>8. OpenFits' /\ DoomedDraining'
  BY <1>1 DEF OpenFits, DoomedDraining
<1> QED  BY <1>2, <1>3, <1>4, <1>6, <1>7, <1>8 DEF LoansOK

(* A refusal, or the close of a dead session, has arrived: the call ends   *)
(* and a waiter is woken.                                                  *)
LEMMA EndAndWakeStep ==
  ASSUME CoreInv, NEW u \in Users, pc[u] \in {"refused", "closing"},
         Wake([pc EXCEPT ![u] = "idle"]),
         open' = (IF pc[u] = "refused" THEN open - 1 ELSE open),
         UNCHANGED <<idle, session, drainVars>>
  PROVE  /\ LoansOK'
         /\ \E P \in [Users -> Places] :
              Moved(pc, P, u, "idle") /\ QueueHolds(waiters, P) /\ Wake(P)
<1> USE DEF CoreInv, PlacesTyped
<1> DEFINE P == [pc EXCEPT ![u] = "idle"]
<1>1. idle' = idle /\ session' = session /\ doomed' = doomed /\ drainer' = drainer
  BY DEF drainVars
<1>2. Moved(pc, P, u, "idle") /\ P \in [Users -> Places] /\ Wake(P)
  BY MoveOne DEF Places
<1> HIDE DEF P
<1>3. QueueHolds(waiters, P)
  BY <1>2, MoveKeepsQueue DEF Places
<1>4. /\ pc' \in [Users -> Places] /\ QueueHolds(waiters', pc')
      /\ \A v \in Users : pc'[v] = P[v] \/ (P[v] = "waiting" /\ pc'[v] = "woken")
      /\ AtIn(pc', "refused") = AtIn(P, "refused")
  BY <1>2, <1>3, WakeMovesOldest DEF Places
<1>5. Holders' = Holders /\ Held' = Held /\ HeldOnce' /\ SessionsTyped'
  BY <1>1, LoansKept DEF SessionsTyped
<1>6. /\ Cardinality(idle) \in Nat /\ Cardinality(Holders) \in Nat
      /\ Cardinality(At("refused")) \in Nat /\ IsFiniteSet(At("refused"))
  BY CoreSizes DEF Places
<1>7. Accounting' /\ OpenFits'
  <2>1. CASE pc[u] = "refused"
    <3>1. Cardinality(At("refused")') = Cardinality(At("refused")) - 1
      BY <1>2, <1>4, <2>1 DEF Moved, At, AtIn, Places
    <3>2. Cardinality(At("refused")) # 0
      BY <1>6, <2>1, FS_EmptySet DEF At
    <3>3. open' = Cardinality(idle') + Cardinality(Holders') + Cardinality(At("refused")')
      BY <1>1, <1>5, <1>6, <2>1, <3>1 DEF Accounting
    <3>4. OpenFits'
      BY <1>6, <2>1, <3>2, SessionAssumption DEF Accounting, OpenFits
    <3> QED  BY <1>1, <1>5, <3>3, <3>4 DEF Accounting
  <2>2. CASE pc[u] = "closing"
    <3>1. At("refused")' = At("refused")
      BY <1>2, <1>4, <2>2 DEF Moved, At, AtIn, Places
    <3> QED  BY <1>1, <1>5, <2>2, <3>1 DEF Accounting, OpenFits
  <2> QED  BY <2>1, <2>2
<1>8. HoldersByPlace'
  BY <1>1, <1>2, <1>4 DEF HoldersByPlace, HoldingPlaces, Moved
<1>9. DoomedDraining'
  BY <1>1 DEF DoomedDraining
<1> QED  BY <1>2, <1>3, <1>4, <1>5, <1>7, <1>8, <1>9 DEF LoansOK

(* The login attempt settles for the calls that share it.                  *)
LEMMA JoinedStep ==
  ASSUME CoreInv, NEW place \in {"operating", "dead", "failed"}, JoinedGoTo(place),
         UNCHANGED <<open, idle, waiters, session, drainVars>>
  PROVE  /\ LoansOK'
         /\ \A p \in Places \ {"joined", place} : At(p)' = At(p)
<1> USE DEF CoreInv, PlacesTyped
<1>1. /\ open' = open /\ idle' = idle /\ waiters' = waiters /\ session' = session
      /\ doomed' = doomed /\ drainer' = drainer
  BY DEF drainVars
<1>2. pc' \in [Users -> Places] /\ \A v \in Users : pc'[v] = IF pc[v] = "joined" THEN place ELSE pc[v]
  BY DEF JoinedGoTo, Places
<1>3. \A p \in Places \ {"joined", place} : At(p)' = At(p) /\ AtIn(pc', p) = AtIn(pc, p)
  BY <1>2 DEF At, AtIn
<1>4. QueueHolds(waiters', pc')
  BY <1>1, <1>3 DEF QueueHolds, Places
<1>5. Holders' = Holders /\ Held' = Held /\ HeldOnce' /\ SessionsTyped'
  BY <1>1, LoansKept DEF SessionsTyped
<1>6. Accounting'
  BY <1>1, <1>3, <1>5 DEF Accounting, Places
<1>7. HoldersByPlace'
  BY <1>1, <1>2 DEF HoldersByPlace, HoldingPlaces
<1>8. OpenFits' /\ DoomedDraining'
  BY <1>1 DEF OpenFits, DoomedDraining
<1> QED  BY <1>2, <1>3, <1>4, <1>5, <1>6, <1>7, <1>8 DEF LoansOK

(* drain closes one of its sessions, or the last one; then it wakes a      *)
(* waiter.  S is what it had left to close.                                *)
LEMMA DrainStep ==
  ASSUME CoreInv, NEW S,
         \/ Drain /\ S = idle
         \/ DrainGoesOn /\ S = doomed
  PROVE  /\ LoansOK'
         /\ S \subseteq idle \cup doomed /\ S \cap Held = {} /\ doomed' \subseteq S
         /\ Held' = Held /\ DrainFrom(S)
         /\ idle' \subseteq idle \ S /\ idle \cup doomed \subseteq idle' \cup S
         /\ Cardinality(idle') - open' = Cardinality(idle) - open
         /\ (pc' = pc /\ waiters' = waiters) \/ Wake(pc)
<1> USE DEF CoreInv, PlacesTyped
<1>1. /\ session' = session
      /\ DrainFrom(S)
      /\ \/ idle' = {} /\ open' = open - Cardinality(idle) /\ S = idle /\ drainer = "forgotten"
         \/ idle' = idle /\ open' = open /\ S = doomed
  BY DEF Drain, DrainGoesOn
<1>2. S \subseteq idle \cup doomed /\ S \cap Held = {} /\ S \subseteq Sessions
  BY <1>1 DEF Accounting, PlainTypes
<1>3. IsFiniteSet(S) /\ Cardinality(S) \in Nat
  BY <1>2, SessionsFinite
<1>4. /\ doomed' \subseteq S
      /\ DoomedDraining'
      /\ (pc' = pc /\ waiters' = waiters) \/ Wake(pc)
  <2>1. CASE /\ Cardinality(S) <= 1
             /\ drainer' = "released" /\ doomed' = {} /\ Wake(pc)
    BY <2>1 DEF DoomedDraining
  <2>2. CASE /\ Cardinality(S) > 1
             /\ drainer' = "draining" /\ UNCHANGED <<pc, waiters>>
             /\ \E s \in S : doomed' = S \ {s}
    <3>1. PICK s \in S : doomed' = S \ {s}
      BY <2>2
    <3>2. IsFiniteSet(doomed') /\ Cardinality(doomed') = Cardinality(S) - 1
      BY <1>3, <3>1, FS_RemoveElement
    <3>3. Cardinality(doomed') # 0
      BY <1>3, <2>2, <3>2
    <3>4. doomed' # {}
      BY <3>3, FS_EmptySet
    <3> QED  BY <2>2, <3>1, <3>4 DEF DoomedDraining
  <2> QED  BY <1>1, <2>1, <2>2 DEF DrainFrom
<1>5. /\ pc' \in [Users -> Places] /\ QueueHolds(waiters', pc')
      /\ \A v \in Users : pc'[v] = pc[v] \/ (pc[v] = "waiting" /\ pc'[v] = "woken")
      /\ AtIn(pc', "refused") = AtIn(pc, "refused")
  <2>1. CASE pc' = pc /\ waiters' = waiters
    BY <2>1
  <2>2. CASE Wake(pc)
    BY <2>2, WakeMovesOldest DEF Places
  <2> QED  BY <1>4, <2>1, <2>2
<1>6. Holders' = Holders /\ Held' = Held /\ HeldOnce' /\ SessionsTyped'
  BY <1>1, LoansKept DEF SessionsTyped
<1>7. At("refused")' = At("refused")
  BY <1>5 DEF At, AtIn
<1>8. /\ Cardinality(idle) \in Nat /\ Cardinality(Holders) \in Nat
      /\ Cardinality(At("refused")) \in Nat
  BY CoreSizes DEF Places
<1>9. /\ open' = Cardinality(idle') + Cardinality(Holders') + Cardinality(At("refused")')
      /\ Cardinality(idle') - open' = Cardinality(idle) - open
      /\ OpenFits'
  <2>1. open = Cardinality(idle) + Cardinality(Holders) + Cardinality(At("refused")) /\ OpenFits
    BY DEF Accounting
  <2>2. Cardinality({}) = 0
    BY FS_EmptySet
  <2>3. CASE idle' = {} /\ open' = open - Cardinality(idle)
    <3>1. Cardinality(idle') = 0 /\ open' = open - Cardinality(idle)
      BY <2>2, <2>3
    <3> HIDE DEF CoreInv
    <3>2. open' = Cardinality(Holders) + Cardinality(At("refused"))
      BY <1>8, <2>1, <3>1
    <3> QED  BY <1>6, <1>7, <1>8, <2>1, <3>1, <3>2, SessionAssumption DEF OpenFits
  <2>4. CASE idle' = idle /\ open' = open
    BY <1>6, <1>7, <2>1, <2>4 DEF OpenFits
  <2> QED  BY <1>1, <2>3, <2>4
<1>12. idle' \subseteq idle \ S /\ idle \cup doomed \subseteq idle' \cup S
  BY <1>1 DEF DoomedDraining, Accounting
<1>10. Accounting'
  <2>1. idle' \cap Held' = {} /\ doomed' \cap (idle' \cup Held') = {}
    BY <1>1, <1>2, <1>4, <1>6 DEF Accounting
  <2> QED  BY <1>9, <2>1 DEF Accounting
<1>11. HoldersByPlace'
  BY <1>1, <1>5 DEF HoldersByPlace, HoldingPlaces
<1> QED
  BY <1>1, <1>2, <1>4, <1>5, <1>6, <1>9, <1>10, <1>11, <1>12 DEF LoansOK

(* Every step keeps the invariant.                                         *)
LEMMA CoreStep == CoreInv /\ [Next]_vars => CoreInv'
<1> SUFFICES ASSUME CoreInv, [Next]_vars PROVE CoreInv'
  OBVIOUS
<1>1. CASE UNCHANGED vars
  <2>1. /\ open' = open /\ idle' = idle /\ waiters' = waiters /\ pc' = pc
        /\ session' = session /\ calls' = calls /\ loggedIn' = loggedIn
        /\ attempt' = attempt /\ drainer' = drainer /\ doomed' = doomed
        /\ alive' = alive /\ authed' = authed /\ restarts' = restarts /\ wasted' = wasted
    BY <1>1 DEF vars, poolVars, callVars, counts, loginVars, drainVars, tokenVars
  <2>2. Holders' = Holders /\ Held' = Held /\ HeldOnce' /\ At("refused")' = At("refused")
    BY <2>1, LoansKept DEF CoreInv, At
  <2>3. QueueHolds(waiters', pc')
    BY <2>1 DEF CoreInv
  <2> QED
    BY <2>1, <2>2, <2>3 DEF CoreInv, PlainTypes, PlacesTyped, SessionsTyped, OpenFits,
         HoldersByPlace, DoomedDraining, Accounting
<1>2. CASE Next
  <2>1. PlainTypes'
    BY <1>2, PlainStep
  <2>2. LoansOK'
    <3> USE DEF poolVars, counts, callVars, loginVars, drainVars, tokenVars, HoldingPlaces, Places
    <3>1. ASSUME NEW u \in Users, Resolve(u) PROVE LoansOK'
      BY <3>1, MoveStep DEF Resolve
    <3>2. ASSUME NEW u \in Users, Acquire(u) PROVE LoansOK'
      <4>1. pc[u] \in {"resolved", "woken"} /\ UNCHANGED drainVars
        BY <3>2 DEF Acquire
      <4>2. CASE TakeIdle(u)
        BY <4>1, <4>2, TakeIdleStep
      <4>3. CASE OpenNew(u)
        BY <4>1, <4>3, OpenIssuedStep, OpenRefusedStep DEF OpenNew
      <4>4. CASE Queue(u)
        BY <4>1, <4>4, QueueStep
      <4>5. CASE ThrowIfAborted(u)
        BY <4>1, <4>5, MoveStep DEF ThrowIfAborted
      <4> QED  BY <3>2, <4>2, <4>3, <4>4, <4>5 DEF Acquire
    <3>3. ASSUME NEW u \in Users, OpenSucceeds(u) PROVE LoansOK'
      BY <3>3, MoveStep DEF OpenSucceeds
    <3>4. ASSUME NEW u \in Users, OpenFails(u) PROVE LoansOK'
      BY <3>4, EndAndWakeStep DEF OpenFails
    <3>5. ASSUME NEW u \in Users, Login(u) PROVE LoansOK'
      BY <3>5, MoveStep DEF Login
    <3>6. ASSUME NEW u \in Users, OperationEnds(u) \/ LoginFailureEnds(u) PROVE LoansOK'
      <4>1. u \in Holders
        BY <3>6 DEF OperationEnds, LoginFailureEnds, CoreInv, HoldersByPlace, Holders
      <4> QED  BY <3>6, <4>1, GiveBackStep, DiscardStep DEF OperationEnds, LoginFailureEnds
    <3>7. ASSUME NEW u \in Users, DiscardEnds(u) PROVE LoansOK'
      BY <3>7, EndAndWakeStep DEF DiscardEnds
    <3>8. CASE LoginSettles
      <4>1. CASE LoginSucceeds
        BY <4>1, JoinedStep DEF LoginSucceeds
      <4>2. ASSUME NEW dead \in BOOLEAN, LoginFails(dead) PROVE LoansOK'
        BY <4>2, JoinedStep DEF LoginFails
      <4> QED  BY <3>8, <4>1, <4>2 DEF LoginSettles
    <3>9. CASE Drain \/ DrainGoesOn
      BY <3>9, DrainStep
    <3>10. CASE ReleaseModule \/ TokenRestarts
      <4>1. /\ open' = open /\ idle' = idle /\ waiters' = waiters /\ pc' = pc
            /\ session' = session /\ doomed' = doomed
        BY <3>10 DEF ReleaseModule, TokenRestarts
      <4>2. DoomedDraining'
        BY <3>10, <4>1 DEF ReleaseModule, TokenRestarts, CoreInv, DoomedDraining
      <4>3. Holders' = Holders /\ Held' = Held /\ HeldOnce' /\ At("refused")' = At("refused")
        BY <4>1, LoansKept DEF CoreInv, At
      <4> QED
        BY <4>1, <4>2, <4>3 DEF LoansOK, CoreInv, PlacesTyped, SessionsTyped, OpenFits,
             HoldersByPlace, Accounting
    <3> QED
      BY <1>2, <3>1, <3>2, <3>3, <3>4, <3>5, <3>6, <3>7, <3>8, <3>9, <3>10 DEF Next, Step
  <2> QED  BY <2>1, <2>2 DEF LoansOK, CoreInv
<1> QED  BY <1>1, <1>2

(* The invariant holds in every state of the pool.                         *)
LEMMA CoreAlways == Spec => []CoreInv
BY CoreInit, CoreStep, PTL DEF Spec

(* For any callers, sessions and size: #open stays within 0 and the bound, *)
(* #waiters holds exactly the waiting calls, and a call has a session      *)
(* exactly between openSession and release.                                *)
THEOREM SessionTypeCorrect == Spec => []SessionTypeOK
BY CoreAlways, CoreTypes, PTL

(* #open is the number of the sessions that are idle, with a call or asked *)
(* for; no session is idle and with a call, or with a call and about to be *)
(* closed by drain.                                                        *)
THEOREM SessionAccounting == Spec => []Accounting
<1>1. CoreInv => Accounting
  BY DEF CoreInv
<1> QED  BY <1>1, CoreAlways, PTL

-----------------------------------------------------------------------------
(* Freed capacity reaches the waiters.                                     *)

\* What CapacityReachesWaiters compares, of given values.
Spare(I, o) == Cardinality(I) + (Size - o)
OnTheWay(P, x) == Cardinality(AtIn(P, "woken")) + Cardinality(AtIn(P, "closing")) + x

(* The terms of the comparison are numbers.                                *)
LEMMA CapacityTerms ==
  ASSUME CoreInv
  PROVE  /\ Cardinality(idle) \in Nat /\ open \in Nat /\ Size \in Nat /\ wasted \in Nat
         /\ Cardinality(AtIn(pc, "woken")) \in Nat
         /\ Cardinality(AtIn(pc, "closing")) \in Nat
         /\ CapacityReachesWaiters <=> (waiters # <<>> => Spare(idle, open) <= OnTheWay(pc, wasted))
<1>1. At("woken") = AtIn(pc, "woken") /\ At("closing") = AtIn(pc, "closing")
  BY DEF At, AtIn
<1>2. Cardinality(At("woken")) \in Nat /\ Cardinality(At("closing")) \in Nat
  BY CoreSizes DEF Places
<1>3. Cardinality(idle) \in Nat /\ open \in Nat /\ Size \in Nat /\ wasted \in Nat
  BY CoreSizes, SessionAssumption DEF CoreInv, OpenFits, PlainTypes
<1>4. CapacityReachesWaiters <=> (waiters # <<>> => Spare(idle, open) <= OnTheWay(pc, wasted))
  BY <1>1 DEF CapacityReachesWaiters, Spare, OnTheWay
<1> QED  BY <1>1, <1>2, <1>3, <1>4

(* A wake-up that leaves waiters behind has one more call on its way to    *)
(* the capacity; one after which nobody waits has nothing to show.         *)
LEMMA WakeCovers ==
  ASSUME CoreInv, NEW P \in [Users -> Places], QueueHolds(waiters, P), Wake(P), waiters' # <<>>
  PROVE  /\ waiters # <<>>
         /\ Cardinality(AtIn(P, "woken")) \in Nat /\ Cardinality(AtIn(P, "closing")) \in Nat
         /\ Cardinality(AtIn(pc', "woken")) = Cardinality(AtIn(P, "woken")) + 1
         /\ Cardinality(AtIn(pc', "closing")) = Cardinality(AtIn(P, "closing"))
<1>1. Cardinality(AtIn(P, "closing")) \in Nat
  BY CallersFinite DEF AtIn
<1>2. AtIn(pc', "closing") = AtIn(P, "closing")
  BY WakeMovesOldest DEF Places
<1> QED  BY <1>1, <1>2, WakeMovesOldest

(* Every step keeps the comparison.                                        *)
LEMMA CapacityStep ==
  CoreInv /\ CapacityReachesWaiters /\ [Next]_vars => CapacityReachesWaiters'
<1> SUFFICES ASSUME CoreInv, CapacityReachesWaiters, [Next]_vars, waiters' # <<>>
             PROVE  Spare(idle', open') <= OnTheWay(pc', wasted')
  <2>2. At("woken")' = AtIn(pc', "woken") /\ At("closing")' = AtIn(pc', "closing")
    BY DEF At, AtIn
  <2> QED  BY <2>2 DEF CapacityReachesWaiters, Spare, OnTheWay
<1> DEFINE i == Cardinality(idle)
           w == Cardinality(AtIn(pc, "woken"))
           c == Cardinality(AtIn(pc, "closing"))
           Goal == Spare(idle', open') <= OnTheWay(pc', wasted')
<1>0. /\ i \in Nat /\ open \in Nat /\ Size \in Nat /\ wasted \in Nat /\ w \in Nat /\ c \in Nat
      /\ waiters # <<>> => i + (Size - open) <= w + c + wasted
  BY CapacityTerms DEF Spare, OnTheWay
<1>a. /\ Spare(idle', open') = Cardinality(idle') + (Size - open')
      /\ OnTheWay(pc', wasted') =
           Cardinality(AtIn(pc', "woken")) + Cardinality(AtIn(pc', "closing")) + wasted'
  BY DEF Spare, OnTheWay
<1> HIDE DEF i, w, c
<1>1. ASSUME NEW u \in Users, NEW place \in Places \ {"woken", "closing"},
             Moved(pc, pc', u, place), pc[u] \notin {"woken", "closing"}
      PROVE  Cardinality(AtIn(pc', "woken")) = w /\ Cardinality(AtIn(pc', "closing")) = c
  BY <1>1 DEF Moved, Places, w, c
<1>2. ASSUME NEW u \in Users, NEW place \in Places \ {"woken", "closing"},
             Moved(pc, pc', u, place), pc[u] = "woken"
      PROVE  Cardinality(AtIn(pc', "woken")) = w - 1 /\ Cardinality(AtIn(pc', "closing")) = c
  BY <1>2 DEF Moved, Places, w, c
<1>3. CASE UNCHANGED vars
  BY <1>0, <1>3, <1>a DEF vars, poolVars, callVars, counts, i, w, c
<1>4. ASSUME NEW u \in Users, Resolve(u) PROVE Goal
  <2>1. Moved(pc, pc', u, "resolved") /\ UNCHANGED <<idle, open, waiters, wasted>>
    BY <1>4, MoveStep DEF Resolve, poolVars, drainVars, HoldingPlaces, Places
  <2> QED  BY <1>0, <1>1, <1>4, <1>a, <2>1 DEF Resolve, Places, i
<1>5. ASSUME NEW u \in Users, Acquire(u) PROVE Goal
  <2>1. pc[u] \in {"resolved", "woken"} /\ UNCHANGED drainVars
    BY <1>5 DEF Acquire
  <2>2. ASSUME NEW place \in Places \ {"woken", "closing"}, Moved(pc, pc', u, place)
        PROVE  /\ Cardinality(AtIn(pc', "closing")) = c
               /\ Cardinality(AtIn(pc', "woken")) \in {w, w - 1}
               /\ pc[u] # "woken" => Cardinality(AtIn(pc', "woken")) = w
    BY <1>1, <1>2, <2>1, <2>2
  <2>3. CASE TakeIdle(u) /\ UNCHANGED wasted
    <3>1. Moved(pc, pc', u, "acquired") /\ Cardinality(idle') = i - 1
      BY <2>1, <2>3, TakeIdleStep DEF i
    <3>2. open' = open /\ waiters' = waiters /\ wasted' = wasted
      BY <2>3 DEF TakeIdle
    <3> QED  BY <1>0, <1>a, <2>2, <3>1, <3>2 DEF Places
  <2>4. CASE OpenNew(u) /\ UNCHANGED wasted
    <3>1. Moved(pc, pc', u, "opening") \/ Moved(pc, pc', u, "refused")
      BY <2>1, <2>4, OpenIssuedStep, OpenRefusedStep DEF OpenNew
    <3>2. open' = open + 1 /\ waiters' = waiters /\ wasted' = wasted /\ Cardinality(idle') = i
      BY <2>4 DEF OpenNew, i
    <3> QED  BY <1>0, <1>a, <2>2, <3>1, <3>2 DEF Places
  <2>5. CASE Queue(u) /\ UNCHANGED wasted
    <3>1. Moved(pc, pc', u, "waiting")
      BY <2>1, <2>5, QueueStep
    <3>2. open' = open /\ wasted' = wasted /\ idle' = idle /\ idle = {} /\ ~HasRoom
      BY <2>5 DEF Queue
    <3>3. Cardinality(idle') = 0
      BY <3>2, FS_EmptySet
    <3>4. Cardinality(AtIn(pc', "woken")) \in Nat /\ Cardinality(AtIn(pc', "closing")) \in Nat
      BY CallersFinite DEF AtIn
    <3>5. open' >= Size
      BY <1>0, <3>2 DEF HasRoom
    <3> QED  BY <1>0, <1>a, <3>2, <3>3, <3>4, <3>5
  <2>6. CASE ThrowIfAborted(u)
    <3>1. Moved(pc, pc', u, "idle")
      BY <2>1, <2>6, MoveStep DEF ThrowIfAborted, poolVars, HoldingPlaces, Places
    <3>2. /\ open' = open /\ waiters' = waiters /\ Cardinality(idle') = i
          /\ wasted' = IF pc[u] = "woken" THEN wasted + 1 ELSE wasted
      BY <2>6 DEF ThrowIfAborted, poolVars, i
    <3> QED  BY <1>0, <1>a, <2>2, <3>1, <3>2 DEF Places
  <2> QED  BY <1>5, <2>3, <2>4, <2>5, <2>6 DEF Acquire
<1>6. ASSUME NEW u \in Users, OpenSucceeds(u) \/ Login(u) PROVE Goal
  <2>1. PICK place \in Places \ {"woken", "closing"} :
          Moved(pc, pc', u, place) /\ pc[u] \notin {"woken", "closing"}
    BY <1>6, MoveStep DEF OpenSucceeds, Login, poolVars, drainVars, HoldingPlaces, Places
  <2>2. UNCHANGED <<idle, open, waiters, wasted>>
    BY <1>6 DEF OpenSucceeds, Login, poolVars, counts
  <2> QED  BY <1>0, <1>1, <1>a, <2>1, <2>2 DEF i
<1>7. ASSUME NEW u \in Users, OpenFails(u) PROVE Goal
  <2>1. PICK P \in [Users -> Places] : Moved(pc, P, u, "idle") /\ QueueHolds(waiters, P) /\ Wake(P)
    BY <1>7, EndAndWakeStep DEF OpenFails
  <2>2. Cardinality(AtIn(P, "woken")) = w /\ Cardinality(AtIn(P, "closing")) = c
    BY <1>7, <2>1 DEF OpenFails, Moved, Places, w, c
  <2>3. open' = open - 1 /\ Cardinality(idle') = i /\ wasted' = wasted
    BY <1>7 DEF OpenFails, counts, i
  <2> QED  BY <1>0, <1>a, <2>1, <2>2, <2>3, WakeCovers
<1>8. ASSUME NEW u \in Users, DiscardEnds(u) PROVE Goal
  <2>1. PICK P \in [Users -> Places] : Moved(pc, P, u, "idle") /\ QueueHolds(waiters, P) /\ Wake(P)
    BY <1>8, EndAndWakeStep DEF DiscardEnds
  <2>2. Cardinality(AtIn(P, "woken")) = w /\ Cardinality(AtIn(P, "closing")) = c - 1
    BY <1>8, <2>1 DEF DiscardEnds, Moved, Places, w, c
  <2>3. open' = open /\ Cardinality(idle') = i /\ wasted' = wasted
    BY <1>8 DEF DiscardEnds, counts, i
  <2> QED  BY <1>0, <1>a, <2>1, <2>2, <2>3, WakeCovers
<1>9. ASSUME NEW u \in Users, OperationEnds(u) \/ LoginFailureEnds(u) PROVE Goal
  <2>1. u \in Holders /\ pc[u] \in HoldingPlaces
    BY <1>9 DEF OperationEnds, LoginFailureEnds, CoreInv, HoldersByPlace, Holders, HoldingPlaces
  <2>2. CASE GiveBack(u)
    <3>1. PICK P \in [Users -> Places] : Moved(pc, P, u, "idle") /\ QueueHolds(waiters, P) /\ Wake(P)
      BY <2>1, <2>2, GiveBackStep
    <3>2. Cardinality(AtIn(P, "woken")) = w /\ Cardinality(AtIn(P, "closing")) = c
      BY <2>1, <3>1 DEF Moved, Places, HoldingPlaces, w, c
    <3>3. open' = open /\ Cardinality(idle') = i + 1 /\ wasted' = wasted
      BY <2>1, <2>2, GiveBackStep DEF GiveBack, counts, i
    <3> QED  BY <1>0, <1>a, <3>1, <3>2, <3>3, WakeCovers
  <2>3. CASE Discard(u)
    <3>1. Moved(pc, pc', u, "closing")
      BY <2>1, <2>3, DiscardStep
    <3>2. Cardinality(AtIn(pc', "woken")) = w /\ Cardinality(AtIn(pc', "closing")) = c + 1
      BY <2>1, <3>1 DEF Moved, Places, HoldingPlaces, w, c
    <3>3. open' = open - 1 /\ Cardinality(idle') = i /\ wasted' = wasted /\ waiters' = waiters
      BY <2>3 DEF Discard, counts, i
    <3> QED  BY <1>0, <1>a, <3>2, <3>3
  <2> QED  BY <1>9, <2>2, <2>3 DEF OperationEnds, LoginFailureEnds
<1>10. CASE LoginSettles
  <2>1. PICK place \in {"operating", "dead", "failed"} : JoinedGoTo(place)
    BY <1>10 DEF LoginSettles, LoginSucceeds, LoginFails
  <2>2. UNCHANGED <<open, idle, waiters, session, drainVars>> /\ wasted' = wasted
    BY <1>10 DEF LoginSettles, LoginSucceeds, LoginFails, poolVars, counts
  <2>3. At("woken")' = At("woken") /\ At("closing")' = At("closing")
    BY <2>1, <2>2, JoinedStep DEF Places
  <2>4. Cardinality(AtIn(pc', "woken")) = w /\ Cardinality(AtIn(pc', "closing")) = c
    BY <2>3 DEF At, AtIn, w, c
  <2> QED  BY <1>0, <1>a, <2>2, <2>4 DEF i
<1>11. CASE Drain \/ DrainGoesOn
  <2>1. /\ (pc' = pc /\ waiters' = waiters) \/ Wake(pc)
        /\ Cardinality(idle') - open' = i - open
    BY <1>11, DrainStep DEF i
  <2>2. wasted' = wasted
    BY <1>11 DEF Drain, DrainGoesOn, counts
  <2>3. CoreInv'
    BY CoreStep
  <2>4. Cardinality(idle') \in Nat /\ open' \in Nat
    BY <2>3, SessionsFinite DEF CoreInv, PlainTypes, OpenFits
  <2>5. CASE pc' = pc /\ waiters' = waiters
    BY <1>0, <1>a, <2>1, <2>2, <2>4, <2>5 DEF w, c
  <2>6. CASE Wake(pc)
    <3>1. /\ waiters # <<>> /\ Cardinality(AtIn(pc', "woken")) = w + 1
          /\ Cardinality(AtIn(pc', "closing")) = c
      BY <2>6, WakeCovers DEF CoreInv, PlacesTyped, w, c
    <3> QED  BY <1>0, <1>a, <2>1, <2>2, <2>4, <3>1
  <2> QED  BY <2>1, <2>5, <2>6
<1>12. CASE ReleaseModule \/ TokenRestarts
  BY <1>0, <1>12, <1>a DEF ReleaseModule, TokenRestarts, poolVars, callVars, counts, i, w, c
<1> QED
  BY <1>3, <1>4, <1>5, <1>6, <1>7, <1>8, <1>9, <1>10, <1>11, <1>12 DEF Next, Step

(* For every size, number of callers and interleaving of releases, aborts, *)
(* discards, refusals and drains: free capacity never exceeds the calls    *)
(* already on their way to it and the wake-ups lost to aborted calls,      *)
(* while anyone waits.                                                     *)
THEOREM CapacityIsHandedOn == Spec => []CapacityReachesWaiters
<1>1. Init => CapacityReachesWaiters
  BY DEF Init, CapacityReachesWaiters
<1> QED  BY <1>1, CoreAlways, CapacityStep, PTL DEF Spec

-----------------------------------------------------------------------------
(* What the steps of one call do to the other calls and to the sessions.   *)

\* The sessions the pool has to give or has given.
Pooled == idle \cup Held

\* Nobody but u moves, except for a waiter that is woken.
OthersKeep(u) ==
  \A v \in Users \ {u} :
    /\ pc'[v] = pc[v] \/ (pc[v] = "waiting" /\ pc'[v] = "woken")
    /\ session'[v] = session[v]

\* The sessions only change hands.
Kept == Pooled' = Pooled /\ alive' = alive /\ authed' = authed

\* The token has issued one.
Issued ==
  \E s \in Sessions \ (alive \cup doomed \cup Pooled) :
    Pooled' = Pooled \cup {s} /\ alive' = alive \cup {s} /\ authed' = authed

\* The call of u closes its own.
Discarded(u) ==
  /\ session[u] \in Held /\ Pooled' = Pooled \ {session[u]}
  /\ alive' = alive \ {session[u]} /\ authed' = (authed /\ alive' # {})
  /\ pc[u] = "dead" \/ session[u] \notin alive
  /\ pc'[u] = "closing"

CallEffect(u) ==
  /\ OthersKeep(u)
  /\ pc[u] # "joined" /\ pc'[u] # "dead"
  /\ pc'[u] = "operating" => loggedIn
  /\ pc[u] = "closing" => loggedIn' = FALSE
  /\ loggedIn' = loggedIn \/ loggedIn' = FALSE
  /\ UNCHANGED <<doomed, drainer, restarts>>
  /\ \/ attempt' = attempt
     \/ pc'[u] = "joined" /\ session'[u] = session[u] /\ attempt' = session[u]
  /\ Kept \/ Issued \/ Discarded(u)

(* #wake moves a waiter only.                                              *)
LEMMA WakeKeepsOthers ==
  ASSUME NEW P \in [Users -> Places], QueueHolds(waiters, P), Wake(P),
         NEW u \in Users, Moved(pc, P, u, "idle")
  PROVE  /\ \A v \in Users \ {u} : pc'[v] = pc[v] \/ (pc[v] = "waiting" /\ pc'[v] = "woken")
         /\ pc'[u] = "idle"
<1>1. \A v \in Users : pc'[v] = P[v] \/ (P[v] = "waiting" /\ pc'[v] = "woken")
  BY WakeMovesOldest
<1> QED  BY <1>1 DEF Moved

(* Each step of a call has one of these effects.                           *)
LEMMA CallEffects ==
  ASSUME CoreInv, NEW u \in Users, Resolve(u) \/ Step(u)
  PROVE  CallEffect(u)
<1> USE DEF poolVars, counts, callVars, loginVars, drainVars, tokenVars
<1>k. ASSUME UNCHANGED <<idle, session, alive, authed>> PROVE Kept
  BY <1>k, LoansKept DEF Kept, Pooled
<1>s. SessionsTyped /\ PlacesTyped
  BY DEF CoreInv
<1>1. CASE Resolve(u)
  <2>1. Moved(pc, pc', u, "resolved")
    BY <1>1, MoveStep DEF Resolve, HoldingPlaces, Places
  <2> QED  BY <1>1, <1>k, <2>1 DEF CallEffect, OthersKeep, Resolve, Moved
<1>2. CASE Acquire(u)
  <2>1. pc[u] \in {"resolved", "woken"} /\ UNCHANGED <<loggedIn, attempt, drainer, doomed>>
    BY <1>2 DEF Acquire
  <2>2. CASE TakeIdle(u)
    <3>1. Moved(pc, pc', u, "acquired")
      BY <2>1, <2>2, TakeIdleStep
    <3>2. PICK s \in idle : /\ s \notin Held /\ session' = [session EXCEPT ![u] = s]
                            /\ idle' = idle \ {s} /\ u \notin Holders
      <4>1. PICK s \in idle : session' = [session EXCEPT ![u] = s] /\ idle' = idle \ {s}
        BY <2>2 DEF TakeIdle
      <4> QED  BY <2>1, <4>1 DEF CoreInv, Accounting, HoldersByPlace, HoldingPlaces, Holders
    <3>3. Held' = Held \cup {s} /\ \A v \in Users \ {u} : session'[v] = session[v]
      BY <3>2, LendOne DEF CoreInv, PlainTypes
    <3>4. Kept
      BY <2>2, <3>2, <3>3 DEF Kept, Pooled, TakeIdle
    <3> QED  BY <2>1, <2>2, <3>1, <3>3, <3>4 DEF CallEffect, OthersKeep, Moved, TakeIdle
  <2>3. CASE OpenNew(u)
    <3>1. CASE \E s \in Sessions \ (alive \cup doomed \cup Held) :
                 /\ session' = [session EXCEPT ![u] = s]
                 /\ alive' = alive \cup {s} /\ pc' = [pc EXCEPT ![u] = "opening"]
      <4>1. PICK s \in Sessions \ (alive \cup doomed \cup Held) :
                 /\ session' = [session EXCEPT ![u] = s]
                 /\ alive' = alive \cup {s} /\ pc' = [pc EXCEPT ![u] = "opening"]
        BY <3>1
      <4>2. Moved(pc, pc', u, "opening") /\ u \notin Holders
        BY <2>1, <2>3, <4>1, OpenIssuedStep DEF OpenNew
      <4>3. Held' = Held \cup {s} /\ \A v \in Users \ {u} : session'[v] = session[v]
        BY <4>1, <4>2, LendOne DEF CoreInv
      <4>4. Issued
        BY <2>3, <4>1, <4>3 DEF Issued, Pooled, OpenNew
      <4> QED  BY <2>1, <2>3, <4>2, <4>3, <4>4 DEF CallEffect, OthersKeep, Moved, OpenNew
    <3>2. CASE pc' = [pc EXCEPT ![u] = "refused"] /\ UNCHANGED <<session, alive>>
      <4>1. Moved(pc, pc', u, "refused")
        BY <2>1, <2>3, <3>2, OpenRefusedStep DEF OpenNew
      <4> QED  BY <1>k, <2>1, <2>3, <3>2, <4>1 DEF CallEffect, OthersKeep, Moved, OpenNew
    <3> QED  BY <2>3, <3>1, <3>2 DEF OpenNew
  <2>4. CASE Queue(u)
    <3>1. Moved(pc, pc', u, "waiting")
      BY <2>1, <2>4, QueueStep
    <3> QED  BY <1>k, <2>1, <2>4, <3>1 DEF CallEffect, OthersKeep, Moved, Queue
  <2>5. CASE ThrowIfAborted(u)
    <3>1. Moved(pc, pc', u, "idle")
      BY <2>1, <2>5, MoveStep DEF ThrowIfAborted, HoldingPlaces, Places
    <3> QED  BY <1>k, <2>1, <2>5, <3>1 DEF CallEffect, OthersKeep, Moved, ThrowIfAborted
  <2> QED  BY <1>2, <2>2, <2>3, <2>4, <2>5 DEF Acquire
<1>3. CASE OpenSucceeds(u)
  <2>1. Moved(pc, pc', u, "acquired")
    BY <1>3, MoveStep DEF OpenSucceeds, HoldingPlaces, Places
  <2> QED  BY <1>3, <1>k, <2>1 DEF CallEffect, OthersKeep, OpenSucceeds, Moved
<1>4. CASE OpenFails(u)
  <2>1. /\ \A v \in Users \ {u} : pc'[v] = pc[v] \/ (pc[v] = "waiting" /\ pc'[v] = "woken")
        /\ pc'[u] = "idle"
    BY <1>4, EndAndWakeStep, WakeKeepsOthers DEF OpenFails
  <2> QED  BY <1>4, <1>k, <2>1 DEF CallEffect, OthersKeep, OpenFails
<1>5. CASE Login(u)
  <2>1. pc[u] = "acquired" /\ UNCHANGED <<open, idle, waiters, session, drainVars>>
    BY <1>5 DEF Login
  <2>2. CASE loggedIn
    <3>1. Moved(pc, pc', u, "operating")
      BY <1>5, <2>1, <2>2, MoveStep DEF Login, HoldingPlaces, Places
    <3> QED  BY <1>5, <1>k, <2>2, <3>1 DEF CallEffect, OthersKeep, Login, Moved
  <2>3. CASE ~loggedIn
    <3>1. Moved(pc, pc', u, "joined")
      BY <1>5, <2>1, <2>3, MoveStep DEF Login, HoldingPlaces, Places
    <3> QED  BY <1>5, <1>k, <2>3, <3>1 DEF CallEffect, OthersKeep, Login, Moved
  <2> QED  BY <2>2, <2>3
<1>6. CASE OperationEnds(u) \/ LoginFailureEnds(u)
  <2>1. u \in Holders /\ pc[u] \in {"operating", "failed", "dead"}
    BY <1>6 DEF OperationEnds, LoginFailureEnds, CoreInv, HoldersByPlace, Holders, HoldingPlaces
  <2>2. CASE GiveBack(u)
    <3>1. /\ \A v \in Users \ {u} : pc'[v] = pc[v] \/ (pc[v] = "waiting" /\ pc'[v] = "woken")
          /\ pc'[u] = "idle"
      BY <2>1, <2>2, GiveBackStep, WakeKeepsOthers
    <3>2. /\ Held' = Held \ {session[u]} /\ session[u] \in Held
          /\ \A v \in Users \ {u} : session'[v] = session[v]
      BY <2>1, <2>2, TakeBackOne DEF GiveBack, CoreInv
    <3>3. Kept
      BY <2>2, <3>2 DEF Kept, Pooled, GiveBack
    <3> QED  BY <2>1, <2>2, <3>1, <3>2, <3>3 DEF CallEffect, OthersKeep, GiveBack
  <2>3. CASE Discard(u) /\ (pc[u] = "dead" \/ session[u] \notin alive)
    <3>1. Moved(pc, pc', u, "closing")
      BY <2>1, <2>3, DiscardStep
    <3>2. /\ Held' = Held \ {session[u]} /\ session[u] \in Held
          /\ \A v \in Users \ {u} : session'[v] = session[v]
      BY <2>1, <2>3, TakeBackOne DEF Discard, CoreInv
    <3>3. Discarded(u)
      <4>1. session[u] \notin idle
        BY <3>2 DEF CoreInv, Accounting
      <4> QED  BY <2>3, <3>1, <3>2, <4>1 DEF Discarded, Pooled, Discard, CloseSessions, Moved
    <3> QED  BY <2>1, <2>3, <3>1, <3>2, <3>3 DEF CallEffect, OthersKeep, Discard, CloseSessions, Moved
  <2> QED  BY <1>6, <2>2, <2>3 DEF OperationEnds, LoginFailureEnds
<1>7. CASE DiscardEnds(u)
  <2>1. /\ \A v \in Users \ {u} : pc'[v] = pc[v] \/ (pc[v] = "waiting" /\ pc'[v] = "woken")
        /\ pc'[u] = "idle"
    BY <1>7, EndAndWakeStep, WakeKeepsOthers DEF DiscardEnds
  <2> QED  BY <1>7, <1>k, <2>1 DEF CallEffect, OthersKeep, DiscardEnds
<1> QED  BY <1>1, <1>2, <1>3, <1>4, <1>5, <1>6, <1>7 DEF Step

DrainEffect(S) ==
  /\ \A v \in Users : pc'[v] = pc[v] \/ (pc[v] = "waiting" /\ pc'[v] = "woken")
  /\ UNCHANGED <<session, attempt, restarts>> /\ Held' = Held
  /\ S \subseteq idle \cup doomed /\ S \cap Held = {} /\ doomed' \subseteq S
  /\ idle' \subseteq idle \ S /\ idle \cup doomed \subseteq idle' \cup S
  /\ alive' = alive \ (S \ doomed') /\ authed' = (authed /\ alive' # {})
  /\ \/ drainer' = "released" /\ loggedIn' = FALSE /\ doomed' = {}
     \/ drainer' = "draining" /\ loggedIn' = loggedIn /\ doomed' # {}

(* drain closes sessions nobody has, and resets the login with the last.   *)
LEMMA DrainEffects ==
  ASSUME CoreInv, Drain \/ DrainGoesOn
  PROVE  \E S : DrainEffect(S)
<1>1. PICK S : (Drain /\ S = idle) \/ (DrainGoesOn /\ S = doomed)
  OBVIOUS
<1>2. /\ LoansOK'
      /\ S \subseteq idle \cup doomed /\ S \cap Held = {} /\ doomed' \subseteq S
      /\ Held' = Held /\ DrainFrom(S)
      /\ idle' \subseteq idle \ S /\ idle \cup doomed \subseteq idle' \cup S
      /\ (pc' = pc /\ waiters' = waiters) \/ Wake(pc)
  BY <1>1, DrainStep
<1>3. UNCHANGED <<session, attempt>>
  BY <1>1 DEF Drain, DrainGoesOn
<1>4. \A v \in Users : pc'[v] = pc[v] \/ (pc[v] = "waiting" /\ pc'[v] = "woken")
  BY <1>2, WakeMovesOldest DEF CoreInv, PlacesTyped
<1>5. /\ alive' = alive \ (S \ doomed') /\ authed' = (authed /\ alive' # {}) /\ restarts' = restarts
      /\ \/ drainer' = "released" /\ loggedIn' = FALSE /\ doomed' = {}
         \/ drainer' = "draining" /\ loggedIn' = loggedIn /\ doomed' # {}
  <2>1. CASE /\ drainer' = "released" /\ doomed' = {}
             /\ CloseSessions(S) /\ loggedIn' = FALSE
    BY <2>1 DEF CloseSessions
  <2>2. CASE /\ drainer' = "draining" /\ loggedIn' = loggedIn
             /\ \E s \in S : doomed' = S \ {s} /\ CloseSessions({s})
    <3>1. PICK s \in S : doomed' = S \ {s} /\ CloseSessions({s})
      BY <2>2
    <3>2. S \ doomed' = {s}
      BY <3>1
    <3>3. doomed' # {}
      BY <1>2, <2>2 DEF LoansOK, DoomedDraining
    <3> QED  BY <2>2, <3>1, <3>2, <3>3 DEF CloseSessions
  <2> QED  BY <1>2, <2>1, <2>2 DEF DrainFrom
<1>6. DrainEffect(S)
  BY <1>2, <1>3, <1>4, <1>5 DEF DrainEffect
<1> QED  BY <1>6

-----------------------------------------------------------------------------
(* The cached login.                                                       *)

\* A login in flight runs on a session of a call that waits for it.
LoginOwned == attempt # NoSession => \E u \in Users : pc[u] = "joined" /\ session[u] = attempt

\* The token knows only sessions of the pool, and is logged in only with one.
AliveOwned == alive \subseteq Pooled \cup doomed /\ (authed => alive # {})

\* Until the token restarts it knows all sessions of the pool; none is taken
\* to be dead, and the cached flag and the operations stand for its login.
Unrestarted ==
  restarts = 0 =>
    /\ Pooled \cup doomed \subseteq alive
    /\ \A u \in Users : pc[u] # "dead"
    /\ loggedIn => authed
    /\ \A u \in Users : pc[u] = "operating" => authed

\* StaleLoginRecovers, with the calls spelled out.
Recovers ==
  loggedIn /\ ~authed =>
    \/ \E s \in Pooled : s \notin alive
    \/ \E u \in Users : pc[u] = "closing"
    \/ drainer = "draining"

LoginInv == CoreInv /\ LoginOwned /\ AliveOwned /\ Unrestarted /\ Recovers

(* It holds at first.                                                      *)
LEMMA LoginInit == Init => LoginInv
<1> SUFFICES ASSUME Init PROVE LoginInv
  OBVIOUS
<1>1. CoreInv
  BY CoreInit
<1>2. Pooled = {}
  BY DEF Init, Pooled, Held, Holders
<1> QED
  BY <1>1, <1>2 DEF Init, LoginInv, LoginOwned, AliveOwned, Unrestarted, Recovers

(* The steps of a call keep it.                                            *)
LEMMA LoginCallStep ==
  ASSUME LoginInv, NEW u \in Users, Resolve(u) \/ Step(u)
  PROVE  LoginOwned' /\ AliveOwned' /\ Unrestarted' /\ Recovers'
<1> USE DEF LoginInv
<1>1. /\ OthersKeep(u)
      /\ pc[u] # "joined" /\ pc'[u] # "dead"
      /\ pc'[u] = "operating" => loggedIn
      /\ pc[u] = "closing" => loggedIn' = FALSE
      /\ loggedIn' = loggedIn \/ loggedIn' = FALSE
      /\ doomed' = doomed /\ drainer' = drainer /\ restarts' = restarts
      /\ \/ attempt' = attempt
         \/ pc'[u] = "joined" /\ session'[u] = session[u] /\ attempt' = session[u]
      /\ Kept \/ Issued \/ Discarded(u)
  BY CallEffects DEF CallEffect
<1>2. LoginOwned'
  <2>1. CASE attempt' = attempt
    BY <1>1, <2>1 DEF LoginOwned, OthersKeep
  <2>2. CASE pc'[u] = "joined" /\ session'[u] = session[u] /\ attempt' = session[u]
    BY <2>2 DEF LoginOwned
  <2> QED  BY <1>1, <2>1, <2>2
<1>3. AliveOwned'
  <2>1. CASE Kept
    BY <1>1, <2>1 DEF Kept, AliveOwned
  <2>2. CASE Issued
    BY <1>1, <2>2 DEF Issued, AliveOwned
  <2>3. CASE Discarded(u)
    BY <1>1, <2>3 DEF Discarded, AliveOwned
  <2> QED  BY <1>1, <2>1, <2>2, <2>3
<1>4. Unrestarted'
  <2> SUFFICES ASSUME restarts = 0
               PROVE  /\ Pooled' \cup doomed' \subseteq alive'
                      /\ \A v \in Users : pc'[v] # "dead"
                      /\ loggedIn' => authed'
                      /\ \A v \in Users : pc'[v] = "operating" => authed'
    BY <1>1 DEF Unrestarted
  <2>1. /\ Pooled \cup doomed \subseteq alive
        /\ \A v \in Users : pc[v] # "dead"
        /\ loggedIn => authed
        /\ \A v \in Users : pc[v] = "operating" => authed
    BY DEF Unrestarted
  <2>2. ~Discarded(u)
    BY <2>1 DEF Discarded, Pooled
  <2>3. authed' = authed /\ Pooled' \cup doomed' \subseteq alive'
    BY <1>1, <2>1, <2>2 DEF Kept, Issued
  <2>4. \A v \in Users : pc'[v] # "dead" /\ (pc'[v] = "operating" => authed')
    BY <1>1, <2>1, <2>3 DEF OthersKeep
  <2> QED  BY <1>1, <2>1, <2>3, <2>4
<1>5. Recovers'
  <2> SUFFICES ASSUME loggedIn', ~authed'
               PROVE  \/ \E s \in Pooled' : s \notin alive'
                      \/ \E v \in Users : pc'[v] = "closing"
                      \/ drainer' = "draining"
    BY DEF Recovers
  <2>1. loggedIn /\ pc[u] # "closing"
    BY <1>1
  <2>2. CASE Discarded(u)
    BY <2>2 DEF Discarded
  <2>3. CASE Kept \/ Issued
    <3>1. ~authed
      BY <2>3 DEF Kept, Issued
    <3>2. CASE \E s \in Pooled : s \notin alive
      BY <2>3, <3>2 DEF Kept, Issued
    <3>3. CASE \E v \in Users : pc[v] = "closing"
      BY <1>1, <2>1, <3>3 DEF OthersKeep
    <3>4. CASE drainer = "draining"
      BY <1>1, <3>4
    <3> QED  BY <2>1, <3>1, <3>2, <3>3, <3>4 DEF Recovers
  <2> QED  BY <1>1, <2>2, <2>3
<1> QED  BY <1>2, <1>3, <1>4, <1>5

(* So does drain.                                                          *)
LEMMA LoginDrainStep ==
  ASSUME LoginInv, Drain \/ DrainGoesOn
  PROVE  LoginOwned' /\ AliveOwned' /\ Unrestarted' /\ Recovers'
<1>0. PICK S : DrainEffect(S)
  BY DrainEffects DEF LoginInv
<1>1. /\ \A v \in Users : pc'[v] = pc[v] \/ (pc[v] = "waiting" /\ pc'[v] = "woken")
      /\ session' = session /\ attempt' = attempt /\ restarts' = restarts /\ Held' = Held
      /\ S \subseteq idle \cup doomed /\ S \cap Held = {} /\ doomed' \subseteq S
      /\ idle' \subseteq idle \ S /\ idle \cup doomed \subseteq idle' \cup S
      /\ alive' = alive \ (S \ doomed') /\ authed' = (authed /\ alive' # {})
      /\ \/ drainer' = "released" /\ loggedIn' = FALSE /\ doomed' = {}
         \/ drainer' = "draining" /\ loggedIn' = loggedIn /\ doomed' # {}
  BY <1>0 DEF DrainEffect
<1>2. LoginOwned'
  BY <1>1 DEF LoginInv, LoginOwned
<1>3. AliveOwned'
  BY <1>1 DEF LoginInv, AliveOwned, Pooled
<1>4. Recovers'
  BY <1>1 DEF Recovers
<1>5. Unrestarted'
  <2> SUFFICES ASSUME restarts = 0
               PROVE  /\ Pooled' \cup doomed' \subseteq alive'
                      /\ \A v \in Users : pc'[v] # "dead"
                      /\ loggedIn' => authed'
                      /\ \A v \in Users : pc'[v] = "operating" => authed'
    BY <1>1 DEF Unrestarted
  <2>1. /\ idle \cup Held \cup doomed \subseteq alive
        /\ \A v \in Users : pc[v] # "dead"
        /\ loggedIn => authed
        /\ \A v \in Users : pc[v] = "operating" => authed
    BY DEF LoginInv, Unrestarted, Pooled
  <2>2. Pooled' \cup doomed' \subseteq alive'
    BY <1>1, <2>1 DEF Pooled
  <2>3. \A v \in Users : pc'[v] # "dead" /\ (pc'[v] = "operating" => pc[v] = "operating")
    BY <1>1, <2>1
  <2>4. loggedIn' => authed'
    BY <1>1, <2>1, <2>2
  <2>5. ASSUME NEW v \in Users, pc'[v] = "operating" PROVE authed'
    <3>1. authed /\ session[v] \in Held
      BY <2>1, <2>3, <2>5 DEF LoginInv, CoreInv, HoldersByPlace, HoldingPlaces, Held, Holders
    <3> QED  BY <1>1, <2>2, <3>1 DEF Pooled
  <2> QED  BY <2>2, <2>3, <2>4, <2>5
<1> QED  BY <1>2, <1>3, <1>4, <1>5

(* Every step keeps it.                                                    *)
LEMMA LoginStep == LoginInv /\ [Next]_vars => LoginInv'
<1> SUFFICES ASSUME LoginInv, [Next]_vars PROVE LoginInv'
  OBVIOUS
<1> DEFINE Goal == LoginOwned' /\ AliveOwned' /\ Unrestarted' /\ Recovers'
<1>1. CoreInv /\ CoreInv'
  BY CoreStep DEF LoginInv
<1>2. CASE UNCHANGED vars
  <2>1. /\ idle' = idle /\ pc' = pc /\ session' = session /\ loggedIn' = loggedIn
        /\ attempt' = attempt /\ drainer' = drainer /\ doomed' = doomed
        /\ alive' = alive /\ authed' = authed /\ restarts' = restarts
    BY <1>2 DEF vars, poolVars, callVars, counts, loginVars, drainVars, tokenVars
  <2>2. Pooled' = Pooled
    BY <2>1, LoansKept DEF Pooled
  <2> QED
    BY <1>1, <2>1, <2>2 DEF LoginInv, LoginOwned, AliveOwned, Unrestarted, Recovers
<1>3. ASSUME NEW u \in Users, Resolve(u) \/ Step(u) PROVE Goal
  BY <1>3, LoginCallStep
<1>4. ASSUME LoginSettles PROVE Goal
  <2>1. /\ idle' = idle /\ session' = session /\ attempt' = NoSession
        /\ drainer' = drainer /\ doomed' = doomed /\ alive' = alive /\ restarts' = restarts
    BY <1>4 DEF LoginSettles, LoginSucceeds, LoginFails, poolVars, drainVars, tokenVars
  <2>2. Pooled' = Pooled
    BY <2>1, LoansKept DEF Pooled
  <2>3. CASE LoginSucceeds
    <3>1. /\ attempt \in alive /\ authed' = TRUE
          /\ \A v \in Users : pc'[v] = IF pc[v] = "joined" THEN "operating" ELSE pc[v]
      BY <2>3 DEF LoginSucceeds, JoinedGoTo
    <3> QED
      BY <2>1, <2>2, <3>1 DEF LoginInv, LoginOwned, AliveOwned, Unrestarted, Recovers
  <2>4. ASSUME NEW dead \in BOOLEAN, LoginFails(dead) PROVE Goal
    <3>1. /\ attempt # NoSession /\ (dead => attempt \notin alive)
          /\ authed' = authed /\ loggedIn' = loggedIn
          /\ \A v \in Users : pc'[v] = IF pc[v] # "joined" THEN pc[v]
                                         ELSE IF dead THEN "dead" ELSE "failed"
      BY <2>4 DEF LoginFails, JoinedGoTo, tokenVars
    <3>2. attempt \in Held
      <4>1. PICK u \in Users : pc[u] = "joined" /\ session[u] = attempt
        BY <3>1 DEF LoginInv, LoginOwned
      <4> QED  BY <3>1, <4>1 DEF Held, Holders
    <3>3. restarts = 0 => ~dead
      BY <3>1, <3>2 DEF LoginInv, Unrestarted, Pooled
    <3>4. Unrestarted'
      BY <2>1, <2>2, <3>1, <3>3 DEF LoginInv, Unrestarted
    <3> QED
      BY <2>1, <2>2, <3>1, <3>4 DEF LoginInv, LoginOwned, AliveOwned, Recovers
  <2> QED  BY <1>4, <2>3, <2>4 DEF LoginSettles
<1>5. ASSUME Drain \/ DrainGoesOn PROVE Goal
  BY <1>5, LoginDrainStep
<1>6. ASSUME ReleaseModule PROVE Goal
  <2>1. /\ idle' = idle /\ pc' = pc /\ session' = session /\ loggedIn' = loggedIn
        /\ attempt' = attempt /\ drainer = "none" /\ doomed' = doomed
        /\ alive' = alive /\ authed' = authed /\ restarts' = restarts
    BY <1>6 DEF ReleaseModule, poolVars, callVars, loginVars, tokenVars
  <2>2. Pooled' = Pooled
    BY <2>1, LoansKept DEF Pooled
  <2> QED
    BY <2>1, <2>2 DEF LoginInv, LoginOwned, AliveOwned, Unrestarted, Recovers
<1>7. ASSUME TokenRestarts PROVE Goal
  <2>1. /\ idle' = idle /\ pc' = pc /\ session' = session /\ loggedIn' = loggedIn
        /\ attempt' = attempt /\ drainer' = drainer /\ doomed' = doomed
        /\ alive' = {} /\ authed' = FALSE /\ restarts' = restarts + 1 /\ restarts \in Nat
    BY <1>1, <1>7 DEF TokenRestarts, poolVars, callVars, loginVars, drainVars, CoreInv, PlainTypes
  <2>2. Pooled' = Pooled
    BY <2>1, LoansKept DEF Pooled
  <2>3. doomed # {} => drainer = "draining"
    BY <1>1 DEF CoreInv, DoomedDraining
  <2>4. Recovers'
    BY <2>1, <2>2, <2>3 DEF LoginInv, AliveOwned, Recovers
  <2>5. restarts' # 0
    BY <2>1
  <2> QED
    BY <2>1, <2>2, <2>4, <2>5 DEF LoginInv, LoginOwned, AliveOwned, Unrestarted
<1>8. CASE Next
  <2>1. Goal
    BY <1>3, <1>4, <1>5, <1>6, <1>7, <1>8 DEF Next
  <2> QED  BY <1>1, <2>1 DEF LoginInv
<1> QED  BY <1>2, <1>8

(* The invariant holds in every state.                                     *)
LEMMA LoginAlways == Spec => []LoginInv
BY LoginInit, LoginStep, PTL DEF Spec

(* As long as the token has not restarted, no operation runs on a token    *)
(* that is not logged in, however logins, discards and drains interleave.  *)
THEOREM OperatesOnlyLoggedIn == Spec => []OperatesLoggedIn
<1>1. LoginInv => OperatesLoggedIn
  BY DEF LoginInv, Unrestarted, OperatesLoggedIn, At
<1> QED  BY <1>1, LoginAlways, PTL

(* A cached login that has gone stale is always about to be found out: a   *)
(* dead session is in the pool, or a reset is on its way.                  *)
THEOREM StaleLoginIsFoundOut == Spec => []StaleLoginRecovers
<1>1. LoginInv => StaleLoginRecovers
  BY DEF LoginInv, Recovers, StaleLoginRecovers, At, Pooled
<1> QED  BY <1>1, LoginAlways, PTL

-----------------------------------------------------------------------------
(* The pool implements Lending.                                            *)

\* The refinement mapping: who has which session.
Loans == [u \in Holders |-> session[u]]

(* A session that a call gets is one that nobody has, within the bound.    *)
LEMMA LendIsLend ==
  ASSUME CoreInv, NEW u \in Users, u \notin Holders, Cardinality(Holders) < Size,
         NEW s \in Sessions, s \notin Held, session' = [session EXCEPT ![u] = s]
  PROVE  Lender!Next
<1>1. /\ Holders' = Holders \cup {u}
      /\ session'[u] = s /\ \A v \in Users \ {u} : session'[v] = session[v]
  BY LendOne DEF CoreInv
<1>2. Loans' = [x \in Holders \cup {u} |-> IF x = u THEN s ELSE Loans[x]]
  BY <1>1 DEF Loans, Holders
<1>3. Lender!Borrowing = Holders
  BY DEF Lender!Borrowing
<1>4. Lender!Free(s)
  <2>1. s \notin {Loans[x] : x \in DOMAIN Loans}
    BY DEF Loans, Held
  <2> QED  BY <2>1 DEF Lender!Free, Lender!Range, Loans
<1>5. Lender!Cardinality(Holders) = Cardinality(Holders)
  BY DEF Lender!Cardinality, Cardinality
<1>6. Lender!Lend(u, s)
  BY <1>2, <1>3, <1>4, <1>5 DEF Lender!Lend, Loans
<1> QED  BY <1>6 DEF Lender!Next

(* A call that lets go of its session returns it.                          *)
LEMMA TakeBackIsReturn ==
  ASSUME CoreInv, NEW u \in Holders, session' = [session EXCEPT ![u] = NoSession]
  PROVE  Lender!Next
<1>1. /\ Holders' = Holders \ {u}
      /\ \A v \in Users \ {u} : session'[v] = session[v]
  BY TakeBackOne DEF CoreInv
<1>2. Loans' = [x \in Holders \ {u} |-> Loans[x]] /\ DOMAIN Loans = Holders
  BY <1>1 DEF Loans, Holders
<1>3. Lender!Return(u)
  BY <1>2 DEF Lender!Return, Lender!Borrowing, Loans
<1>4. u \in Users
  BY DEF Holders
<1> QED  BY <1>3, <1>4 DEF Lender!Next

(* Each step of the pool lends one session, takes one back, or leaves the  *)
(* loans alone.                                                            *)
LEMMA LendingStep == CoreInv /\ [Next]_vars => [Lender!Next]_Loans
<1> SUFFICES ASSUME CoreInv, [Next]_vars PROVE Lender!Next \/ Loans' = Loans
  OBVIOUS
<1> USE DEF poolVars, counts, callVars, loginVars, drainVars, tokenVars
<1>1. ASSUME session' = session PROVE Loans' = Loans
  BY <1>1, LoansKept DEF Loans
<1>2. ASSUME NEW u \in Users, Acquire(u) PROVE Lender!Next \/ Loans' = Loans
  <2>1. pc[u] \in {"resolved", "woken"} /\ UNCHANGED drainVars
    BY <1>2 DEF Acquire
  <2>2. CASE TakeIdle(u)
    <3>1. /\ u \notin Holders /\ Cardinality(Holders) < Size
          /\ \E s \in idle : s \notin Held /\ session' = [session EXCEPT ![u] = s]
      BY <2>1, <2>2, TakeIdleStep
    <3> QED  BY <3>1, LendIsLend DEF CoreInv, PlainTypes
  <2>3. CASE OpenNew(u)
    <3>1. CASE \E s \in Sessions \ (alive \cup doomed \cup Held) :
                 session' = [session EXCEPT ![u] = s] /\ pc' = [pc EXCEPT ![u] = "opening"]
      <4>1. PICK s \in Sessions \ (alive \cup doomed \cup Held) :
                 session' = [session EXCEPT ![u] = s] /\ pc' = [pc EXCEPT ![u] = "opening"]
        BY <3>1
      <4>2. u \notin Holders /\ Cardinality(Holders) < Size
        BY <2>1, <2>3, <4>1, OpenIssuedStep DEF OpenNew
      <4> QED  BY <4>1, <4>2, LendIsLend
    <3> QED  BY <1>1, <2>3, <3>1 DEF OpenNew
  <2> QED  BY <1>1, <1>2, <2>2, <2>3 DEF Acquire, Queue, ThrowIfAborted
<1>3. ASSUME NEW u \in Users, OperationEnds(u) \/ LoginFailureEnds(u) PROVE Lender!Next
  <2>1. u \in Holders
    BY <1>3 DEF OperationEnds, LoginFailureEnds, CoreInv, HoldersByPlace, HoldingPlaces, Holders
  <2>2. session' = [session EXCEPT ![u] = NoSession]
    BY <1>3 DEF OperationEnds, LoginFailureEnds, GiveBack, Discard
  <2> QED  BY <2>1, <2>2, TakeBackIsReturn
<1>4. ASSUME NEW u \in Users,
             \/ Resolve(u) \/ OpenSucceeds(u) \/ OpenFails(u) \/ Login(u) \/ DiscardEnds(u)
      PROVE  session' = session
  BY <1>4 DEF Resolve, OpenSucceeds, OpenFails, Login, DiscardEnds
<1>5. CASE \/ LoginSettles \/ ReleaseModule \/ Drain \/ DrainGoesOn \/ TokenRestarts
           \/ UNCHANGED vars
  <2>1. session' = session
    BY <1>5 DEF LoginSettles, LoginSucceeds, LoginFails, ReleaseModule, Drain, DrainGoesOn,
                TokenRestarts, vars
  <2> QED  BY <1>1, <2>1
<1> QED  BY <1>1, <1>2, <1>3, <1>4, <1>5 DEF Next, Step

(* The pool implements Lending for any number of callers and sessions: no  *)
(* step ever lends a session that is lent, or more than #size of them.     *)
THEOREM PoolLends == Spec => LendsSessions
<1>1. Init => Lender!Init
  <2> SUFFICES ASSUME Init PROVE Lender!Init
    OBVIOUS
  <2>1. Holders = {}
    BY DEF Init, Holders
  <2> QED  BY <2>1 DEF Lender!Init
<1>2. CoreInv /\ [Next]_vars => [Lender!Next]_[u \in Holders |-> session[u]]
  BY LendingStep DEF Loans
<1> QED  BY <1>1, <1>2, CoreAlways, PTL DEF Spec, LendsSessions, Lender!Spec
=============================================================================
