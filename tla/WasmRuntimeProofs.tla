------------------------- MODULE WasmRuntimeProofs -------------------------
(***************************************************************************)
(* Proofs about InstancePool and WasmRuntime, for any number of calls and  *)
(* instances, any pool size and any number of attempts.                    *)
(*                                                                         *)
(* The pool first, by itself: typing, the capacity bound, the exclusivity  *)
(* of leases, the absence of lost wakeups, what a settled close leaves     *)
(* behind, the order of grants and the refinement of Lending.  Then the    *)
(* runtime: its steps refine the pool's, so it inherits the pool's         *)
(* theorems, and its own invariant gives the ownership of leases, the      *)
(* order of the shutdown and the fate of cancelled instances.              *)
(***************************************************************************)
EXTENDS WasmRuntime, FiniteSetTheorems, SequenceTheorems, TLAPS

-----------------------------------------------------------------------------
(* Arithmetic of the pump.                                                 *)

(* The smaller of two naturals is one of them and exceeds neither.         *)
LEMMA MinOfTwo ==
  ASSUME NEW a \in Nat, NEW b \in Nat
  PROVE  /\ Min({a, b}) \in {a, b}
         /\ Min({a, b}) <= a /\ Min({a, b}) <= b
<1>1. \E x \in {a, b} : \A y \in {a, b} : x <= y
  <2>1. CASE a <= b
    BY <2>1
  <2>2. CASE b <= a
    BY <2>2
  <2> QED  BY <2>1, <2>2
<1> QED  BY <1>1 DEF Min

(* The loop of #pump starts no creation beyond the room left, and stops    *)
(* only when each waiter has a creation or the room is used up.            *)
LEMMA SpawnCountFits ==
  ASSUME NEW e \in Nat, NEW c \in Nat, NEW w \in Nat, e + c <= PoolMax
  PROVE  /\ SpawnCount(e, c, w) \in Nat
         /\ e + c + SpawnCount(e, c, w) <= PoolMax
         /\ c + SpawnCount(e, c, w) >= w \/ e + c + SpawnCount(e, c, w) = PoolMax
<1> USE PoolAssumption
<1>1. CASE w <= c \/ e + c >= PoolMax
  BY <1>1 DEF SpawnCount
<1>2. CASE ~(w <= c \/ e + c >= PoolMax)
  <2>1. w - c \in Nat /\ PoolMax - (e + c) \in Nat
    BY <1>2
  <2>2. SpawnCount(e, c, w) = Min({w - c, PoolMax - (e + c)})
    BY <1>2 DEF SpawnCount
  <2> QED  BY <2>1, <2>2, MinOfTwo
<1> QED  BY <1>1, <1>2

(* Adding k elements that are not there yet adds k to the size.            *)
LEMMA AddFresh ==
  ASSUME NEW S, NEW T, IsFiniteSet(S), IsFiniteSet(T), S \cap T = {}
  PROVE  Cardinality(S \cup T) = Cardinality(S) + Cardinality(T)
<1>1. Cardinality(S \cap T) = 0
  BY FS_EmptySet
<1>2. Cardinality(S) \in Nat /\ Cardinality(T) \in Nat
  BY FS_CardinalityType
<1>3. Cardinality(S \cup T) = Cardinality(S) + Cardinality(T) - Cardinality(S \cap T)
  BY FS_Union
<1> QED  BY <1>1, <1>2, <1>3

(* Removing the element i of a sequence keeps its other elements in order. *)
LEMMA RemoveIndexProperties ==
  ASSUME NEW S, NEW s \in Seq(S), NEW i \in 1..Len(s)
  PROVE  /\ RemoveIndex(s, i) \in Seq(S)
         /\ Len(RemoveIndex(s, i)) = Len(s) - 1
         /\ \A k \in 1..(Len(s) - 1) :
              RemoveIndex(s, i)[k] = IF k < i THEN s[k] ELSE s[k + 1]
<1>1. Len(s) \in Nat /\ Len(s) - 1 \in Nat
  BY LenProperties
<1>2. \A k \in 1..(Len(s) - 1) : (IF k < i THEN s[k] ELSE s[k + 1]) \in S
  BY <1>1, ElementOfSeq
<1>3. RemoveIndex(s, i) \in [1..(Len(s) - 1) -> S]
  BY <1>2 DEF RemoveIndex
<1>4. RemoveIndex(s, i) \in Seq(S)
  BY <1>1, <1>3, SeqDef
<1>5. Len(RemoveIndex(s, i)) = Len(s) - 1
  BY <1>1, <1>3, <1>4, LenProperties
<1> QED  BY <1>4, <1>5 DEF RemoveIndex

-----------------------------------------------------------------------------
(* The inductive invariant of the slots, over explicit values so that it   *)
(* also speaks of what a handler has assigned when it calls #pump.         *)
Holds(L, R, c) == L[c] # NoLease /\ c \notin R

SlotTypes(E, B, W, C, L, R) ==
  /\ E \in SUBSET Instances /\ B \in SUBSET E /\ C \in SUBSET Instances
  /\ W \in Seq(Calls)
  /\ L \in [Calls -> Instances \cup {NoLease}]
  /\ R \in SUBSET Calls

SlotRoom(E, C) == Cardinality(E) + Cardinality(C) <= PoolMax

(* A call queues at most once, and holds nothing while it does.            *)
SlotQueue(W, L) ==
  /\ \A j, k \in 1..Len(W) : W[j] = W[k] => j = k
  /\ \A k \in 1..Len(W) : L[W[k]] = NoLease

SlotLeases(B, L, R) ==
  /\ \A c \in R : L[c] # NoLease
  /\ \A c, d \in Calls : Holds(L, R, c) /\ Holds(L, R, d) /\ L[c] = L[d] => c = d
  /\ \A c \in Calls : Holds(L, R, c) => L[c] \in B
  /\ \A i \in B : \E c \in Calls : Holds(L, R, c) /\ L[c] = i

SlotsOK(E, B, W, C, L, R) ==
  /\ SlotTypes(E, B, W, C, L, R)
  /\ SlotRoom(E, C)
  /\ SlotQueue(W, L)
  /\ SlotLeases(B, L, R)

(* Sets of instances are finite, so their sizes are natural numbers.       *)
LEMMA InstancesFinite ==
  ASSUME NEW S \in SUBSET Instances
  PROVE  IsFiniteSet(S) /\ Cardinality(S) \in Nat
BY PoolAssumption, FS_Subset, FS_CardinalityType

(* Granting n idle entries, one to each of the n oldest waiters, keeps the *)
(* queue and the leases right.                                             *)
LEMMA GrantKeepsLeases ==
  ASSUME NEW E, NEW B, NEW W, NEW C, NEW L, NEW R,
         SlotTypes(E, B, W, C, L, R), SlotQueue(W, L), SlotLeases(B, L, R),
         NEW n \in Nat, n <= Len(W), NEW pick \in Injection(1..n, E \ B)
  PROVE  /\ SubSeq(W, n + 1, Len(W)) \in Seq(Calls)
         /\ Len(SubSeq(W, n + 1, Len(W))) = Len(W) - n
         /\ Grant(L, W, n, pick) \in [Calls -> Instances \cup {NoLease}]
         /\ SlotQueue(SubSeq(W, n + 1, Len(W)), Grant(L, W, n, pick))
         /\ SlotLeases(B \cup Range(pick), Grant(L, W, n, pick), R)
<1> DEFINE rest == SubSeq(W, n + 1, Len(W))
           len == Len(W)
           M == Grant(L, W, n, pick)
<1>1. len \in Nat /\ W \in [1..len -> Calls] /\ n <= len
  BY LenProperties DEF SlotTypes
<1>2. /\ pick \in [1..n -> E \ B]
      /\ \A j, k \in 1..n : pick[j] = pick[k] => j = k
      /\ Range(pick) = {pick[k] : k \in 1..n}
  BY DEF Injection, IsInjective, Range
<1>3. /\ \A j, k \in 1..len : W[j] = W[k] => j = k
      /\ \A k \in 1..len : L[W[k]] = NoLease
  BY DEF SlotQueue
<1> HIDE DEF len
<1>4. ASSUME NEW k \in 1..n
      PROVE  k \in 1..len /\ W[k] \in Calls
  BY <1>1
<1>5. /\ rest \in Seq(Calls)
      /\ Len(rest) = len - n
      /\ \A k \in 1..(len - n) : rest[k] = W[n + k] /\ n + k \in 1..len /\ rest[k] \in Calls
  <2>1. \A i \in (n + 1)..len : W[i] \in Calls
    BY <1>1
  <2>2. n + 1 \in Int /\ len \in Int
    BY <1>1
  <2>3. /\ SubSeq(W, n + 1, len) \in Seq(Calls)
        /\ Len(SubSeq(W, n + 1, len)) = IF n + 1 <= len THEN len - (n + 1) + 1 ELSE 0
        /\ \A i \in 1..(len - (n + 1) + 1) : SubSeq(W, n + 1, len)[i] = W[(n + 1) + i - 1]
    BY <2>1, <2>2, SubSeqProperties
  <2>4. rest = SubSeq(W, n + 1, len)
    BY DEF len
  <2> HIDE DEF rest
  <2>5. /\ rest \in Seq(Calls) /\ Len(rest) = len - n
        /\ \A k \in 1..(len - n) : rest[k] = W[(n + 1) + k - 1]
    BY <2>3, <2>4, <1>1
  <2>6. ASSUME NEW k \in 1..(len - n)
        PROVE  rest[k] = W[n + k] /\ n + k \in 1..len /\ rest[k] \in Calls
    <3>1. (n + 1) + k - 1 = n + k /\ n + k \in 1..len
      BY <1>1
    <3> QED  BY <3>1, <2>5, <1>1
  <2> QED  BY <2>5, <2>6
<1> HIDE DEF rest
<1>6. \A c \in Calls : Instances \cup {NoLease} # {} /\ L[c] \in Instances \cup {NoLease}
  BY DEF SlotTypes
<1>7. \A k \in 1..n : M[W[k]] = pick[k]
  <2> SUFFICES ASSUME NEW k \in 1..n PROVE M[W[k]] = pick[k]
    OBVIOUS
  <2>1. \A j \in 1..n : W[j] = W[k] => j = k
    BY <1>3, <1>4
  <2>2. (CHOOSE j \in 1..n : W[j] = W[k]) = k
    BY <2>1
  <2> QED  BY <1>4, <2>2 DEF Grant
<1>8. \A c \in Calls : (\A k \in 1..n : W[k] # c) => M[c] = L[c]
  BY DEF Grant
<1>9. ASSUME NEW k \in 1..n
      PROVE  /\ W[k] \in Calls /\ L[W[k]] = NoLease /\ W[k] \notin R
             /\ M[W[k]] = pick[k] /\ pick[k] \in Instances /\ pick[k] \notin B
             /\ pick[k] # NoLease
  <2>1. W[k] \in Calls /\ L[W[k]] = NoLease
    BY <1>3, <1>4
  <2>2. W[k] \notin R
    BY <2>1 DEF SlotLeases
  <2>3. pick[k] \in E \ B /\ E \in SUBSET Instances
    BY <1>2 DEF SlotTypes
  <2> QED  BY <2>1, <2>2, <2>3, <1>7, PoolAssumption
<1>10. M \in [Calls -> Instances \cup {NoLease}]
  <2>1. ASSUME NEW c \in Calls
        PROVE  M[c] \in Instances \cup {NoLease}
    <3>1. CASE \E k \in 1..n : W[k] = c
      BY <3>1, <1>9
    <3>2. CASE \A k \in 1..n : W[k] # c
      BY <3>2, <1>6, <1>8
    <3> QED  BY <3>1, <3>2
  <2>2. M = [c \in Calls |-> M[c]]
    BY DEF Grant
  <2> QED  BY <2>1, <2>2
<1> HIDE DEF M
<1>11. SlotQueue(rest, M)
  <2>1. ASSUME NEW j \in 1..Len(rest), NEW k \in 1..Len(rest), rest[j] = rest[k]
        PROVE  j = k
    <3>1. n + j = n + k
      BY <2>1, <1>3, <1>5, SMTT(30)
    <3> QED  BY <3>1, <1>1, <1>5
  <2>2. ASSUME NEW k \in 1..Len(rest)
        PROVE  M[rest[k]] = NoLease
    <3>1. k \in Nat /\ k >= 1 /\ n + k \in 1..len /\ rest[k] = W[n + k] /\ rest[k] \in Calls
      BY <1>1, <1>5
    <3>2. ASSUME NEW j \in 1..n
          PROVE  W[j] # rest[k]
      BY <3>1, <1>3, <1>4
    <3> QED  BY <3>1, <3>2, <1>3, <1>8
  <2> QED  BY <2>1, <2>2 DEF SlotQueue
<1>12. SlotLeases(B \cup Range(pick), M, R)
  <2>1. ASSUME NEW c \in Calls, Holds(M, R, c)
        PROVE  \/ \E k \in 1..n : c = W[k] /\ M[c] = pick[k]
               \/ Holds(L, R, c) /\ M[c] = L[c] /\ L[c] \in B
    BY <2>1, <1>7, <1>8 DEF Holds, SlotLeases
  <2>2. ASSUME NEW c \in R
        PROVE  M[c] # NoLease
    BY <1>9, <1>8 DEF SlotLeases, SlotTypes
  <2>3. ASSUME NEW c \in Calls, NEW d \in Calls,
               Holds(M, R, c), Holds(M, R, d), M[c] = M[d]
        PROVE  c = d
    <3>1. CASE Holds(L, R, c) /\ M[c] = L[c] /\ L[c] \in B
      <4>1. Holds(L, R, d) /\ M[d] = L[d]
        BY <3>1, <2>1, <2>3, <1>9
      <4> QED  BY <3>1, <4>1, <2>3 DEF SlotLeases
    <3>2. CASE \E k \in 1..n : c = W[k] /\ M[c] = pick[k]
      <4>1. PICK k \in 1..n : c = W[k] /\ M[c] = pick[k]
        BY <3>2
      <4>2. \E j \in 1..n : d = W[j] /\ M[d] = pick[j]
        BY <4>1, <2>1, <2>3, <1>9
      <4> QED  BY <4>1, <4>2, <2>3, <1>2
    <3> QED  BY <3>1, <3>2, <2>1, <2>3
  <2>4. ASSUME NEW c \in Calls, Holds(M, R, c)
        PROVE  M[c] \in B \cup Range(pick)
    BY <2>1, <2>4, <1>2
  <2>5. ASSUME NEW i \in B \cup Range(pick)
        PROVE  \E c \in Calls : Holds(M, R, c) /\ M[c] = i
    <3>1. CASE i \in B
      <4>1. PICK c \in Calls : Holds(L, R, c) /\ L[c] = i
        BY <3>1 DEF SlotLeases
      <4>2. \A k \in 1..n : W[k] # c
        BY <4>1, <1>9 DEF Holds
      <4> QED  BY <4>1, <4>2, <1>8 DEF Holds
    <3>2. CASE i \in Range(pick)
      <4>1. PICK k \in 1..n : i = pick[k]
        BY <3>2, <1>2
      <4> QED  BY <4>1, <1>9 DEF Holds
    <3> QED  BY <3>1, <3>2
  <2> QED  BY <2>2, <2>3, <2>4, <2>5 DEF SlotLeases
<1> QED  BY <1>5, <1>10, <1>11, <1>12 DEF rest, len, M

(* What #pump makes of the slots: the leases it grants and the creations   *)
(* it starts keep the invariant, and a call is left waiting only when all  *)
(* entries are busy and no further creation is due or possible.            *)
LEMMA PumpKeepsSlots ==
  ASSUME NEW E, NEW B, NEW W, NEW C, NEW L, NEW R,
         SlotsOK(E, B, W, C, L, R), C \subseteq creating,
         Pump(E, B, W, C, L)
  PROVE  /\ SlotsOK(entries', busy', waiters', creating', lease', R)
         /\ waiters' # <<>> =>
              /\ entries' = busy'
              /\ \/ Cardinality(creating') >= Len(waiters')
                 \/ Cardinality(entries') + Cardinality(creating') = PoolMax
<1>1. /\ SlotTypes(E, B, W, C, L, R) /\ SlotRoom(E, C)
      /\ SlotQueue(W, L) /\ SlotLeases(B, L, R)
  BY DEF SlotsOK
<1>2. /\ IsFiniteSet(E \ B) /\ Cardinality(E \ B) \in Nat
      /\ IsFiniteSet(C) /\ Cardinality(C) \in Nat
      /\ Cardinality(E) \in Nat
  BY <1>1, InstancesFinite DEF SlotTypes
<1>3. Len(W) \in Nat
  BY <1>1, LenProperties DEF SlotTypes
<1> DEFINE n == Min({Cardinality(Idle(E, B)), Len(W)})
           s == SpawnCount(Cardinality(E), Cardinality(C), Len(SubSeq(W, n + 1, Len(W))))
<1>4. n \in Nat /\ n <= Len(W) /\ (n = Cardinality(E \ B) \/ n = Len(W))
  BY <1>2, <1>3, MinOfTwo DEF Idle
<1>4a. PICK pick \in Injection(1..n, E \ B), new \in kSubset(s, Instances \ (Live \cup E)) :
        /\ entries' = E /\ busy' = B \cup Range(pick)
        /\ waiters' = SubSeq(W, n + 1, Len(W)) /\ creating' = C \cup new
        /\ lease' = Grant(L, W, n, pick)
  BY DEF Pump, Idle
<1> HIDE DEF n
<1>5. /\ waiters' \in Seq(Calls) /\ Len(waiters') = Len(W) - n
      /\ lease' \in [Calls -> Instances \cup {NoLease}]
      /\ SlotQueue(waiters', lease')
      /\ SlotLeases(busy', lease', R)
  <2>1. /\ SubSeq(W, n + 1, Len(W)) \in Seq(Calls)
        /\ Len(SubSeq(W, n + 1, Len(W))) = Len(W) - n
        /\ Grant(L, W, n, pick) \in [Calls -> Instances \cup {NoLease}]
        /\ SlotQueue(SubSeq(W, n + 1, Len(W)), Grant(L, W, n, pick))
        /\ SlotLeases(B \cup Range(pick), Grant(L, W, n, pick), R)
    BY <1>1, <1>4, GrantKeepsLeases
  <2> QED  BY <2>1, <1>4a
<1>6. Len(waiters') \in Nat
  BY <1>5, LenProperties
<1>7. /\ s \in Nat
      /\ Cardinality(E) + Cardinality(C) + s <= PoolMax
      /\ Cardinality(C) + s >= Len(waiters') \/ Cardinality(E) + Cardinality(C) + s = PoolMax
  <2>1. s = SpawnCount(Cardinality(E), Cardinality(C), Len(waiters'))
    BY <1>4a
  <2> QED  BY <2>1, <1>1, <1>2, <1>6, SpawnCountFits DEF SlotRoom
<1>8. Cardinality(creating') = Cardinality(C) + s
  <2>1. C \cap new = {} /\ new \in SUBSET Instances /\ Cardinality(new) = s
    BY DEF Live, kSubset
  <2> QED  BY <2>1, <1>2, <1>4a, InstancesFinite, AddFresh
<1>9. SlotTypes(entries', busy', waiters', creating', lease', R)
  <2>1. Range(pick) \subseteq E
    BY DEF Injection, Range
  <2>2. new \in SUBSET Instances
    BY DEF kSubset
  <2> QED  BY <2>1, <2>2, <1>1, <1>4a, <1>5 DEF SlotTypes
<1> HIDE DEF s
<1>10. SlotRoom(entries', creating')
  BY <1>2, <1>4a, <1>7, <1>8 DEF SlotRoom
<1>11. ASSUME waiters' # <<>>
       PROVE  /\ entries' = busy'
              /\ \/ Cardinality(creating') >= Len(waiters')
                 \/ Cardinality(entries') + Cardinality(creating') = PoolMax
  <2>1. Len(waiters') # 0
    BY <1>5, <1>11, EmptySeq
  <2>2. n = Cardinality(E \ B)
    BY <2>1, <1>3, <1>4, <1>5
  <2>3. Cardinality(1..n) = n
    <3>1. 1 \in Int /\ n \in Int /\ n >= 0
      BY <1>4
    <3>2. Cardinality(1..n) = IF 1 > n THEN 0 ELSE n - 1 + 1
      BY <3>1, FS_Interval
    <3> QED  BY <3>1, <3>2
  <2>4. pick \in Surjection(1..n, E \ B)
    <3>1. pick \in Injection(1..n, E \ B) /\ Cardinality(1..n) = Cardinality(E \ B)
      BY <2>2, <2>3
    <3> QED  BY <3>1, <1>2, FS_Injection
  <2>5. Range(pick) = E \ B
    BY <2>4 DEF Surjection, Range
  <2>6. entries' = busy'
    BY <2>5, <1>1, <1>4a DEF SlotTypes
  <2>7. Cardinality(entries') = Cardinality(E)
    BY <1>4a
  <2>8. PoolMax \in Nat
    BY PoolAssumption
  <2> QED  BY <2>6, <2>7, <2>8, <1>2, <1>6, <1>7, <1>8
<1> QED  BY <1>5, <1>9, <1>10, <1>11 DEF SlotsOK

-----------------------------------------------------------------------------
(* The inductive invariant of the whole pool.                              *)
SlotInv == SlotsOK(entries, busy, waiters, creating, lease, retiring)

WaitInv ==
  waiters # <<>> =>
    /\ ~closed
    /\ entries = busy
    /\ \/ Cardinality(creating) >= Len(waiters)
       \/ Cardinality(entries) + Cardinality(creating) = PoolMax
       \/ retiring # {}

CloseInv ==
  /\ draining \in SUBSET Instances /\ late \in SUBSET Instances
  /\ closed \in BOOLEAN /\ finalizing \in BOOLEAN /\ closeFailed \in BOOLEAN
  /\ closePromise \in {"none", "pending", "resolved", "rejected"}
  /\ finalizing => closed /\ entries = {} /\ creating = {}
  /\ late # {} => closed
  /\ closePromise \in {"resolved", "rejected"} => finalizing /\ draining = {}

PoolInv == SlotInv /\ WaitInv /\ CloseInv

(* The pool starts empty.                                                  *)
LEMMA PoolInitInv == PoolInit => PoolInv
<1> SUFFICES ASSUME PoolInit PROVE PoolInv
  OBVIOUS
<1> USE PoolAssumption DEF PoolInit
<1>1. SlotTypes(entries, busy, waiters, creating, lease, retiring)
  BY EmptySeq DEF SlotTypes
<1>2. SlotRoom(entries, creating)
  BY FS_EmptySet DEF SlotRoom
<1>3. SlotQueue(waiters, lease)
  BY EmptySeq DEF SlotQueue
<1>4. SlotLeases(busy, lease, retiring)
  BY DEF SlotLeases, Holds
<1>5. WaitInv /\ CloseInv
  BY DEF WaitInv, CloseInv
<1> QED  BY <1>1, <1>2, <1>3, <1>4, <1>5 DEF PoolInv, SlotInv, SlotsOK

(* A handler that ends in #pump on an open pool keeps the invariant, given *)
(* slots that were right when it called #pump.                             *)
LEMMA PumpedInv ==
  ASSUME NEW E, NEW B, NEW W, NEW C, NEW L,
         CloseInv, ~closed, closed' = closed, C \subseteq creating,
         SlotsOK(E, B, W, C, L, retiring'), Pump(E, B, W, C, L),
         UNCHANGED <<finalizing, draining, late, closePromise>>, closeFailed' \in BOOLEAN
  PROVE  PoolInv'
<1>1. /\ SlotsOK(entries', busy', waiters', creating', lease', retiring')
      /\ waiters' # <<>> =>
           /\ entries' = busy'
           /\ \/ Cardinality(creating') >= Len(waiters')
              \/ Cardinality(entries') + Cardinality(creating') = PoolMax
  BY PumpKeepsSlots
<1>2. SlotInv'
  BY <1>1 DEF SlotInv
<1>3. WaitInv'
  BY <1>1 DEF WaitInv
<1>4. CloseInv'
  BY DEF CloseInv
<1> QED  BY <1>2, <1>3, <1>4 DEF PoolInv

(* Likewise for one that ends in #maybeFinishClose on a closed pool.       *)
LEMMA FinishedInv ==
  ASSUME NEW E, NEW B, NEW C, NEW L,
         closed', closed' \in BOOLEAN, closeFailed' \in BOOLEAN,
         SlotsOK(E, B, <<>>, C, L, retiring'),
         draining \in SUBSET Instances, finalizing \in BOOLEAN,
         finalizing => E = {} /\ C = {}, late' \in SUBSET Instances,
         closePromise' \in {"none", "pending", "resolved", "rejected"},
         closePromise' \in {"resolved", "rejected"} => finalizing /\ draining = {},
         MaybeFinishClose(E, B, C),
         waiters' = <<>>, creating' = C, lease' = L
  PROVE  PoolInv'
<1>1. SlotInv'
  <2>1. CASE ~finalizing /\ C = {} /\ B = {}
    <3>1. entries' = {} /\ busy' = {} /\ Cardinality({}) = 0
      BY <2>1, FS_EmptySet DEF MaybeFinishClose
    <3>2. SlotRoom({}, C)
      BY <2>1, <3>1, PoolAssumption DEF SlotRoom
    <3> QED  BY <2>1, <3>1, <3>2 DEF SlotInv, SlotsOK, SlotTypes
  <2>2. CASE ~(~finalizing /\ C = {} /\ B = {})
    BY <2>2 DEF MaybeFinishClose, SlotInv
  <2> QED  BY <2>1, <2>2
<1>2. WaitInv'
  BY DEF WaitInv
<1>3. CloseInv'
  <2>1. E \in SUBSET Instances
    BY DEF SlotsOK, SlotTypes
  <2> QED  BY <2>1 DEF CloseInv, MaybeFinishClose
<1> QED  BY <1>1, <1>2, <1>3 DEF PoolInv

-----------------------------------------------------------------------------
(* Each handler of the pool keeps the invariant.                           *)
LEMMA PoolStepInv == PoolInv /\ [PoolNext]_poolVars => PoolInv'
<1> SUFFICES ASSUME PoolInv, [PoolNext]_poolVars PROVE PoolInv'
  OBVIOUS
<1>0. /\ SlotTypes(entries, busy, waiters, creating, lease, retiring)
      /\ SlotRoom(entries, creating) /\ SlotQueue(waiters, lease)
      /\ SlotLeases(busy, lease, retiring)
      /\ SlotInv /\ WaitInv /\ CloseInv
      /\ closed => waiters = <<>>
  BY DEF PoolInv, SlotInv, SlotsOK, WaitInv
<1>a. /\ Cardinality(entries) \in Nat /\ IsFiniteSet(entries)
      /\ Cardinality(creating) \in Nat /\ IsFiniteSet(creating)
  BY <1>0, InstancesFinite DEF SlotTypes
<1>1. ASSUME NEW c \in Calls, Acquire(c) PROVE PoolInv'
  <2>1. SlotsOK(entries, busy, Append(waiters, c), creating, lease, retiring')
    <3>1. /\ Append(waiters, c) \in Seq(Calls)
          /\ Len(Append(waiters, c)) = Len(waiters) + 1
          /\ \A k \in 1..Len(waiters) : Append(waiters, c)[k] = waiters[k]
          /\ Append(waiters, c)[Len(waiters) + 1] = c
          /\ Len(waiters) \in Nat
      BY <1>0, AppendProperties, LenProperties DEF SlotTypes
    <3>2. \A k \in 1..Len(waiters) : waiters[k] # c
      <4>1. DOMAIN waiters = 1..Len(waiters)
        BY <1>0, LenProperties DEF SlotTypes
      <4> QED  BY <4>1, <1>1 DEF Acquire, Queued, Range
    <3> DEFINE W == Append(waiters, c)
    <3> HIDE DEF W
    <3>3. SlotQueue(W, lease)
      <4>1. ASSUME NEW j \in 1..Len(W), NEW k \in 1..Len(W), W[j] = W[k]
            PROVE  j = k
        BY <3>1, <3>2, <4>1, <1>0 DEF SlotQueue, W
      <4>2. ASSUME NEW k \in 1..Len(W)
            PROVE  lease[W[k]] = NoLease
        BY <3>1, <1>0, <1>1 DEF SlotQueue, W, Acquire
      <4> QED  BY <4>1, <4>2 DEF SlotQueue
    <3> QED  BY <3>1, <3>3, <1>0, <1>1 DEF SlotsOK, SlotTypes, Acquire, W
  <2> QED  BY <2>1, <1>0, <1>1, PumpedInv DEF Acquire, Enqueue, closing, CloseInv
<1>2. ASSUME NEW c \in Calls, AbortWaiter(c) PROVE PoolInv'
  <2>1. PICK i \in DOMAIN waiters :
          Pump(entries, busy, RemoveIndex(waiters, i), creating, lease)
    BY <1>2 DEF AbortWaiter
  <2>2. i \in 1..Len(waiters) /\ Len(waiters) \in Nat /\ waiters \in Seq(Calls)
    BY <2>1, <1>0, LenProperties DEF SlotTypes
  <2>3. /\ RemoveIndex(waiters, i) \in Seq(Calls)
        /\ Len(RemoveIndex(waiters, i)) = Len(waiters) - 1
        /\ \A k \in 1..(Len(waiters) - 1) :
             RemoveIndex(waiters, i)[k] = IF k < i THEN waiters[k] ELSE waiters[k + 1]
    BY <2>2, RemoveIndexProperties
  <2>4. SlotQueue(RemoveIndex(waiters, i), lease)
    <3> DEFINE W == RemoveIndex(waiters, i)
               At(k) == IF k < i THEN k ELSE k + 1
    <3>1. ASSUME NEW k \in 1..Len(W)
          PROVE  At(k) \in 1..Len(waiters) /\ W[k] = waiters[At(k)]
      BY <2>2, <2>3
    <3>2. ASSUME NEW j \in 1..Len(W), NEW k \in 1..Len(W), W[j] = W[k]
          PROVE  j = k
      <4>1. At(j) = At(k)
        BY <3>1, <3>2, <1>0, SMTT(30) DEF SlotQueue
      <4> QED  BY <4>1, <2>2, <2>3
    <3>3. ASSUME NEW k \in 1..Len(W)
          PROVE  lease[W[k]] = NoLease
      BY <3>1, <1>0 DEF SlotQueue
    <3> QED  BY <3>2, <3>3 DEF SlotQueue
  <2>5. SlotsOK(entries, busy, RemoveIndex(waiters, i), creating, lease, retiring')
    BY <2>3, <2>4, <1>0, <1>2 DEF SlotsOK, SlotTypes, AbortWaiter
  <2>6. ~closed
    BY <2>2, <1>0, EmptySeq
  <2> QED  BY <2>1, <2>5, <2>6, <1>0, <1>2, PumpedInv DEF AbortWaiter, closing, CloseInv
<1>3. ASSUME AbortEveryWaiter PROVE PoolInv'
  <2>1. waiters' = <<>> /\ UNCHANGED <<entries, busy, lease, retiring, closed, late, closing>>
    BY <1>3 DEF AbortEveryWaiter
  <2>2. ~closed /\ Len(waiters) - 1 \in Nat
    BY <1>0, <1>3, EmptySeq DEF AbortEveryWaiter, SlotTypes
  <2> DEFINE s == SpawnCount(Cardinality(entries), Cardinality(creating), Len(waiters) - 1)
  <2>3. s \in Nat /\ Cardinality(entries) + Cardinality(creating) + s <= PoolMax
    BY <2>2, <1>0, <1>a, SpawnCountFits DEF SlotRoom
  <2> HIDE DEF s
  <2>4. PICK new \in SUBSET (Instances \ Live) :
          Cardinality(new) = s /\ creating' = creating \cup new
    BY <1>3 DEF AbortEveryWaiter, kSubset, s
  <2>5. Cardinality(creating') = Cardinality(creating) + s
    <3>1. creating \cap new = {} /\ new \in SUBSET Instances
      BY <2>4 DEF Live
    <3> QED  BY <3>1, <2>4, <1>a, InstancesFinite, AddFresh
  <2>6. SlotRoom(entries', creating')
    BY <2>1, <2>3, <2>5, <1>a DEF SlotRoom
  <2>7. SlotTypes(entries', busy', waiters', creating', lease', retiring')
    BY <2>1, <2>4, <1>0, EmptySeq DEF SlotTypes
  <2>8. SlotQueue(waiters', lease') /\ SlotLeases(busy', lease', retiring')
    BY <2>1, <1>0, EmptySeq DEF SlotQueue
  <2>9. CloseInv'
    BY <2>1, <2>2, <1>0 DEF CloseInv, closing
  <2> QED  BY <2>1, <2>6, <2>7, <2>8, <2>9 DEF PoolInv, SlotInv, SlotsOK, WaitInv
<1>4. ASSUME NEW c \in Calls, ReleaseForReuse(c) PROVE PoolInv'
  <2> DEFINE L == [lease EXCEPT ![c] = NoLease]
  <2>1. Leased(c) /\ ~closed /\ UNCHANGED <<retiring, closed, late, closing>>
    BY <1>4 DEF ReleaseForReuse
  <2>2. L \in [Calls -> Instances \cup {NoLease}] /\ L[c] = NoLease
        /\ \A d \in Calls : d # c => L[d] = lease[d]
    BY <1>0 DEF SlotTypes
  <2> HIDE DEF L
  <2>3. SlotQueue(waiters, L)
    BY <2>2, <1>0, ElementOfSeq DEF SlotQueue, SlotTypes
  <2>4. SlotLeases(busy \ {lease[c]}, L, retiring)
    BY <2>1, <2>2, <1>0 DEF SlotLeases, Holds, Leased, SlotTypes
  <2>5. SlotsOK(entries, busy \ {lease[c]}, waiters, creating, L, retiring')
    BY <2>1, <2>2, <2>3, <2>4, <1>0 DEF SlotsOK, SlotTypes
  <2>6. Pump(entries, busy \ {lease[c]}, waiters, creating, L)
    BY <1>4 DEF ReleaseForReuse, L
  <2> QED  BY <2>1, <2>5, <2>6, <1>0, PumpedInv DEF closing, CloseInv
<1>5. ASSUME NEW c \in Calls, ReleaseForDiscard(c) PROVE PoolInv'
  <2>1. /\ Leased(c) /\ entries' = entries \ {lease[c]} /\ busy' = busy \ {lease[c]}
        /\ retiring' = retiring \cup {c}
        /\ UNCHANGED <<waiters, creating, lease, closed, late, closing>>
    BY <1>5 DEF ReleaseForDiscard
  <2>2. lease[c] \in busy /\ lease[c] \in entries
    BY <2>1, <1>0 DEF SlotLeases, Holds, Leased, SlotTypes
  <2>3. SlotTypes(entries', busy', waiters', creating', lease', retiring')
    BY <2>1, <1>0 DEF SlotTypes
  <2>4. SlotRoom(entries', creating')
    <3>1. Cardinality(entries') \in Nat /\ Cardinality(entries') <= Cardinality(entries)
      BY <2>1, <1>0, <1>a, InstancesFinite, FS_Subset DEF SlotTypes
    <3> QED  BY <3>1, <2>1, <1>0, <1>a, PoolAssumption DEF SlotRoom
  <2>5. SlotLeases(busy', lease', retiring')
    BY <2>1, <1>0 DEF SlotLeases, Holds, Leased
  <2>6. SlotInv'
    BY <2>1, <2>3, <2>4, <2>5, <1>0 DEF SlotInv, SlotsOK
  <2>7. WaitInv'
    BY <2>1, <1>0 DEF WaitInv
  <2>8. CloseInv'
    BY <2>1, <2>2, <1>0 DEF CloseInv, closing
  <2> QED  BY <2>6, <2>7, <2>8 DEF PoolInv
<1>6. ASSUME NEW c \in Calls, NEW ok \in BOOLEAN, DiscardSettles(c, ok) PROVE PoolInv'
  <2> DEFINE L == [lease EXCEPT ![c] = NoLease]
  <2>1. /\ c \in retiring /\ retiring' = retiring \ {c}
        /\ closeFailed' \in BOOLEAN /\ UNCHANGED <<closed, late, closePromise>>
        /\ PumpOrFinish(entries, busy, waiters, creating, L)
    BY <1>6 DEF DiscardSettles
  <2>2. L \in [Calls -> Instances \cup {NoLease}] /\ L[c] = NoLease
        /\ \A d \in Calls : d # c => L[d] = lease[d]
    BY <1>0 DEF SlotTypes
  <2> HIDE DEF L
  <2>3. SlotQueue(waiters, L)
    BY <2>2, <1>0, ElementOfSeq DEF SlotQueue, SlotTypes
  <2>4. SlotLeases(busy, L, retiring')
    BY <2>1, <2>2, <1>0 DEF SlotLeases, Holds, SlotTypes
  <2>5. SlotsOK(entries, busy, waiters, creating, L, retiring')
    BY <2>1, <2>2, <2>3, <2>4, <1>0 DEF SlotsOK, SlotTypes
  <2>6. CASE ~closed
    BY <2>1, <2>5, <2>6, <1>0, PumpedInv DEF PumpOrFinish
  <2>7. CASE closed
    BY <2>1, <2>5, <2>7, <1>0, FinishedInv DEF PumpOrFinish, CloseInv
  <2> QED  BY <2>6, <2>7
<1>7. ASSUME NEW i \in Instances, CreateFulfilled(i) PROVE PoolInv'
  <2>1. i \in creating /\ UNCHANGED <<retiring, closed, closing>>
    BY <1>7 DEF CreateFulfilled
  <2>2. /\ Cardinality(creating \ {i}) = Cardinality(creating) - 1
        /\ Cardinality(entries \cup {i}) <= Cardinality(entries) + 1
        /\ Cardinality(entries \cup {i}) \in Nat
    <3>1. Cardinality(creating \ {i}) = Cardinality(creating) - 1
      BY <2>1, <1>a, FS_RemoveElement
    <3>2. Cardinality(entries \cup {i}) = IF i \in entries THEN Cardinality(entries)
                                                            ELSE Cardinality(entries) + 1
      BY <1>a, FS_AddElement
    <3> QED  BY <3>1, <3>2, <1>a
  <2>3. CASE ~closed
    <3>1. SlotRoom(entries \cup {i}, creating \ {i})
      BY <2>2, <1>0, <1>a, PoolAssumption DEF SlotRoom
    <3>2. SlotsOK(entries \cup {i}, busy, waiters, creating \ {i}, lease, retiring')
      BY <3>1, <2>1, <1>0 DEF SlotsOK, SlotTypes
    <3>3. /\ Pump(entries \cup {i}, busy, waiters, creating \ {i}, lease)
          /\ UNCHANGED late
      BY <2>3, <1>7 DEF CreateFulfilled
    <3>4. creating \ {i} \subseteq creating
      OBVIOUS
    <3> QED  BY <3>2, <3>3, <3>4, <2>1, <2>3, <1>0, PumpedInv DEF closing, CloseInv
  <2>4. CASE closed
    <3>1. /\ creating' = creating \ {i} /\ late' = late \cup {i}
          /\ UNCHANGED <<entries, busy, waiters, lease>>
      BY <2>4, <1>7 DEF CreateFulfilled
    <3>2. SlotRoom(entries', creating')
      BY <3>1, <2>2, <1>0, <1>a, PoolAssumption DEF SlotRoom
    <3>3. SlotInv'
      BY <3>1, <3>2, <2>1, <1>0 DEF SlotInv, SlotsOK, SlotTypes
    <3>4. WaitInv' /\ CloseInv'
      BY <3>1, <2>1, <2>4, <1>0 DEF WaitInv, CloseInv, closing
    <3> QED  BY <3>3, <3>4 DEF PoolInv
  <2> QED  BY <2>3, <2>4
<1>8. ASSUME NEW i \in Instances, CreateRejected(i) PROVE PoolInv'
  <2> DEFINE W == IF waiters = <<>> THEN <<>> ELSE Tail(waiters)
  <2>1. /\ i \in creating /\ UNCHANGED <<retiring, closed, late, closeFailed, closePromise>>
        /\ PumpOrFinish(entries, busy, W, creating \ {i}, lease)
    BY <1>8 DEF CreateRejected
  <2>2. SlotRoom(entries, creating \ {i})
    <3>1. Cardinality(creating \ {i}) = Cardinality(creating) - 1
      BY <2>1, <1>a, FS_RemoveElement
    <3> QED  BY <3>1, <1>0, <1>a, PoolAssumption DEF SlotRoom
  <2>3. W \in Seq(Calls) /\ SlotQueue(W, lease)
    <3>1. CASE waiters = <<>>
      BY <3>1, <1>0, EmptySeq DEF SlotQueue
    <3>2. CASE waiters # <<>>
      <4>1. /\ W \in Seq(Calls) /\ Len(W) = Len(waiters) - 1
            /\ \A k \in 1..Len(W) : W[k] = waiters[k + 1]
            /\ Len(waiters) \in Nat
        BY <3>2, <1>0, HeadTailProperties, LenProperties DEF SlotTypes
      <4> HIDE DEF W
      <4> QED  BY <4>1, <1>0, SMTT(30) DEF SlotQueue
    <3> QED  BY <3>1, <3>2
  <2>4. SlotsOK(entries, busy, W, creating \ {i}, lease, retiring')
    BY <2>1, <2>2, <2>3, <1>0 DEF SlotsOK, SlotTypes
  <2>5. closed => W = <<>>
    BY <1>0
  <2>6. creating \ {i} \subseteq creating
    OBVIOUS
  <2> HIDE DEF W
  <2>7. CASE ~closed
    BY <2>1, <2>4, <2>6, <2>7, <1>0, PumpedInv DEF PumpOrFinish, CloseInv
  <2>8. CASE closed
    BY <2>1, <2>4, <2>5, <2>8, <1>0, FinishedInv DEF PumpOrFinish, CloseInv
  <2> QED  BY <2>7, <2>8
<1>9. ASSUME NEW i \in Instances, NEW ok \in BOOLEAN, LateCloseSettles(i, ok) PROVE PoolInv'
  <2>1. /\ late' = late \ {i} /\ closeFailed' \in BOOLEAN
        /\ MaybeFinishClose(entries, busy, creating)
        /\ UNCHANGED <<waiters, creating, lease, retiring, closed, closePromise>>
        /\ i \in late
    BY <1>9, <1>0 DEF LateCloseSettles, CloseInv
  <2>2. closed /\ waiters = <<>>
    BY <2>1, <1>0 DEF CloseInv
  <2>3. SlotsOK(entries, busy, <<>>, creating, lease, retiring')
    BY <2>1, <2>2, <1>0 DEF SlotInv
  <2> QED  BY <2>1, <2>2, <2>3, <1>0, FinishedInv DEF CloseInv
<1>10. ASSUME PoolClose PROVE PoolInv'
  <2>1. /\ ~closed /\ closed' = TRUE /\ closePromise' = "pending" /\ waiters' = <<>>
        /\ MaybeFinishClose(entries, busy, creating)
        /\ UNCHANGED <<creating, lease, retiring, late, closeFailed>>
    BY <1>10 DEF PoolClose
  <2>2. SlotsOK(entries, busy, <<>>, creating, lease, retiring')
    <3>1. <<>> \in Seq(Calls) /\ SlotQueue(<<>>, lease)
      BY EmptySeq DEF SlotQueue
    <3> QED  BY <3>1, <2>1, <1>0 DEF SlotsOK, SlotTypes
  <2> QED  BY <2>1, <2>2, <1>0, FinishedInv DEF CloseInv
<1>11. ASSUME NEW i \in Instances, NEW ok \in BOOLEAN, SweepCloses(i, ok) PROVE PoolInv'
  BY <1>11, <1>0 DEF SweepCloses, PoolInv, SlotInv, WaitInv, CloseInv, slots
<1>12. ASSUME SweepDone PROVE PoolInv'
  BY <1>12, <1>0 DEF SweepDone, PoolInv, SlotInv, WaitInv, CloseInv, slots
<1>13. ASSUME UNCHANGED poolVars PROVE PoolInv'
  BY <1>13, <1>0 DEF poolVars, slots, closing, PoolInv, SlotInv, WaitInv, CloseInv
<1> QED
  BY <1>1, <1>2, <1>3, <1>4, <1>5, <1>6, <1>7, <1>8, <1>9, <1>10, <1>11, <1>12, <1>13
     DEF PoolNext

-----------------------------------------------------------------------------
(* The inductive invariant holds in every state of the pool.               *)
THEOREM PoolInvariant == PoolSpec => []PoolInv
<1> QED  BY PoolInitInv, PoolStepInv, PTL DEF PoolSpec

(* Type correctness of the pool's state (class InstancePool).              *)
THEOREM PoolTypeCorrect == PoolSpec => []PoolTypeOK
<1>1. PoolInv => PoolTypeOK
  BY DEF PoolInv, SlotInv, SlotsOK, SlotTypes, CloseInv, PoolTypeOK
<1> QED  BY <1>1, PoolInvariant, PTL

(* Whatever the calls, aborts, failures and the close do, entries plus     *)
(* creations in flight never exceed #max.                                  *)
THEOREM CapacityHolds == PoolSpec => []Capacity
<1>1. PoolInv => Capacity
  BY DEF PoolInv, SlotInv, SlotsOK, SlotRoom, Capacity
<1> QED  BY <1>1, PoolInvariant, PTL

(* Leases are exclusive, refer to entries of the pool, and an entry is     *)
(* busy exactly while it is leased: release never meets its early return.  *)
THEOREM LeasesExclusive == PoolSpec => []LeaseExclusive
<1>1. PoolInv => LeaseExclusive
  <2> SUFFICES ASSUME PoolInv PROVE LeaseExclusive
    OBVIOUS
  <2>1. SlotLeases(busy, lease, retiring)
    BY DEF PoolInv, SlotInv, SlotsOK
  <2>2. \A c, d \in Calls : Leased(c) /\ Leased(d) /\ lease[c] = lease[d] => c = d
    BY <2>1 DEF SlotLeases, Holds, Leased
  <2>3. busy = {lease[c] : c \in {d \in Calls : Leased(d)}}
    BY <2>1 DEF SlotLeases, Holds, Leased
  <2> QED  BY <2>2, <2>3 DEF LeaseExclusive
<1> QED  BY <1>1, PoolInvariant, PTL

(* #pump never leaves a call waiting that it could serve, and never        *)
(* forgets to create for one it could create for.                          *)
THEOREM WakeupsNotLost == PoolSpec => []NoLostWakeup
<1>1. PoolInv => NoLostWakeup
  BY DEF PoolInv, WaitInv, NoLostWakeup
<1> QED  BY <1>1, PoolInvariant, PTL

(* Once the promise of close() has settled, the pool is empty.             *)
THEOREM ClosedPoolEmpty == PoolSpec => []ClosedPoolIsEmpty
<1>1. PoolInv => ClosedPoolIsEmpty
  <2> SUFFICES ASSUME PoolInv, closePromise \in {"resolved", "rejected"}
               PROVE  /\ entries = {} /\ creating = {} /\ waiters = <<>> /\ draining = {}
                      /\ \A c \in Calls : ~Leased(c)
    BY DEF ClosedPoolIsEmpty
  <2>1. entries = {} /\ creating = {} /\ draining = {} /\ closed
    BY DEF PoolInv, CloseInv
  <2>2. waiters = <<>>
    BY <2>1 DEF PoolInv, WaitInv
  <2>3. \A c \in Calls : ~Leased(c)
    BY <2>1 DEF PoolInv, SlotInv, SlotsOK, SlotTypes, SlotLeases, Holds, Leased
  <2> QED  BY <2>1, <2>2, <2>3
<1> QED  BY <1>1, PoolInvariant, PTL


-----------------------------------------------------------------------------
(* What #pump grants, and to whom.                                         *)

(* #pump grants nothing when no entry is idle or nobody waits.             *)
LEMMA PumpGrantsNone ==
  ASSUME NEW E, NEW B, NEW W, NEW C, NEW L, NEW R,
         SlotTypes(E, B, W, C, L, R), E \ B = {} \/ W = <<>>,
         Pump(E, B, W, C, L)
  PROVE  lease' = L /\ waiters' = W
<1> DEFINE n == Min({Cardinality(Idle(E, B)), Len(W)})
<1>1. n = 0
  <2>1. Cardinality(E \ B) \in Nat /\ Len(W) \in Nat
    BY InstancesFinite, LenProperties DEF SlotTypes
  <2>2. Cardinality(E \ B) = 0 \/ Len(W) = 0
    BY FS_EmptySet, EmptySeq
  <2>3. n \in Nat /\ n <= Cardinality(E \ B) /\ n <= Len(W)
    BY <2>1, MinOfTwo DEF Idle
  <2> QED  BY <2>1, <2>2, <2>3
<1>2. PICK pick \in Injection(1..n, Idle(E, B)) :
        /\ waiters' = SubSeq(W, n + 1, Len(W))
        /\ lease' = Grant(L, W, n, pick)
  BY DEF Pump
<1> HIDE DEF n
<1>3. 1..n = {}
  BY <1>1
<1>4. Grant(L, W, n, pick) = [c \in Calls |-> L[c]]
  BY <1>3 DEF Grant
<1>5. L = [c \in Calls |-> L[c]]
  BY DEF SlotTypes
<1>6. SubSeq(W, 1, Len(W)) = W
  <2>1. W \in Seq(Calls)
    BY DEF SlotTypes
  <2> QED  BY <2>1, SubSeqFull
<1>7. n + 1 = 1
  BY <1>1
<1> QED  BY <1>2, <1>4, <1>5, <1>6, <1>7

(* #pump grants one lease, to the oldest waiter, when there is one idle    *)
(* entry or one waiter.                                                    *)
LEMMA PumpGrantsOne ==
  ASSUME NEW E, NEW B, NEW W, NEW C, NEW L, NEW R,
         SlotTypes(E, B, W, C, L, R), E \ B # {}, W # <<>>,
         Cardinality(E \ B) <= 1 \/ Len(W) = 1,
         Pump(E, B, W, C, L)
  PROVE  /\ \E r \in E \ B : lease' = [L EXCEPT ![W[1]] = r]
         /\ waiters' = Tail(W)
         /\ W[1] \in Calls
<1> DEFINE n == Min({Cardinality(Idle(E, B)), Len(W)})
<1>0. /\ W \in Seq(Calls) /\ L = [c \in Calls |-> L[c]]
      /\ Len(W) \in Nat \ {0} /\ W[1] \in Calls
  BY EmptySeq, LenProperties, ElementOfSeq DEF SlotTypes
<1>1. n = 1
  <2>1. Cardinality(E \ B) \in Nat /\ Cardinality(E \ B) # 0
    <3>1. IsFiniteSet(E \ B)
      BY InstancesFinite DEF SlotTypes
    <3> QED  BY <3>1, FS_CardinalityType, FS_EmptySet
  <2>2. n <= Cardinality(E \ B) /\ n <= Len(W) /\ (n = Cardinality(E \ B) \/ n = Len(W))
    BY <2>1, <1>0, MinOfTwo DEF Idle
  <2> DEFINE a == Cardinality(E \ B)
             b == Len(W)
  <2>3. /\ a \in Nat /\ a # 0 /\ b \in Nat /\ b # 0 /\ (a <= 1 \/ b = 1)
        /\ n <= a /\ n <= b /\ (n = a \/ n = b)
    BY <2>1, <2>2, <1>0
  <2> HIDE DEF n, a, b
  <2> QED  BY <2>3
<1>2. PICK pick \in Injection(1..n, Idle(E, B)) :
        /\ waiters' = SubSeq(W, n + 1, Len(W))
        /\ lease' = Grant(L, W, n, pick)
  BY DEF Pump
<1> HIDE DEF n
<1>3. 1..n = {1}
  BY <1>1
<1>4. pick[1] \in E \ B
  BY <1>3 DEF Injection, Idle
<1>5. Grant(L, W, n, pick) = [L EXCEPT ![W[1]] = pick[1]]
  <2>1. Grant(L, W, n, pick) = [c \in Calls |-> IF W[1] = c THEN pick[1] ELSE L[c]]
    BY <1>3 DEF Grant
  <2> QED  BY <2>1, <1>0
<1>6. SubSeq(W, n + 1, Len(W)) = Tail(W)
  <2>1. Tail(W) = SubSeq(W, 2, Len(W))
    BY <1>0, TailIsSubSeq
  <2> QED  BY <2>1, <1>1
<1> QED  BY <1>0, <1>2, <1>4, <1>5, <1>6


-----------------------------------------------------------------------------
(* The pool implements Lending and serves in order.                        *)

\* The calls with a lease, and the refinement mapping: what each has.
Lent == {c \in Calls : Leased(c)}
Loans == [c \in Lent |-> lease[c]]

\* Nobody is left queued ahead of c.
InTurn(c) == waiters' = <<>> \/ (waiters # <<>> /\ c = waiters[1] /\ waiters' = Tail(waiters))

(* No more leases are held than the pool has room for instances.           *)
LEMMA LentWithinLimit ==
  ASSUME NEW E, NEW B, NEW W, NEW C, NEW L, NEW R, SlotsOK(E, B, W, C, L, R)
  PROVE  Cardinality({c \in Calls : Holds(L, R, c)}) <= PoolMax
<1> DEFINE S == {c \in Calls : Holds(L, R, c)}
           f == [c \in S |-> L[c]]
<1>1. /\ IsFiniteSet(S) /\ IsFiniteSet(B) /\ IsFiniteSet(E)
      /\ Cardinality(S) \in Nat /\ Cardinality(B) \in Nat /\ Cardinality(E) \in Nat
      /\ Cardinality(C) \in Nat /\ Cardinality(B) <= Cardinality(E)
  BY PoolAssumption, InstancesFinite, FS_Subset, FS_CardinalityType DEF SlotsOK, SlotTypes
<1>2. f \in Injection(S, B)
  BY DEF SlotsOK, SlotLeases, Injection, IsInjective
<1>3. Cardinality(S) <= Cardinality(B)
  BY <1>1, <1>2, FS_Injection
<1> HIDE DEF S
<1> QED  BY <1>1, <1>3, PoolAssumption DEF SlotsOK, SlotRoom, S

\* What one handler may do to the leases: nothing; end a discard; take one
\* back, to be discarded or for reuse; grant one; pass one on.
LeaseOutcome ==
  \/ lease' = lease /\ retiring' = retiring
  \/ \E c \in retiring : /\ lease' = [lease EXCEPT ![c] = NoLease]
                         /\ retiring' = retiring \ {c}
  \/ \E c \in Calls : /\ Leased(c) /\ lease' = lease
                      /\ retiring' = retiring \cup {c}
  \/ \E c \in Calls : /\ Leased(c) /\ lease' = [lease EXCEPT ![c] = NoLease]
                      /\ retiring' = retiring
  \/ \E c \in Calls, r \in Instances :
       /\ lease[c] = NoLease /\ r \notin busy /\ InTurn(c)
       /\ lease' = [lease EXCEPT ![c] = r] /\ retiring' = retiring
  \/ \E b, c \in Calls :
       /\ Leased(b) /\ lease[c] = NoLease /\ InTurn(c)
       /\ lease' = [lease EXCEPT ![b] = NoLease, ![c] = lease[b]]
       /\ retiring' = retiring

\* What one handler may do to the queue: nothing; empty it; take its head,
\* or some other call, out of it; or put a newcomer at its end.
QueueOutcome ==
  \/ waiters' = waiters
  \/ waiters' = <<>>
  \/ waiters # <<>> /\ waiters' = Tail(waiters)
  \/ \E i \in DOMAIN waiters : waiters' = RemoveIndex(waiters, i)
  \/ \E c \in Calls \ Queued : waiters' = Append(waiters, c)

(* A handler grants at most one lease, in turn, and takes at most one.     *)
LEMMA StepOutcome ==
  ASSUME PoolInv, [PoolNext]_poolVars
  PROVE  LeaseOutcome /\ QueueOutcome
<1> USE DEF LeaseOutcome, QueueOutcome
<1>0. /\ SlotTypes(entries, busy, waiters, creating, lease, retiring)
      /\ SlotQueue(waiters, lease) /\ SlotLeases(busy, lease, retiring)
      /\ waiters # <<>> => ~closed /\ entries = busy
      /\ busy \subseteq entries /\ entries \subseteq Instances
  BY DEF PoolInv, SlotInv, SlotsOK, WaitInv, SlotTypes
<1>1. ASSUME NEW c \in Calls, Acquire(c) PROVE LeaseOutcome /\ QueueOutcome
  <2> DEFINE W == Append(waiters, c)
  <2>1. /\ Pump(entries, busy, W, creating, lease) /\ retiring' = retiring
        /\ lease[c] = NoLease /\ c \notin Queued
    BY <1>1 DEF Acquire, Enqueue
  <2>2. W \in Seq(Calls) /\ W # <<>>
    BY <1>0, AppendProperties DEF SlotTypes
  <2>3. SlotTypes(entries, busy, W, creating, lease, retiring)
    BY <2>2, <1>0 DEF SlotTypes
  <2> HIDE DEF W
  <2>4. CASE entries \ busy = {}
    <3>1. lease' = lease /\ waiters' = W
      BY <2>1, <2>3, <2>4, PumpGrantsNone
    <3> QED  BY <2>1, <3>1 DEF W
  <2>5. CASE entries \ busy # {}
    <3>1. waiters = <<>>
      BY <2>5, <1>0
    <3>2. W = <<c>> /\ Len(W) = 1 /\ W[1] = c
      BY <3>1 DEF W
    <3>3. /\ \E r \in entries \ busy : lease' = [lease EXCEPT ![W[1]] = r]
          /\ waiters' = Tail(W)
          /\ W[1] \in Calls
      <4>1. Cardinality(entries \ busy) <= 1 \/ Len(W) = 1
        BY <3>2
      <4>2. W # <<>>
        BY <2>2
      <4> QED  BY <2>1, <2>3, <2>5, <4>1, <4>2, PumpGrantsOne
    <3>4. waiters' = <<>>
      BY <3>2, <3>3
    <3> QED  BY <2>1, <3>2, <3>3, <3>4, <1>0 DEF InTurn
  <2> QED  BY <2>4, <2>5
<1>2. ASSUME NEW c \in Calls, AbortWaiter(c) PROVE LeaseOutcome /\ QueueOutcome
  <2>1. PICK i \in DOMAIN waiters :
          Pump(entries, busy, RemoveIndex(waiters, i), creating, lease)
    BY <1>2 DEF AbortWaiter
  <2>2. waiters \in Seq(Calls) /\ i \in 1..Len(waiters)
    BY <1>0, LenProperties DEF SlotTypes
  <2>3. waiters # <<>> /\ RemoveIndex(waiters, i) \in Seq(Calls)
    BY <2>2, EmptySeq, RemoveIndexProperties
  <2>4. SlotTypes(entries, busy, RemoveIndex(waiters, i), creating, lease, retiring)
    BY <2>3, <1>0 DEF SlotTypes
  <2>5. entries \ busy = {}
    BY <2>3, <1>0
  <2>6. lease' = lease /\ waiters' = RemoveIndex(waiters, i)
    BY <2>1, <2>4, <2>5, PumpGrantsNone
  <2> QED  BY <2>6, <1>2 DEF AbortWaiter
<1>3. ASSUME NEW c \in Calls, ReleaseForReuse(c) PROVE LeaseOutcome /\ QueueOutcome
  <2> DEFINE L == [lease EXCEPT ![c] = NoLease]
             B == busy \ {lease[c]}
  <2>1. Leased(c) /\ Pump(entries, B, waiters, creating, L) /\ retiring' = retiring
    BY <1>3 DEF ReleaseForReuse
  <2>2. SlotTypes(entries, B, waiters, creating, L, retiring)
    BY <1>0 DEF SlotTypes
  <2>3. lease[c] \in busy
    BY <2>1, <1>0 DEF SlotLeases, Holds, Leased
  <2>4. CASE waiters = <<>>
    <3>1. lease' = L /\ waiters' = waiters
      BY <2>1, <2>2, <2>4, PumpGrantsNone
    <3> QED  BY <2>1, <3>1
  <2>5. CASE waiters # <<>>
    <3>1. entries \ B = {lease[c]}
      BY <2>3, <2>5, <1>0
    <3>2. Cardinality(entries \ B) = 1
      BY <3>1, FS_Singleton
    <3>3. /\ \E r \in entries \ B : lease' = [L EXCEPT ![waiters[1]] = r]
          /\ waiters' = Tail(waiters) /\ waiters[1] \in Calls
      <4>1. Cardinality(entries \ B) <= 1 /\ entries \ B # {}
        BY <3>1, <3>2
      <4> HIDE DEF B, L
      <4> QED  BY <2>1, <2>2, <2>5, <4>1, PumpGrantsOne
    <3>4. lease' = [lease EXCEPT ![c] = NoLease, ![waiters[1]] = lease[c]]
      BY <3>1, <3>3
    <3>5. lease[waiters[1]] = NoLease
      <4>1. 1 \in 1..Len(waiters)
        BY <2>5, <1>0, EmptySeq, LenProperties DEF SlotTypes
      <4> QED  BY <4>1, <1>0 DEF SlotQueue
    <3>6. InTurn(waiters[1])
      BY <2>5, <3>3 DEF InTurn
    <3>7. LeaseOutcome
      BY <2>1, <3>3, <3>4, <3>5, <3>6
    <3> QED  BY <2>5, <3>3, <3>7
  <2> QED  BY <2>4, <2>5
<1>4. ASSUME NEW c \in Calls, NEW ok \in BOOLEAN, DiscardSettles(c, ok) PROVE LeaseOutcome /\ QueueOutcome
  <2> DEFINE L == [lease EXCEPT ![c] = NoLease]
  <2>1. /\ c \in retiring /\ retiring' = retiring \ {c}
        /\ PumpOrFinish(entries, busy, waiters, creating, L)
    BY <1>4 DEF DiscardSettles
  <2>2. SlotTypes(entries, busy, waiters, creating, L, retiring)
    BY <1>0 DEF SlotTypes
  <2>3. entries \ busy = {} \/ waiters = <<>>
    BY <1>0
  <2>4. lease' = L /\ waiters' = waiters
    <3> HIDE DEF L
    <3> QED  BY <2>1, <2>2, <2>3, PumpGrantsNone DEF PumpOrFinish
  <2> QED  BY <2>1, <2>4
<1>5. ASSUME NEW i \in Instances, CreateFulfilled(i) PROVE LeaseOutcome /\ QueueOutcome
  <2> DEFINE E == entries \cup {i}
             C == creating \ {i}
  <2>1. retiring' = retiring
    BY <1>5 DEF CreateFulfilled
  <2>2. CASE closed
    BY <2>1, <2>2, <1>5 DEF CreateFulfilled
  <2>3. CASE ~closed
    <3>1. Pump(E, busy, waiters, C, lease)
      BY <2>3, <1>5 DEF CreateFulfilled
    <3>2. SlotTypes(E, busy, waiters, C, lease, retiring)
      BY <1>0 DEF SlotTypes
    <3>3. CASE E \ busy = {} \/ waiters = <<>>
      <4> HIDE DEF E, C
      <4> QED  BY <2>1, <3>1, <3>2, <3>3, PumpGrantsNone
    <3>4. CASE E \ busy # {} /\ waiters # <<>>
      <4>1. E \ busy = {i}
        BY <3>4, <1>0
      <4>2. Cardinality(E \ busy) <= 1
        BY <4>1, FS_Singleton
      <4> HIDE DEF E, C
      <4>3. /\ \E r \in E \ busy : lease' = [lease EXCEPT ![waiters[1]] = r]
            /\ waiters' = Tail(waiters) /\ waiters[1] \in Calls
        BY <3>1, <3>2, <3>4, <4>2, PumpGrantsOne
      <4>4. lease[waiters[1]] = NoLease
        <5>1. 1 \in 1..Len(waiters)
          BY <3>4, <1>0, EmptySeq, LenProperties DEF SlotTypes
        <5> QED  BY <5>1, <1>0 DEF SlotQueue
      <4>5. InTurn(waiters[1]) /\ i \notin busy
        BY <3>4, <4>1, <4>3 DEF InTurn
      <4>6. LeaseOutcome
        BY <2>1, <4>1, <4>3, <4>4, <4>5
      <4> QED  BY <3>4, <4>3, <4>6
    <3> QED  BY <3>3, <3>4
  <2> QED  BY <2>2, <2>3
<1>6. ASSUME NEW i \in Instances, CreateRejected(i) PROVE LeaseOutcome /\ QueueOutcome
  <2> DEFINE W == IF waiters = <<>> THEN <<>> ELSE Tail(waiters)
             C == creating \ {i}
  <2>1. retiring' = retiring /\ PumpOrFinish(entries, busy, W, C, lease)
    BY <1>6 DEF CreateRejected
  <2>2. W \in Seq(Calls) /\ (entries \ busy = {} \/ W = <<>>)
    BY <1>0, HeadTailProperties, EmptySeq DEF SlotTypes
  <2>3. SlotTypes(entries, busy, W, C, lease, retiring)
    BY <2>2, <1>0 DEF SlotTypes
  <2> HIDE DEF W, C
  <2>4. lease' = lease /\ waiters' = W
    BY <2>1, <2>2, <2>3, PumpGrantsNone DEF PumpOrFinish
  <2> QED  BY <2>1, <2>4 DEF W
<1>7. ASSUME NEW c \in Calls, ReleaseForDiscard(c) PROVE LeaseOutcome /\ QueueOutcome
  BY <1>7 DEF ReleaseForDiscard
<1>8. ASSUME AbortEveryWaiter \/ PoolClose \/ SweepDone PROVE LeaseOutcome /\ QueueOutcome
  BY <1>8 DEF AbortEveryWaiter, PoolClose, SweepDone, slots
<1>9. ASSUME NEW i \in Instances, NEW ok \in BOOLEAN,
             LateCloseSettles(i, ok) \/ SweepCloses(i, ok)
      PROVE  LeaseOutcome /\ QueueOutcome
  BY <1>9 DEF LateCloseSettles, SweepCloses, slots
<1>10. ASSUME UNCHANGED poolVars PROVE LeaseOutcome /\ QueueOutcome
  BY <1>10 DEF poolVars, slots
<1> HIDE DEF LeaseOutcome, QueueOutcome
<1> QED  BY <1>1, <1>2, <1>3, <1>4, <1>5, <1>6, <1>7, <1>8, <1>9, <1>10 DEF PoolNext


(* Each handler lends one instance, takes one back, passes one on, or      *)
(* leaves the loans alone.                                                 *)
LEMMA LendingStep == PoolInv /\ PoolInv' /\ [PoolNext]_poolVars => [Lender!Next]_Loans
<1> SUFFICES ASSUME PoolInv, PoolInv', [PoolNext]_poolVars
             PROVE  Lender!Next \/ Loans' = Loans
  OBVIOUS
<1>0. /\ lease \in [Calls -> Instances \cup {NoLease}] /\ retiring \subseteq Calls
      /\ SlotLeases(busy, lease, retiring)
      /\ NoLease \notin Instances
  BY PoolAssumption DEF PoolInv, SlotInv, SlotsOK, SlotTypes
<1>1. DOMAIN Loans = Lent /\ Lent \subseteq Calls /\ \A c \in Lent : Loans[c] = lease[c]
  BY DEF Loans, Lent
<1>2. Loans' = [c \in Lent' |-> lease'[c]]
  BY DEF Loans
<1>3. Lender!Borrowing = Lent
  BY DEF Lender!Borrowing, Lent
<1>4. ASSUME lease' = lease, retiring' = retiring PROVE Loans' = Loans
  BY <1>4 DEF Loans, Lent, Leased
<1>5. ASSUME NEW c \in retiring, lease' = [lease EXCEPT ![c] = NoLease],
             retiring' = retiring \ {c}
      PROVE  Loans' = Loans
  <2>1. Lent' = Lent
    BY <1>0, <1>5 DEF Lent, Leased
  <2>2. \A d \in Lent : lease'[d] = lease[d]
    BY <1>0, <1>5 DEF Lent, Leased
  <2> QED  BY <1>2, <2>1, <2>2 DEF Loans
<1>6. ASSUME NEW c \in Calls, Leased(c),
             \/ lease' = lease /\ retiring' = retiring \cup {c}
             \/ lease' = [lease EXCEPT ![c] = NoLease] /\ retiring' = retiring
      PROVE  Lender!Next
  <2>1. Lent' = Lent \ {c} /\ c \in Lent
    BY <1>0, <1>6 DEF Lent, Leased
  <2>2. \A d \in Lent \ {c} : lease'[d] = lease[d]
    BY <1>0, <1>6 DEF Lent
  <2>3. Loans' = [x \in Lent \ {c} |-> Loans[x]]
    BY <1>1, <1>2, <2>1, <2>2
  <2>4. Lender!Return(c)
    BY <1>3, <2>1, <2>3 DEF Lender!Return, Loans, Lent
  <2> QED  BY <2>4 DEF Lender!Next
<1>7. ASSUME NEW c \in Calls, NEW r \in Instances, lease[c] = NoLease, r \notin busy,
             lease' = [lease EXCEPT ![c] = r], retiring' = retiring
      PROVE  Lender!Next
  <2>1. c \notin retiring /\ c \notin Lent
    BY <1>0, <1>7 DEF SlotLeases, Lent, Leased
  <2>2. Lent' = Lent \cup {c}
    BY <1>0, <1>7, <2>1 DEF Lent, Leased
  <2>3. lease'[c] = r /\ \A d \in Lent : lease'[d] = lease[d]
    BY <1>0, <1>1, <1>7, <2>1
  <2>4. Loans' = [x \in Lent \cup {c} |-> IF x = c THEN r ELSE Loans[x]]
    BY <1>1, <1>2, <2>2, <2>3
  <2>5. r \notin {Loans[x] : x \in DOMAIN Loans}
    BY <1>0, <1>1, <1>7 DEF SlotLeases, Holds, Lent, Leased
  <2>6. Lender!Free(r)
    BY <2>5 DEF Lender!Free, Lender!Range, Loans, Lent
  <2>7. Cardinality(Lent) < PoolMax
    <3>1. Cardinality({d \in Calls : Holds(lease', retiring', d)}) <= PoolMax
      BY LentWithinLimit DEF PoolInv, SlotInv
    <3>2. Lent' = {d \in Calls : Holds(lease', retiring', d)}
      BY DEF Lent, Leased, Holds
    <3>3. IsFiniteSet(Lent)
      BY <1>1, PoolAssumption, FS_Subset
    <3>4. Cardinality(Lent \cup {c}) = Cardinality(Lent) + 1 /\ Cardinality(Lent) \in Nat
      BY <2>1, <3>3, FS_AddElement, FS_CardinalityType
    <3>5. Cardinality(Lent \cup {c}) <= PoolMax
      BY <2>2, <3>1, <3>2
    <3> QED  BY <3>4, <3>5, PoolAssumption
  <2>8. Lender!Cardinality(Lent) = Cardinality(Lent)
    BY DEF Lender!Cardinality, Cardinality
  <2>9. Lender!Lend(c, r)
    BY <1>3, <2>1, <2>4, <2>6, <2>7, <2>8 DEF Lender!Lend, Loans, Lent
  <2> QED  BY <2>9 DEF Lender!Next
<1>8. ASSUME NEW b \in Calls, NEW c \in Calls, Leased(b), lease[c] = NoLease,
             lease' = [lease EXCEPT ![b] = NoLease, ![c] = lease[b]], retiring' = retiring
      PROVE  Lender!Next
  <2>1. c \notin retiring /\ c \notin Lent /\ b \in Lent /\ b # c
    BY <1>0, <1>8 DEF SlotLeases, Lent, Leased
  <2>2. lease'[c] = lease[b] /\ lease'[b] = NoLease
        /\ \A d \in Calls \ {b, c} : lease'[d] = lease[d]
    BY <1>0, <1>8, <2>1
  <2>3. Lent' = (Lent \ {b}) \cup {c}
    BY <1>8, <2>1, <2>2 DEF Lent, Leased
  <2>4. Loans' = [x \in (Lent \ {b}) \cup {c} |-> IF x = c THEN Loans[b] ELSE Loans[x]]
    BY <1>1, <1>2, <2>1, <2>2, <2>3
  <2>5. Lender!HandOver(b, c)
    BY <1>3, <2>1, <2>4 DEF Lender!HandOver, Loans, Lent
  <2> QED  BY <2>5 DEF Lender!Next
<1>9. LeaseOutcome
  BY StepOutcome
<1> QED  BY <1>4, <1>5, <1>6, <1>7, <1>8, <1>9 DEF LeaseOutcome

(* The pool implements Lending for any number of calls, instances and pool *)
(* size: whatever is created, discarded, aborted or closed, an instance is *)
(* with one call at a time.                                                *)
THEOREM PoolLends == PoolSpec => LendsInstances
<1>1. PoolInit => Lender!Init
  <2> SUFFICES ASSUME PoolInit PROVE Lender!Init
    OBVIOUS
  <2>1. {d \in Calls : Leased(d)} = {}
    BY DEF PoolInit, Leased
  <2> QED  BY <2>1 DEF Lender!Init
<1>2. PoolInv /\ PoolInv' /\ [PoolNext]_poolVars
        => [Lender!Next]_[c \in {d \in Calls : Leased(d)} |-> lease[c]]
  BY LendingStep DEF Loans, Lent
<1> QED  BY <1>1, <1>2, PoolInvariant, PTL DEF PoolSpec, LendsInstances, Lender!Spec


(* A queue whose places come, in order, from places of an earlier one, or  *)
(* from behind its end, keeps the order of the earlier queue.              *)
LEMMA OrderKept ==
  ASSUME NEW V \in Seq(Calls), NEW W \in Seq(Calls),
         \A j, k \in 1..Len(V) : V[j] = V[k] => j = k,
         NEW At \in [1..Len(W) -> 1..(Len(V) + 1)],
         \A j, k \in 1..Len(W) : j < k => At[j] < At[k],
         \A k \in 1..Len(W) : /\ At[k] \in 1..Len(V) => W[k] = V[At[k]]
                              /\ At[k] = Len(V) + 1 => \A j \in 1..Len(V) : V[j] # W[k],
         NEW c \in Range(W), NEW d \in Range(W), Before(V, c, d)
  PROVE  Before(W, c, d)
<1>1. /\ Len(V) \in Nat /\ DOMAIN V = 1..Len(V)
      /\ Len(W) \in Nat /\ DOMAIN W = 1..Len(W)
  BY LenProperties
<1>2. PICK i \in 1..Len(V) : V[i] = c /\ \A j \in 1..Len(V) : V[j] = d => i <= j
  BY <1>1 DEF Before
<1>3. PICK k \in 1..Len(W) : W[k] = c
  BY <1>1 DEF Range
<1>4. At[k] = i
  BY <1>1, <1>2, <1>3
<1>5. ASSUME NEW j \in 1..Len(W), W[j] = d PROVE k <= j
  <2>1. i <= At[j]
    <3>1. CASE At[j] \in 1..Len(V)
      BY <1>2, <1>5, <3>1
    <3>2. CASE At[j] = Len(V) + 1
      BY <1>1, <3>2
    <3> QED  BY <1>1, <3>1, <3>2
  <2>2. ~(At[j] < At[k])
    BY <2>1, <1>1, <1>4
  <2>3. ~(j < k)
    BY <2>2
  <2> QED  BY <2>3, <1>1
<1> QED  BY <1>1, <1>3, <1>5 DEF Before

(* The queue a handler leaves is the old one without some of its calls,    *)
(* with the newcomer, if any, behind them: everybody keeps his turn.       *)
LEMMA QueueKeepsOrder ==
  ASSUME PoolInv, QueueOutcome,
         NEW c \in Range(waiters'), NEW d \in Range(waiters'), Before(waiters, c, d)
  PROVE  Before(waiters', c, d)
<1> DEFINE V == waiters
           n == Len(V)
<1>0. /\ V \in Seq(Calls) /\ n \in Nat /\ DOMAIN V = 1..n
      /\ \A j, k \in 1..n : V[j] = V[k] => j = k
  BY LenProperties DEF PoolInv, SlotInv, SlotsOK, SlotTypes, SlotQueue
<1>1. ASSUME waiters' = <<>> PROVE FALSE
  BY <1>1 DEF Range
<1>2. ASSUME waiters # <<>>, waiters' = Tail(waiters) PROVE Before(waiters', c, d)
  <2> DEFINE At == [k \in 1..(n - 1) |-> k + 1]
  <2>1. /\ waiters' \in Seq(Calls) /\ Len(waiters') = n - 1 /\ n - 1 \in Nat
        /\ \A k \in 1..(n - 1) : waiters'[k] = V[k + 1]
    BY <1>0, <1>2, HeadTailProperties, EmptySeq
  <2>2. /\ At \in [1..Len(waiters') -> 1..(n + 1)]
        /\ \A j, k \in 1..Len(waiters') : j < k => At[j] < At[k]
        /\ \A k \in 1..Len(waiters') : At[k] \in 1..n /\ waiters'[k] = V[At[k]]
    BY <1>0, <2>1
  <2> HIDE DEF At
  <2>3. \A k \in 1..Len(waiters') :
          /\ At[k] \in 1..n => waiters'[k] = V[At[k]]
          /\ At[k] = n + 1 => \A j \in 1..n : V[j] # waiters'[k]
    <3> SUFFICES ASSUME NEW k \in 1..Len(waiters') PROVE At[k] # n + 1 /\ waiters'[k] = V[At[k]]
      OBVIOUS
    <3>1. At[k] \in 1..n /\ waiters'[k] = V[At[k]]
      BY <2>2
    <3> HIDE DEF n, V
    <3> QED  BY <3>1, <1>0
  <2> QED  BY <1>0, <2>1, <2>2, <2>3, OrderKept
<1>3. ASSUME NEW i \in DOMAIN waiters, waiters' = RemoveIndex(waiters, i)
      PROVE  Before(waiters', c, d)
  <2> DEFINE At == [k \in 1..(n - 1) |-> IF k < i THEN k ELSE k + 1]
  <2>1. /\ waiters' \in Seq(Calls) /\ Len(waiters') = n - 1
        /\ \A k \in 1..(n - 1) : waiters'[k] = IF k < i THEN V[k] ELSE V[k + 1]
        /\ i \in 1..n
    <3>1. i \in 1..Len(waiters) /\ waiters \in Seq(Calls)
      BY <1>0, <1>3
    <3> QED  BY <3>1, <1>3, RemoveIndexProperties
  <2>2. /\ At \in [1..Len(waiters') -> 1..(n + 1)]
        /\ \A j, k \in 1..Len(waiters') : j < k => At[j] < At[k]
        /\ \A k \in 1..Len(waiters') : At[k] \in 1..n /\ waiters'[k] = V[At[k]]
    BY <1>0, <2>1
  <2> HIDE DEF At
  <2>3. \A k \in 1..Len(waiters') :
          /\ At[k] \in 1..n => waiters'[k] = V[At[k]]
          /\ At[k] = n + 1 => \A j \in 1..n : V[j] # waiters'[k]
    <3> SUFFICES ASSUME NEW k \in 1..Len(waiters') PROVE At[k] # n + 1 /\ waiters'[k] = V[At[k]]
      OBVIOUS
    <3>1. At[k] \in 1..n /\ waiters'[k] = V[At[k]]
      BY <2>2
    <3> HIDE DEF n, V
    <3> QED  BY <3>1, <1>0
  <2> QED  BY <1>0, <2>1, <2>2, <2>3, OrderKept
<1>4. ASSUME NEW x \in Calls \ Queued, waiters' = Append(waiters, x)
      PROVE  Before(waiters', c, d)
  <2> DEFINE At == [k \in 1..(n + 1) |-> k]
  <2>1. /\ waiters' \in Seq(Calls) /\ Len(waiters') = n + 1
        /\ \A k \in 1..n : waiters'[k] = V[k]
        /\ waiters'[n + 1] = x
    BY <1>0, <1>4, AppendProperties
  <2>2. \A k \in 1..n : V[k] # x
    BY <1>0 DEF Queued, Range
  <2>3. /\ At \in [1..Len(waiters') -> 1..(n + 1)]
        /\ \A j, k \in 1..Len(waiters') : j < k => At[j] < At[k]
        /\ \A k \in 1..Len(waiters') : At[k] = k
    BY <1>0, <2>1
  <2>4. \A k \in 1..Len(waiters') :
          /\ At[k] \in 1..n => waiters'[k] = V[At[k]]
          /\ At[k] = n + 1 => \A j \in 1..n : V[j] # waiters'[k]
    BY <1>0, <2>1, <2>2, <2>3
  <2> HIDE DEF At
  <2> QED  BY <1>0, <2>1, <2>3, <2>4, OrderKept
<1> QED  BY <1>1, <1>2, <1>3, <1>4 DEF QueueOutcome

(* Leases are granted in the order of the acquires, and neither aborts nor *)
(* failed creations disturb it, for any number of calls and any pool size. *)
THEOREM PoolIsFifo == PoolSpec => FifoGrant
<1> DEFINE Fifo ==
             \A c \in Calls, d \in Range(waiters') :
               /\ lease[c] = NoLease /\ lease'[c] # NoLease /\ d \in Queued => Before(waiters, c, d)
               /\ c \in Range(waiters') /\ Before(waiters, c, d) => Before(waiters', c, d)
<1>1. ASSUME PoolInv, [PoolNext]_poolVars PROVE Fifo
  <2> SUFFICES ASSUME NEW c \in Calls, NEW d \in Range(waiters')
               PROVE  /\ lease[c] = NoLease /\ lease'[c] # NoLease /\ d \in Queued
                           => Before(waiters, c, d)
                      /\ c \in Range(waiters') /\ Before(waiters, c, d) => Before(waiters', c, d)
    OBVIOUS
  <2>0. LeaseOutcome /\ QueueOutcome
    BY <1>1, StepOutcome
  <2>1. ASSUME lease[c] = NoLease, lease'[c] # NoLease PROVE Before(waiters, c, d)
    <3>1. lease \in [Calls -> Instances \cup {NoLease}] /\ waiters \in Seq(Calls)
      BY <1>1 DEF PoolInv, SlotInv, SlotsOK, SlotTypes
    <3>2. InTurn(c)
      BY <2>0, <2>1, <3>1 DEF LeaseOutcome, PoolInv, SlotInv, SlotsOK, SlotTypes
    <3>3. waiters' # <<>>
      BY DEF Range
    <3>4. waiters # <<>> /\ c = waiters[1]
      BY <3>2, <3>3 DEF InTurn
    <3>5. DOMAIN waiters = 1..Len(waiters) /\ Len(waiters) \in Nat /\ Len(waiters) # 0
      BY <3>1, <3>4, LenProperties, EmptySeq
    <3> QED  BY <3>4, <3>5 DEF Before
  <2>2. ASSUME c \in Range(waiters'), Before(waiters, c, d) PROVE Before(waiters', c, d)
    BY <1>1, <2>0, <2>2, QueueKeepsOrder
  <2> QED  BY <2>1, <2>2
<1>2. PoolInv /\ [PoolNext]_poolVars => [Fifo]_poolVars
  BY <1>1
<1> QED  BY <1>2, PoolInvariant, PTL DEF PoolSpec, FifoGrant

-----------------------------------------------------------------------------
(* What the runtime does to its pool in one step is a step of the pool.    *)
LEMMA RuntimeStepIsPoolStep == [Next]_vars => [PoolNext]_poolVars
<1> SUFFICES ASSUME [Next]_vars PROVE PoolNext \/ UNCHANGED poolVars
  OBVIOUS
<1>1. ASSUME Preload \/ InvokeInvalid \/ CloseAdapters PROVE UNCHANGED poolVars
  BY <1>1 DEF Preload, InvokeInvalid, CloseAdapters
<1>2. ASSUME Close PROVE PoolNext \/ UNCHANGED poolVars
  BY <1>2 DEF Close, PoolNext
<1>3. ASSUME ClosePool PROVE PoolNext \/ UNCHANGED poolVars
  BY <1>3 DEF ClosePool, PoolNext
<1>4. ASSUME NEW ok \in BOOLEAN, LoadSettles(ok) \/ CloseDone(ok) PROVE UNCHANGED poolVars
  BY <1>4 DEF LoadSettles, CloseDone
<1>5. ASSUME NEW c \in Calls, Invoke(c) PROVE UNCHANGED poolVars
  BY <1>5 DEF Invoke
<1>6. ASSUME NEW c \in Calls, Abort(c) PROVE PoolNext \/ UNCHANGED poolVars
  BY <1>6 DEF Abort, PoolNext
<1>7. ASSUME NEW c \in Calls, Front(c) PROVE PoolNext \/ UNCHANGED poolVars
  <2>1. ASSUME StartAttempt(c) PROVE PoolNext \/ UNCHANGED poolVars
    BY <2>1 DEF StartAttempt, PoolNext
  <2>2. ASSUME LoadSeen(c) PROVE PoolNext \/ UNCHANGED poolVars
    BY <2>1, <2>2 DEF LoadSeen
  <2>3. ASSUME Dispatch(c) PROVE PoolNext \/ UNCHANGED poolVars
    BY <2>3 DEF Dispatch, PoolNext
  <2>4. ASSUME DropSettles(c) PROVE PoolNext
    BY <2>4 DEF DropSettles, PoolNext
  <2>5. ASSUME Succeed(c) \/ Backoff(c) \/ Fail(c) PROVE UNCHANGED poolVars
    BY <2>5 DEF Succeed, Backoff, Fail
  <2>6. ASSUME Retry(c) PROVE PoolNext \/ UNCHANGED poolVars
    BY <2>1, <2>6 DEF Retry
  <2> QED  BY <1>7, <2>2, <2>3, <2>4, <2>5, <2>6 DEF Front
<1>8. ASSUME NEW c \in Calls, DispatchSettles(c) PROVE PoolNext
  BY <1>8 DEF DispatchSettles, PoolNext
<1>9. ASSUME NEW c \in Calls, DispatchDiscarded(c) PROVE PoolNext
  BY <1>9 DEF DispatchDiscarded, PoolNext
<1>10. ASSUME NEW c \in Calls, AdapterSettles(c) PROVE UNCHANGED poolVars
  BY <1>10 DEF AdapterSettles
<1>11. ASSUME PoolSettles PROVE PoolNext
  BY <1>11 DEF PoolSettles, PoolNext
<1>12. ASSUME UNCHANGED vars PROVE UNCHANGED poolVars
  BY <1>12 DEF vars
<1> QED
  BY <1>1, <1>2, <1>3, <1>4, <1>5, <1>6, <1>7, <1>8, <1>9, <1>10, <1>11, <1>12 DEF Next

(* GoforgeWasmRuntime uses its InstancePool as the pool's specification    *)
(* allows: every theorem about PoolSpec holds inside the runtime.          *)
THEOREM RuntimeRefinesPool == Spec => PoolRefined
<1>1. RuntimeInit => PoolInit
  BY DEF RuntimeInit
<1> QED  BY <1>1, RuntimeStepIsPoolStep, PTL DEF Spec, PoolSpec, PoolRefined

-----------------------------------------------------------------------------
(* The inductive invariant of the runtime, beside that of the pool.        *)
Active == {c \in Calls : pc[c] # "idle"}

(* Who may be queued or hold an instance, who may retry, and where the     *)
(* front of a call is while its back goes on.                              *)
FrontInv ==
  /\ \A c \in Queued : pc[c] = "acquiring"
  /\ \A c \in Calls :
       /\ lease[c] # NoLease => pc[c] \in {"acquiring", "dropping"} \/ c \in background
       /\ lease[c] # NoLease \/ pc[c] \in {"acquiring", "dropping"} => c \notin NativeCalls
       /\ pc[c] = "sleeping" => c \in RetryCalls /\ attempt[c] < MaxAttempts
       /\ attempt[c] <= IF c \in RetryCalls THEN MaxAttempts ELSE 1
       /\ c \in background => aborted[c] \/ pc[c] \in {"running", "native"}

(* Every call that is under way is counted (and calls refused for their    *)
(* options stay counted): once the count was zero, nobody is under way.    *)
CountInv ==
  /\ activeCalls >= Cardinality(Active)
  /\ closer \notin {"open", "draining"} => Active = {}

(* Until the bundle is verified there is no pool to speak of.              *)
UnusedInv ==
  load # "verified" =>
    /\ \A c \in Calls : pc[c] \in {"idle", "loading", "failed"}
    /\ entries = {} /\ creating = {} /\ waiters = <<>> /\ retiring = {}
    /\ late = {} /\ draining = {} /\ background = {} /\ closePromise = "none"
    /\ closer # "open" => ~Open

(* The order of the shutdown.                                              *)
CloserInv ==
  /\ closer \in {"open", "draining", "drained"} => ~closed
  /\ closer \notin {"open", "draining", "drained"} => background = {} /\ load # "pending"
  /\ closer \in {"adapters", "resolved", "rejected"} =>
       closePromise \in {"resolved", "rejected"} \/ load # "verified"

(* RuntimeTypeOK without the pool's variables.                             *)
Places == Racing \cup Outcome \cup {"idle", "acquiring", "dropping"}

TypeInv ==
  /\ state \in {"idle", "loading", "ready", "degraded", "closing", "closed"}
  /\ load \in {"none", "pending", "verified", "failed"}
  /\ activeCalls \in Nat
  /\ pc \in [Calls -> Places]
  /\ aborted \in [Calls -> BOOLEAN]
  /\ attempt \in [Calls -> 1..MaxAttempts]
  /\ background \in SUBSET Calls
  /\ closer \in {"open", "draining", "drained", "pool", "adapters", "resolved", "rejected"}

RuntimeInv == TypeInv /\ FrontInv /\ CountInv /\ UnusedInv /\ CloserInv

-----------------------------------------------------------------------------
(* What a step of the pool means for the calls: the leases in D end, other *)
(* calls outside S keep what they have, and only S remains queued.         *)
PoolEffect(S, D) ==
  /\ Range(waiters') \subseteq S
  /\ \A c \in Calls \ S : lease'[c] = IF c \in D THEN NoLease ELSE lease[c]

(* Membership in a sequence, by its indices.                               *)
LEMMA InRange ==
  ASSUME NEW S, NEW s \in Seq(S), NEW x
  PROVE  x \in Range(s) <=> \E k \in 1..Len(s) : s[k] = x
<1>1. DOMAIN s = 1..Len(s)
  BY LenProperties
<1> QED  BY <1>1 DEF Range

(* #pump gives leases to waiters only, and only waiters remain queued.     *)
LEMMA PumpEffect ==
  ASSUME NEW E \in SUBSET Instances, NEW B, NEW W \in Seq(Calls), NEW C, NEW L,
         Pump(E, B, W, C, L)
  PROVE  /\ Range(waiters') \subseteq Range(W)
         /\ \A c \in Calls \ Range(W) : lease'[c] = L[c]
<1> DEFINE n == Min({Cardinality(Idle(E, B)), Len(W)})
<1>1. Len(W) \in Nat /\ n \in Nat /\ n <= Len(W)
  <2>1. Len(W) \in Nat
    BY LenProperties
  <2>2. Cardinality(E \ B) \in Nat
    BY InstancesFinite
  <2> QED  BY <2>1, <2>2, MinOfTwo DEF Idle
<1>2. waiters' = SubSeq(W, n + 1, Len(W)) /\ \E pick : lease' = Grant(L, W, n, pick)
  BY DEF Pump
<1> HIDE DEF n
<1>4. Range(waiters') \subseteq Range(W)
  <2>1. /\ waiters' \in Seq(Calls)
        /\ Len(waiters') = Len(W) - n
        /\ \A k \in 1..(Len(W) - n) : waiters'[k] = W[n + k]
    <3>1. n + 1 \in Int /\ Len(W) \in Int /\ \A i \in (n + 1)..Len(W) : W[i] \in Calls
      BY <1>1, ElementOfSeq
    <3>2. /\ waiters' \in Seq(Calls)
          /\ Len(waiters') = IF n + 1 <= Len(W) THEN Len(W) - (n + 1) + 1 ELSE 0
          /\ \A i \in 1..(Len(W) - (n + 1) + 1) : waiters'[i] = W[(n + 1) + i - 1]
      BY <3>1, <1>2, SubSeqProperties
    <3>3. /\ Len(W) - (n + 1) + 1 = Len(W) - n
          /\ \A i \in 1..(Len(W) - n) : (n + 1) + i - 1 = n + i
      BY <1>1
    <3>4. Len(waiters') = Len(W) - n
      BY <1>1, <3>2
    <3> QED  BY <3>2, <3>3, <3>4
  <2>2. ASSUME NEW x \in Range(waiters') PROVE x \in Range(W)
    <3>1. PICK k \in 1..(Len(W) - n) : waiters'[k] = x
      BY <2>1, InRange
    <3>2. n + k \in 1..Len(W) /\ W[n + k] = x
      BY <1>1, <2>1, <3>1
    <3> QED  BY <3>2, InRange
  <2> QED  BY <2>2
<1>5. ASSUME NEW c \in Calls \ Range(W) PROVE lease'[c] = L[c]
  <2>1. \A k \in 1..n : W[k] # c
    BY <1>1, InRange
  <2> QED  BY <2>1, <1>2 DEF Grant
<1> QED  BY <1>4, <1>5

(* The same for a handler that ends in #pump.                              *)
LEMMA PumpedEffect ==
  ASSUME PoolInv, NEW E \in SUBSET Instances, NEW B, NEW W \in Seq(Calls), NEW C, NEW L,
         NEW S, NEW D, Pump(E, B, W, C, L), Range(W) \subseteq S,
         \A c \in Calls : L[c] = IF c \in D THEN NoLease ELSE lease[c]
  PROVE  PoolEffect(S, D)
<1>1. /\ Range(waiters') \subseteq Range(W)
      /\ \A c \in Calls \ Range(W) : lease'[c] = L[c]
  BY PumpEffect
<1> QED  BY <1>1 DEF PoolEffect

(* What the handlers of the pool mean for the calls.                       *)
LEMMA AcquireEffect ==
  ASSUME PoolInv, NEW c \in Calls, Acquire(c)
  PROVE  PoolEffect(Queued \cup {c}, {})
<1>1. waiters \in Seq(Calls) /\ entries \in SUBSET Instances
  BY DEF PoolInv, SlotInv, SlotsOK, SlotTypes
<1>2. Append(waiters, c) \in Seq(Calls) /\ Range(Append(waiters, c)) \subseteq Queued \cup {c}
  <2>1. /\ Append(waiters, c) \in Seq(Calls) /\ Len(Append(waiters, c)) = Len(waiters) + 1
        /\ \A k \in 1..Len(waiters) : Append(waiters, c)[k] = waiters[k]
        /\ Append(waiters, c)[Len(waiters) + 1] = c
    BY <1>1, AppendProperties
  <2>2. ASSUME NEW x \in Range(Append(waiters, c)) PROVE x \in Queued \cup {c}
    <3>1. PICK k \in 1..Len(Append(waiters, c)) : Append(waiters, c)[k] = x
      BY <2>1, InRange
    <3>2. Len(waiters) \in Nat
      BY <1>1, LenProperties
    <3>3. k \in 1..Len(waiters) \/ k = Len(waiters) + 1
      BY <2>1, <3>1, <3>2
    <3>4. CASE k \in 1..Len(waiters)
      BY <1>1, <2>1, <3>1, <3>4, InRange DEF Queued
    <3>5. CASE k = Len(waiters) + 1
      BY <2>1, <3>1, <3>5
    <3> QED  BY <3>3, <3>4, <3>5
  <2> QED  BY <2>1, <2>2
<1>3. \A d \in Calls : lease[d] = IF d \in {} THEN NoLease ELSE lease[d]
  OBVIOUS
<1> DEFINE W == Append(waiters, c)
           S == Queued \cup {c}
<1>4. W \in Seq(Calls) /\ Range(W) \subseteq S /\ Pump(entries, busy, W, creating, lease)
  BY <1>2 DEF Acquire, Enqueue
<1> HIDE DEF W, S
<1>5. PoolEffect(S, {})
  BY <1>1, <1>3, <1>4, PumpedEffect
<1> QED  BY <1>5 DEF S

LEMMA AbortWaiterEffect ==
  ASSUME PoolInv, NEW c \in Calls, AbortWaiter(c)
  PROVE  PoolEffect(Queued, {})
<1>1. waiters \in Seq(Calls) /\ entries \in SUBSET Instances
  BY DEF PoolInv, SlotInv, SlotsOK, SlotTypes
<1>2. PICK i \in 1..Len(waiters) : Pump(entries, busy, RemoveIndex(waiters, i), creating, lease)
  BY <1>1, LenProperties DEF AbortWaiter
<1>3. RemoveIndex(waiters, i) \in Seq(Calls) /\ Range(RemoveIndex(waiters, i)) \subseteq Queued
  <2>1. /\ RemoveIndex(waiters, i) \in Seq(Calls)
        /\ Len(RemoveIndex(waiters, i)) = Len(waiters) - 1
        /\ \A k \in 1..(Len(waiters) - 1) :
             RemoveIndex(waiters, i)[k] = IF k < i THEN waiters[k] ELSE waiters[k + 1]
    BY <1>1, RemoveIndexProperties
  <2>2. ASSUME NEW x \in Range(RemoveIndex(waiters, i)) PROVE x \in Queued
    <3>1. PICK k \in 1..(Len(waiters) - 1) : RemoveIndex(waiters, i)[k] = x
      BY <2>1, InRange
    <3>2. Len(waiters) \in Nat
      BY <1>1, LenProperties
    <3>3. k \in 1..Len(waiters) /\ k + 1 \in 1..Len(waiters)
      BY <3>1, <3>2
    <3> QED  BY <1>1, <2>1, <3>1, <3>3, InRange DEF Queued
  <2> QED  BY <2>1, <2>2
<1>4. \A d \in Calls : lease[d] = IF d \in {} THEN NoLease ELSE lease[d]
  OBVIOUS
<1> DEFINE W == RemoveIndex(waiters, i)
<1>5. W \in Seq(Calls) /\ Range(W) \subseteq Queued /\ Pump(entries, busy, W, creating, lease)
  BY <1>2, <1>3
<1> HIDE DEF W
<1> QED  BY <1>1, <1>4, <1>5, PumpedEffect

LEMMA AbortEveryEffect ==
  ASSUME PoolInv, AbortEveryWaiter
  PROVE  PoolEffect(Queued, {})
<1>1. Range(<<>>) = {}
  BY DEF Range
<1> QED  BY <1>1 DEF AbortEveryWaiter, PoolEffect

LEMMA ReuseEffect ==
  ASSUME PoolInv, NEW c \in Calls, ReleaseForReuse(c)
  PROVE  PoolEffect(Queued, {c})
<1>1. /\ waiters \in Seq(Calls) /\ entries \in SUBSET Instances
      /\ lease \in [Calls -> Instances \cup {NoLease}]
  BY DEF PoolInv, SlotInv, SlotsOK, SlotTypes
<1> DEFINE L == [lease EXCEPT ![c] = NoLease]
<1>2. \A d \in Calls : L[d] = IF d \in {c} THEN NoLease ELSE lease[d]
  BY <1>1
<1>3. Pump(entries, busy \ {lease[c]}, waiters, creating, L) /\ Range(waiters) \subseteq Queued
  BY DEF ReleaseForReuse, Queued
<1> HIDE DEF L
<1> QED  BY <1>1, <1>2, <1>3, PumpedEffect

LEMMA DiscardEffect ==
  ASSUME PoolInv, NEW c \in Calls, NEW ok \in BOOLEAN, DiscardSettles(c, ok)
  PROVE  PoolEffect(Queued, {c})
<1>1. /\ waiters \in Seq(Calls) /\ entries \in SUBSET Instances
      /\ lease \in [Calls -> Instances \cup {NoLease}]
  BY DEF PoolInv, SlotInv, SlotsOK, SlotTypes
<1> DEFINE L == [lease EXCEPT ![c] = NoLease]
<1>2. \A d \in Calls : L[d] = IF d \in {c} THEN NoLease ELSE lease[d]
  BY <1>1
<1>3. PumpOrFinish(entries, busy, waiters, creating, L) /\ Range(waiters) \subseteq Queued
  BY DEF DiscardSettles, Queued
<1> HIDE DEF L
<1>4. CASE Pump(entries, busy, waiters, creating, L)
  BY <1>1, <1>2, <1>3, <1>4, PumpedEffect
<1>5. CASE waiters' = waiters /\ lease' = L
  BY <1>2, <1>3, <1>5 DEF PoolEffect
<1> QED  BY <1>3, <1>4, <1>5 DEF PumpOrFinish

(* The handlers that run while the runtime awaits the pool.                *)
LEMMA SettleEffect ==
  ASSUME PoolInv, PoolSettles
  PROVE  PoolEffect(Queued, {}) /\ UNCHANGED <<retiring, closed>>
<1>1. waiters \in Seq(Calls) /\ entries \in SUBSET Instances
  BY DEF PoolInv, SlotInv, SlotsOK, SlotTypes
<1>2. ASSUME NEW i \in Instances, CreateFulfilled(i)
      PROVE  PoolEffect(Queued, {}) /\ UNCHANGED <<retiring, closed>>
  <2>1. CASE Pump(entries \cup {i}, busy, waiters, creating \ {i}, lease)
    BY <1>1, <1>2, <2>1, PumpedEffect DEF CreateFulfilled, Queued
  <2>2. CASE UNCHANGED <<waiters, lease>>
    BY <1>2, <2>2 DEF CreateFulfilled, PoolEffect, Queued
  <2> QED  BY <1>2, <2>1, <2>2 DEF CreateFulfilled
<1>3. ASSUME NEW i \in Instances, CreateRejected(i)
      PROVE  PoolEffect(Queued, {}) /\ UNCHANGED <<retiring, closed>>
  <2> DEFINE W == IF waiters = <<>> THEN <<>> ELSE Tail(waiters)
  <2>1. W \in Seq(Calls) /\ Range(W) \subseteq Queued
    <3>1. CASE waiters = <<>>
      BY <3>1, <1>1 DEF Queued
    <3>2. CASE waiters # <<>>
      <4>1. /\ Tail(waiters) \in Seq(Calls) /\ Len(Tail(waiters)) = Len(waiters) - 1
            /\ \A k \in 1..Len(Tail(waiters)) : Tail(waiters)[k] = waiters[k + 1]
        BY <1>1, <3>2, HeadTailProperties
      <4>2. ASSUME NEW x \in Range(Tail(waiters)) PROVE x \in Queued
        <5>1. PICK k \in 1..Len(Tail(waiters)) : Tail(waiters)[k] = x
          BY <4>1, InRange
        <5>2. k + 1 \in 1..Len(waiters) /\ waiters[k + 1] = x
          BY <1>1, <4>1, <5>1, LenProperties
        <5> QED  BY <1>1, <5>2, InRange DEF Queued
      <4> QED  BY <3>2, <4>1, <4>2
    <3> QED  BY <3>1, <3>2
  <2>2. PumpOrFinish(entries, busy, W, creating \ {i}, lease) /\ UNCHANGED <<retiring, closed>>
    BY <1>3 DEF CreateRejected
  <2> HIDE DEF W
  <2>3. CASE Pump(entries, busy, W, creating \ {i}, lease)
    BY <1>1, <2>1, <2>2, <2>3, PumpedEffect
  <2>4. CASE waiters' = W /\ lease' = lease
    BY <2>1, <2>2, <2>4 DEF PoolEffect
  <2> QED  BY <2>2, <2>3, <2>4 DEF PumpOrFinish
<1>4. ASSUME NEW i \in Instances, NEW ok \in BOOLEAN, LateCloseSettles(i, ok) \/ SweepCloses(i, ok)
      PROVE  PoolEffect(Queued, {}) /\ UNCHANGED <<retiring, closed>>
  BY <1>4 DEF LateCloseSettles, SweepCloses, slots, PoolEffect, Queued
<1>5. ASSUME SweepDone PROVE PoolEffect(Queued, {}) /\ UNCHANGED <<retiring, closed>>
  BY <1>5 DEF SweepDone, slots, PoolEffect, Queued
<1> QED  BY <1>2, <1>3, <1>4, <1>5 DEF PoolSettles

-----------------------------------------------------------------------------
(* The calls under way, when the front of c moves.                         *)
LEMMA ActiveMoves ==
  ASSUME TypeInv, NEW c \in Calls, NEW w, Move(c, w)
  PROVE  /\ Cardinality(Active) \in Nat /\ Cardinality(Active') \in Nat
         /\ pc[c] # "idle" /\ w # "idle" => Active' = Active
         /\ pc[c] # "idle" /\ w = "idle" =>
              /\ Active' = Active \ {c}
              /\ Cardinality(Active') = Cardinality(Active) - 1
         /\ pc[c] = "idle" /\ w # "idle" => Cardinality(Active') = Cardinality(Active) + 1
<1>1. IsFiniteSet(Active) /\ IsFiniteSet(Active')
  BY PoolAssumption, FS_Subset DEF Active
<1>2. Cardinality(Active) \in Nat /\ Cardinality(Active') \in Nat
  BY <1>1, FS_CardinalityType
<1>3. pc' = [pc EXCEPT ![c] = w] /\ pc \in [Calls -> Places]
  BY DEF Move, TypeInv
<1>4. ASSUME pc[c] # "idle", w # "idle" PROVE Active' = Active
  BY <1>3, <1>4 DEF Active
<1>5. ASSUME pc[c] # "idle", w = "idle"
      PROVE  Active' = Active \ {c} /\ Cardinality(Active') = Cardinality(Active) - 1
  <2>1. Active' = Active \ {c} /\ c \in Active
    BY <1>3, <1>5 DEF Active
  <2> QED  BY <2>1, <1>1, FS_RemoveElement
<1>6. ASSUME pc[c] = "idle", w # "idle" PROVE Cardinality(Active') = Cardinality(Active) + 1
  <2>1. Active' = Active \cup {c} /\ c \notin Active
    BY <1>3, <1>6 DEF Active
  <2> QED  BY <2>1, <1>1, FS_AddElement
<1> QED  BY <1>2, <1>4, <1>5, <1>6

(* A front that moves within a call leaves the count and the closer alone. *)
LEMMA CountKept ==
  ASSUME RuntimeInv, NEW c \in Calls, NEW w, Move(c, w),
         pc[c] # "idle", w # "idle", UNCHANGED <<activeCalls, closer>>
  PROVE  CountInv'
<1>1. Active' = Active
  BY ActiveMoves DEF RuntimeInv
<1> QED  BY <1>1 DEF RuntimeInv, CountInv

(* The finally of invoke takes the call off the count, and only a count    *)
(* that reaches zero lets the closer go on.                                *)
LEMMA CountFinished ==
  ASSUME RuntimeInv, NEW c \in Calls, Finish(c), pc[c] # "idle"
  PROVE  CountInv' /\ activeCalls' \in Nat
<1>1. /\ Cardinality(Active) \in Nat /\ Active' = Active \ {c}
      /\ Cardinality(Active') = Cardinality(Active) - 1
  BY ActiveMoves DEF Finish, RuntimeInv
<1>2. activeCalls \in Nat /\ activeCalls >= Cardinality(Active) /\ activeCalls' = activeCalls - 1
  BY DEF RuntimeInv, TypeInv, CountInv, Finish
<1>3. Cardinality(Active) > 0
  <2>1. IsFiniteSet(Active) /\ c \in Active
    BY PoolAssumption, FS_Subset DEF Active
  <2>2. Cardinality(Active) # 0
    BY <2>1, FS_EmptySet
  <2> QED  BY <1>1, <2>2
<1>4. activeCalls' \in Nat /\ activeCalls' >= Cardinality(Active')
  BY <1>1, <1>2, <1>3
<1>5. ASSUME closer' \notin {"open", "draining"} PROVE Active' = {}
  <2>1. CASE closer \notin {"open", "draining"}
    BY <2>1, <1>1 DEF RuntimeInv, CountInv
  <2>2. CASE closer = "draining" /\ activeCalls = 1
    <3>1. Cardinality(Active') = 0
      BY <2>2, <1>1, <1>2, <1>3
    <3>2. IsFiniteSet(Active')
      BY PoolAssumption, FS_Subset DEF Active
    <3> QED  BY <3>1, <3>2, FS_EmptySet
  <2> QED  BY <1>5, <2>1, <2>2 DEF Finish
<1> QED  BY <1>4, <1>5 DEF CountInv

(* FrontInv when one front moves and the pool takes a step.                *)
LEMMA FrontKept ==
  ASSUME PoolInv, RuntimeInv, NEW c \in Calls, NEW w, NEW S, NEW D,
         Move(c, w), PoolEffect(S, D), S \subseteq Calls,
         \A d \in S : d # c => d \in Queued,
         c \in S => w = "acquiring" /\ c \notin NativeCalls,
         c \notin S /\ lease[c] # NoLease /\ c \notin D =>
            w \in {"acquiring", "dropping"} \/ c \in background',
         w \in {"acquiring", "dropping"} => c \notin NativeCalls,
         \A d \in Calls : d # c => (d \in background' <=> d \in background),
         w = "sleeping" => c \in RetryCalls /\ attempt'[c] < MaxAttempts,
         attempt'[c] <= IF c \in RetryCalls THEN MaxAttempts ELSE 1,
         \A d \in Calls : d # c => attempt'[d] = attempt[d] /\ aborted'[d] = aborted[d],
         c \in background' => aborted'[c] \/ w \in {"running", "native"}
  PROVE  FrontInv'
<1>1. /\ pc' = [pc EXCEPT ![c] = w] /\ pc \in [Calls -> Places]
      /\ Range(waiters') \subseteq S
      /\ \A d \in Calls \ S : lease'[d] = IF d \in D THEN NoLease ELSE lease[d]
  BY DEF Move, RuntimeInv, TypeInv, PoolEffect
<1>2. pc'[c] = w /\ \A d \in Calls : d # c => pc'[d] = pc[d]
  BY <1>1
<1>3. FrontInv
  BY DEF RuntimeInv
<1>4. \A d \in S : pc'[d] = "acquiring" /\ d \notin NativeCalls
  BY <1>2, <1>3 DEF FrontInv
<1>5. \A d \in Queued' : pc'[d] = "acquiring"
  BY <1>1, <1>4 DEF Queued
<1>6. ASSUME NEW d \in Calls
      PROVE  /\ lease'[d] # NoLease => pc'[d] \in {"acquiring", "dropping"} \/ d \in background'
             /\ lease'[d] # NoLease \/ pc'[d] \in {"acquiring", "dropping"} => d \notin NativeCalls
  <2>1. CASE d \in S
    BY <2>1, <1>4
  <2>2. CASE d \notin S /\ d # c
    BY <2>2, <1>1, <1>2, <1>3 DEF FrontInv
  <2>3. CASE d \notin S /\ d = c
    BY <2>3, <1>1, <1>2, <1>3 DEF FrontInv
  <2> QED  BY <2>1, <2>2, <2>3
<1>7. ASSUME NEW d \in Calls
      PROVE  /\ pc'[d] = "sleeping" => d \in RetryCalls /\ attempt'[d] < MaxAttempts
             /\ attempt'[d] <= IF d \in RetryCalls THEN MaxAttempts ELSE 1
             /\ d \in background' => aborted'[d] \/ pc'[d] \in {"running", "native"}
  BY <1>2, <1>3 DEF FrontInv
<1> QED  BY <1>5, <1>6, <1>7 DEF FrontInv

(* A step of a call on a verified bundle, before the pool is closed.       *)
LEMMA VerifiedStep ==
  ASSUME RuntimeInv, load = "verified", closer \in {"open", "draining", "drained"},
         UNCHANGED <<load, closer, closed>>, TypeInv', FrontInv', CountInv'
  PROVE  RuntimeInv'
BY DEF RuntimeInv, UnusedInv, CloserInv

(* Where the closer can be, and the load, while a call is under way.       *)
LEMMA ActiveFacts ==
  ASSUME RuntimeInv, NEW c \in Calls, pc[c] # "idle"
  PROVE  /\ closer \in {"open", "draining"}
         /\ pc[c] \notin {"loading", "failed"} => load = "verified"
<1>1. c \in Active
  BY DEF Active
<1> QED  BY <1>1 DEF RuntimeInv, CountInv, TypeInv, UnusedInv

(* The same while its dispatch or its adapter is.                          *)
LEMMA BackgroundFacts ==
  ASSUME RuntimeInv, NEW c \in background
  PROVE  closer \in {"open", "draining", "drained"} /\ load = "verified" /\ c \in Calls
BY DEF RuntimeInv, CloserInv, TypeInv, UnusedInv

(* A step that leaves the pool alone.                                      *)
LEMMA IdlePoolEffect ==
  ASSUME PoolInv, UNCHANGED poolVars
  PROVE  PoolEffect(Queued, {}) /\ UNCHANGED <<closed, retiring>>
BY DEF poolVars, slots, PoolEffect, Queued

(* Nobody queued holds a lease, and whoever is queued is a call.           *)
LEMMA QueuedFacts ==
  ASSUME PoolInv
  PROVE  /\ Queued \subseteq Calls
         /\ \A c \in Queued : lease[c] = NoLease
         /\ \A c \in retiring : c \in Calls /\ lease[c] # NoLease
<1>1. /\ waiters \in Seq(Calls) /\ SlotQueue(waiters, lease)
      /\ SlotLeases(busy, lease, retiring) /\ retiring \in SUBSET Calls
  BY DEF PoolInv, SlotInv, SlotsOK, SlotTypes
<1>2. ASSUME NEW c \in Queued PROVE c \in Calls /\ lease[c] = NoLease
  <2>1. PICK k \in 1..Len(waiters) : waiters[k] = c
    BY <1>1, InRange DEF Queued
  <2> QED  BY <1>1, <2>1, ElementOfSeq DEF SlotQueue
<1> QED  BY <1>1, <1>2 DEF SlotLeases

-----------------------------------------------------------------------------
(* Each step of a call keeps the invariant.                                *)

LEMMA StartAttemptInv ==
  ASSUME PoolInv, RuntimeInv, NEW c \in Calls, StartAttempt(c),
         pc[c] \in {"loading", "sleeping"}, load = "verified",
         UNCHANGED <<aborted, hostVars, activeCalls>>,
         attempt' \in [Calls -> 1..MaxAttempts],
         attempt'[c] <= IF c \in RetryCalls THEN MaxAttempts ELSE 1,
         \A d \in Calls : d # c => attempt'[d] = attempt[d]
  PROVE  RuntimeInv'
<1>0. /\ closer \in {"open", "draining"} /\ TypeInv /\ FrontInv
      /\ c \in background => aborted'[c]
  BY ActiveFacts DEF RuntimeInv, FrontInv
<1>1. CASE Acquire(c) /\ Move(c, "acquiring") /\ UNCHANGED background /\ c \notin NativeCalls
  <2>1. PoolEffect(Queued \cup {c}, {}) /\ Queued \subseteq Calls /\ closed' = closed
    BY <1>1, AcquireEffect, QueuedFacts DEF Acquire
  <2> DEFINE S == Queued \cup {c}
  <2>2. /\ S \subseteq Calls /\ c \in S /\ PoolEffect(S, {})
        /\ \A d \in S : d # c => d \in Queued
    BY <2>1
  <2> HIDE DEF S
  <2>3. FrontInv'
    BY <1>0, <1>1, <2>2, FrontKept
  <2>4. CountInv'
    BY <1>1, CountKept DEF hostVars
  <2>5. TypeInv'
    BY <1>0, <1>1 DEF TypeInv, Move, hostVars, Places
  <2> QED  BY <1>0, <2>1, <2>3, <2>4, <2>5, VerifiedStep DEF hostVars
<1>2. ASSUME NEW w \in {"failed", "native"}, Move(c, w), UNCHANGED poolVars,
             \/ background' = background
             \/ background' = background \cup {c} /\ (aborted[c] \/ w = "native")
      PROVE  RuntimeInv'
  <2>1. PoolEffect(Queued, {}) /\ Queued \subseteq Calls /\ closed' = closed /\ c \notin Queued
    BY <1>0, <1>2, IdlePoolEffect, QueuedFacts DEF FrontInv
  <2>2. lease[c] # NoLease => c \in background
    BY <1>0 DEF FrontInv
  <2>3. FrontInv'
    BY <1>0, <1>2, <2>1, <2>2, FrontKept
  <2>4. CountInv'
    BY <1>2, CountKept DEF hostVars
  <2>5. TypeInv'
    BY <1>0, <1>2 DEF TypeInv, Move, hostVars, Places, Racing, Outcome
  <2> QED  BY <1>0, <2>1, <2>3, <2>4, <2>5, VerifiedStep DEF hostVars
<1> QED  BY <1>1, <1>2 DEF StartAttempt

LEMMA LoadSeenInv ==
  ASSUME PoolInv, RuntimeInv, NEW c \in Calls, LoadSeen(c)
  PROVE  RuntimeInv'
<1>0. /\ TypeInv /\ FrontInv /\ closer \in {"open", "draining"} /\ pc[c] = "loading"
      /\ UNCHANGED <<aborted, attempt, hostVars, activeCalls>>
  BY ActiveFacts DEF RuntimeInv, LoadSeen
<1>1. CASE load = "verified" /\ StartAttempt(c)
  BY <1>0, <1>1, StartAttemptInv DEF TypeInv, FrontInv
<1>2. CASE Move(c, "failed") /\ UNCHANGED <<poolVars, background>>
  <2>1. PoolEffect(Queued, {}) /\ Queued \subseteq Calls /\ closed' = closed /\ c \notin Queued
    BY <1>0, <1>2, IdlePoolEffect, QueuedFacts DEF FrontInv
  <2>2. lease[c] # NoLease => c \in background
    BY <1>0 DEF FrontInv
  <2>3. FrontInv'
    BY <1>0, <1>2, <2>1, <2>2, FrontKept DEF FrontInv
  <2>4. CountInv'
    BY <1>0, <1>2, CountKept DEF hostVars
  <2>5. TypeInv'
    BY <1>0, <1>2 DEF TypeInv, Move, hostVars, Places, Outcome
  <2>6. UnusedInv'
    BY <1>0, <1>2 DEF RuntimeInv, TypeInv, UnusedInv, Move, hostVars, poolVars, slots, closing, Open
  <2>7. CloserInv'
    BY <1>0, <2>1 DEF CloserInv, RuntimeInv, hostVars
  <2> QED  BY <2>3, <2>4, <2>5, <2>6, <2>7 DEF RuntimeInv
<1> QED  BY <1>1, <1>2 DEF LoadSeen

(* One front moves while its bundle is verified and the pool takes a step  *)
(* in which it grants leases to the queue only.                            *)
LEMMA MovedInv ==
  ASSUME PoolInv, RuntimeInv, NEW c \in Calls, NEW w \in Places, NEW D, Move(c, w),
         load = "verified", c \notin Queued,
         closer \in {"open", "draining", "drained"},
         pc[c] = "idle" <=> w = "idle",
         PoolEffect(Queued, D), closed' = closed,
         w \in {"acquiring", "dropping"} => c \notin NativeCalls,
         lease[c] # NoLease /\ c \notin D => w \in {"acquiring", "dropping"} \/ c \in background',
         w = "sleeping" => c \in RetryCalls /\ attempt[c] < MaxAttempts,
         background' \in SUBSET Calls,
         c \in background' => aborted[c] \/ w \in {"running", "native"},
         \A d \in Calls : d # c => (d \in background' <=> d \in background),
         UNCHANGED <<aborted, attempt, hostVars, activeCalls>>
  PROVE  RuntimeInv'
<1>0. TypeInv /\ FrontInv /\ UNCHANGED <<closer, load>>
  BY DEF RuntimeInv, hostVars
<1>1. FrontInv'
  <2>1. Queued \subseteq Calls
    BY QueuedFacts
  <2>2. attempt'[c] <= IF c \in RetryCalls THEN MaxAttempts ELSE 1
    BY <1>0 DEF FrontInv
  <2> QED  BY <2>1, <2>2, FrontKept
<1>2. CountInv'
  <2>1. CASE pc[c] # "idle"
    BY <2>1, <1>0, CountKept
  <2>2. CASE pc[c] = "idle"
    <3>1. pc' = pc
      BY <2>2, <1>0 DEF Move, TypeInv
    <3> QED  BY <3>1, <1>0 DEF RuntimeInv, CountInv, Active
  <2> QED  BY <2>1, <2>2
<1>3. TypeInv'
  BY <1>0 DEF TypeInv, Move, hostVars
<1> QED  BY <1>0, <1>1, <1>2, <1>3, VerifiedStep

LEMMA DispatchInv ==
  ASSUME PoolInv, RuntimeInv, NEW c \in Calls, Dispatch(c)
  PROVE  RuntimeInv'
<1>0. /\ TypeInv /\ FrontInv /\ closer \in {"open", "draining"} /\ load = "verified"
      /\ pc[c] = "acquiring" /\ lease[c] # NoLease /\ c \notin Queued /\ c \notin NativeCalls
      /\ UNCHANGED <<aborted, attempt, hostVars, activeCalls>>
  BY ActiveFacts, QueuedFacts DEF RuntimeInv, Dispatch, Leased, FrontInv
<1>1. CASE background' = background \cup {c} /\ Move(c, "running") /\ UNCHANGED poolVars
  <2>1. PoolEffect(Queued, {}) /\ closed' = closed /\ "running" \in Places
    BY <1>1, IdlePoolEffect DEF Places, Racing
  <2>2. background' \in SUBSET Calls /\ \A d \in Calls : d # c => (d \in background' <=> d \in background)
    BY <1>0, <1>1 DEF TypeInv
  <2> QED  BY <1>0, <1>1, <2>1, <2>2, MovedInv
<1>2. CASE ReleaseForDiscard(c) /\ Move(c, "dropping") /\ UNCHANGED background
  <2>1. PoolEffect(Queued, {}) /\ closed' = closed /\ "dropping" \in Places
    BY <1>2 DEF ReleaseForDiscard, PoolEffect, Queued, Places
  <2>2. /\ background' \in SUBSET Calls
        /\ \A d \in Calls : d # c => (d \in background' <=> d \in background)
        /\ c \in background' => aborted[c]
    BY <1>0, <1>2 DEF TypeInv, FrontInv
  <2> QED  BY <1>0, <1>2, <2>1, <2>2, MovedInv
<1> QED  BY <1>1, <1>2 DEF Dispatch

LEMMA DropSettlesInv ==
  ASSUME PoolInv, RuntimeInv, NEW c \in Calls, DropSettles(c)
  PROVE  RuntimeInv'
<1>0. /\ TypeInv /\ FrontInv /\ closer \in {"open", "draining"} /\ load = "verified"
      /\ pc[c] = "dropping" /\ c \notin Queued
      /\ UNCHANGED <<aborted, attempt, hostVars, activeCalls, background>>
      /\ Move(c, "failed") /\ "failed" \in Places
  BY ActiveFacts DEF RuntimeInv, DropSettles, FrontInv, Places, Outcome
<1>1. PoolEffect(Queued, {c}) /\ closed' = closed
  BY DiscardEffect DEF DropSettles, DiscardSettles
<1>2. /\ background' \in SUBSET Calls
      /\ \A d \in Calls : d # c => (d \in background' <=> d \in background)
      /\ c \in background' => aborted[c]
  BY <1>0 DEF TypeInv, FrontInv
<1> QED  BY <1>0, <1>1, <1>2, MovedInv

LEMMA DispatchSettlesInv ==
  ASSUME PoolInv, RuntimeInv, NEW c \in Calls, DispatchSettles(c)
  PROVE  RuntimeInv'
<1>0. /\ TypeInv /\ FrontInv /\ closer \in {"open", "draining", "drained"} /\ load = "verified"
      /\ lease[c] # NoLease /\ c \notin Queued /\ c \notin NativeCalls
      /\ UNCHANGED <<aborted, attempt, hostVars, activeCalls>>
  BY BackgroundFacts, QueuedFacts DEF RuntimeInv, DispatchSettles, Leased, FrontInv
<1>1. ASSUME NEW r \in Outcome, ReleaseForReuse(c), background' = background \ {c}, Move(c, r),
             ~aborted[c]
      PROVE  RuntimeInv'
  <2>1. PoolEffect(Queued, {c}) /\ closed' = closed
    BY <1>1, ReuseEffect DEF ReleaseForReuse
  <2>2. /\ background' \in SUBSET Calls /\ c \notin background'
        /\ \A d \in Calls : d # c => (d \in background' <=> d \in background)
    BY <1>0, <1>1 DEF TypeInv
  <2>3. pc[c] \in {"running", "native"} /\ r \in {"ok", "transient", "failed"} /\ r \in Places
    BY <1>0, <1>1 DEF DispatchSettles, FrontInv, Outcome, Places
  <2> QED  BY <1>0, <1>1, <2>1, <2>2, <2>3, MovedInv
<1>2. CASE ReleaseForDiscard(c) /\ UNCHANGED <<pc, background>>
  <2>1. PoolEffect(Queued, {}) /\ closed' = closed
    BY <1>2 DEF ReleaseForDiscard, PoolEffect, Queued
  <2>2. /\ background' \in SUBSET Calls /\ c \in background'
        /\ \A d \in Calls : d # c => (d \in background' <=> d \in background)
        /\ aborted[c] \/ pc[c] \in {"running", "native"}
    BY <1>0, <1>2 DEF TypeInv, DispatchSettles, FrontInv
  <2>3. pc[c] \in Places /\ Move(c, pc[c])
    BY <1>0, <1>2 DEF TypeInv, Move
  <2>4. /\ pc[c] \in {"acquiring", "dropping"} => c \notin NativeCalls
        /\ pc[c] = "sleeping" => c \in RetryCalls /\ attempt[c] < MaxAttempts
    BY <1>0 DEF FrontInv
  <2> QED  BY <1>0, <2>1, <2>2, <2>3, <2>4, MovedInv
<1> QED  BY <1>1, <1>2 DEF DispatchSettles

LEMMA DispatchDiscardedInv ==
  ASSUME PoolInv, RuntimeInv, NEW c \in Calls, DispatchDiscarded(c)
  PROVE  RuntimeInv'
<1> DEFINE w == IF pc[c] = "running" THEN "failed" ELSE pc[c]
<1>0. /\ TypeInv /\ FrontInv /\ closer \in {"open", "draining", "drained"} /\ load = "verified"
      /\ c \notin Queued /\ Move(c, w)
      /\ UNCHANGED <<aborted, attempt, hostVars, activeCalls>>
  BY BackgroundFacts, QueuedFacts DEF RuntimeInv, DispatchDiscarded
<1>1. PoolEffect(Queued, {c}) /\ closed' = closed
  BY DiscardEffect DEF DispatchDiscarded, DiscardSettles
<1>2. /\ background' \in SUBSET Calls /\ c \notin background'
      /\ \A d \in Calls : d # c => (d \in background' <=> d \in background)
  BY <1>0 DEF TypeInv, DispatchDiscarded
<1>3. /\ w \in Places /\ (pc[c] = "idle" <=> w = "idle")
      /\ w \in {"acquiring", "dropping"} => c \notin NativeCalls
      /\ w = "sleeping" => c \in RetryCalls /\ attempt[c] < MaxAttempts
  BY <1>0 DEF TypeInv, FrontInv, Places, Outcome
<1> HIDE DEF w
<1> QED  BY <1>0, <1>1, <1>2, <1>3, MovedInv

LEMMA AdapterSettlesInv ==
  ASSUME PoolInv, RuntimeInv, NEW c \in Calls, AdapterSettles(c)
  PROVE  RuntimeInv'
<1>0. /\ TypeInv /\ FrontInv /\ closer \in {"open", "draining", "drained"} /\ load = "verified"
      /\ c \notin Queued /\ c \in NativeCalls /\ lease[c] = NoLease
      /\ UNCHANGED <<aborted, attempt, hostVars, activeCalls, poolVars>>
  BY BackgroundFacts DEF RuntimeInv, AdapterSettles, FrontInv
<1>1. PICK r \in Outcome : Move(c, IF pc[c] = "native" THEN r ELSE pc[c])
  BY DEF AdapterSettles
<1> DEFINE w == IF pc[c] = "native" THEN r ELSE pc[c]
<1>2. PoolEffect(Queued, {}) /\ closed' = closed
  BY <1>0, IdlePoolEffect
<1>3. /\ background' \in SUBSET Calls /\ c \notin background'
      /\ \A d \in Calls : d # c => (d \in background' <=> d \in background)
  BY <1>0 DEF TypeInv, AdapterSettles
<1>4. /\ w \in Places /\ (pc[c] = "idle" <=> w = "idle") /\ Move(c, w)
      /\ w \in {"acquiring", "dropping"} => c \notin NativeCalls
      /\ w = "sleeping" => c \in RetryCalls /\ attempt[c] < MaxAttempts
  BY <1>0, <1>1 DEF TypeInv, FrontInv, Places, Outcome
<1> HIDE DEF w
<1> QED  BY <1>0, <1>2, <1>3, <1>4, MovedInv

LEMMA BackoffInv ==
  ASSUME PoolInv, RuntimeInv, NEW c \in Calls, Backoff(c)
  PROVE  RuntimeInv'
<1>0. /\ TypeInv /\ FrontInv /\ closer \in {"open", "draining"} /\ load = "verified"
      /\ pc[c] = "transient" /\ c \notin Queued /\ Move(c, "sleeping")
      /\ c \in RetryCalls /\ attempt[c] < MaxAttempts
      /\ UNCHANGED <<aborted, attempt, hostVars, activeCalls, poolVars, background>>
  BY ActiveFacts DEF RuntimeInv, Backoff, CanRetry, FrontInv
<1>1. PoolEffect(Queued, {}) /\ closed' = closed
  BY <1>0, IdlePoolEffect
<1>2. /\ background' \in SUBSET Calls /\ "sleeping" \in Places
      /\ \A d \in Calls : d # c => (d \in background' <=> d \in background)
      /\ lease[c] # NoLease => c \in background'
      /\ c \in background' => aborted[c]
  BY <1>0 DEF TypeInv, FrontInv, Places, Racing
<1> QED  BY <1>0, <1>1, <1>2, MovedInv

LEMMA RetryInv ==
  ASSUME PoolInv, RuntimeInv, NEW c \in Calls, Retry(c)
  PROVE  RuntimeInv'
<1>0. /\ TypeInv /\ FrontInv /\ load = "verified" /\ pc[c] = "sleeping" /\ StartAttempt(c)
      /\ attempt' = [attempt EXCEPT ![c] = @ + 1]
      /\ UNCHANGED <<aborted, hostVars, activeCalls>>
  BY ActiveFacts DEF RuntimeInv, Retry
<1>1. /\ attempt \in [Calls -> 1..MaxAttempts] /\ MaxAttempts \in Nat
      /\ c \in RetryCalls /\ attempt[c] < MaxAttempts
  BY <1>0, RuntimeAssumption DEF TypeInv, FrontInv
<1>2. attempt[c] + 1 \in 1..MaxAttempts
  BY <1>1
<1>3. /\ attempt' \in [Calls -> 1..MaxAttempts] /\ attempt'[c] = attempt[c] + 1
      /\ \A d \in Calls : d # c => attempt'[d] = attempt[d]
  BY <1>0, <1>1, <1>2
<1>4. attempt'[c] <= IF c \in RetryCalls THEN MaxAttempts ELSE 1
  BY <1>1, <1>2, <1>3
<1> QED  BY <1>0, <1>3, <1>4, StartAttemptInv

(* The end of a call.                                                      *)
LEMMA FinishedCallInv ==
  ASSUME PoolInv, RuntimeInv, NEW c \in Calls, Finish(c), pc[c] # "idle",
         c \notin Queued, lease[c] # NoLease => c \in background,
         pc[c] \notin {"running", "native"},
         UNCHANGED <<poolVars, aborted, attempt, load, background>>,
         state' = state \/ load = "verified",
         state' \in {"idle", "loading", "ready", "degraded", "closing", "closed"}
  PROVE  RuntimeInv'
<1>0. /\ TypeInv /\ FrontInv /\ closer \in {"open", "draining"} /\ Move(c, "idle")
      /\ closer' \in {"draining", "drained"} \/ closer' = closer
  BY ActiveFacts DEF RuntimeInv, Finish
<1>1. PoolEffect(Queued, {}) /\ Queued \subseteq Calls /\ closed' = closed
  BY IdlePoolEffect, QueuedFacts
<1>2. FrontInv'
  <2>1. /\ c \in background' => aborted'[c]
        /\ attempt'[c] <= IF c \in RetryCalls THEN MaxAttempts ELSE 1
    BY <1>0 DEF FrontInv
  <2> QED  BY <1>0, <1>1, <2>1, FrontKept
<1>3. CountInv' /\ activeCalls' \in Nat
  BY CountFinished
<1>4. TypeInv'
  BY <1>0, <1>3 DEF TypeInv, Move, Places
<1>5. UnusedInv'
  <2>1. closer' # "open" => closer # "open"
    BY <1>0 DEF Finish
  <2> QED  BY <1>0, <2>1 DEF RuntimeInv, TypeInv, UnusedInv, Move, poolVars, slots, closing, Open
<1>6. CloserInv'
  BY <1>0, <1>1 DEF RuntimeInv, CloserInv
<1> QED  BY <1>2, <1>3, <1>4, <1>5, <1>6 DEF RuntimeInv

LEMMA FinishInv ==
  ASSUME PoolInv, RuntimeInv, NEW c \in Calls, Succeed(c) \/ Fail(c)
  PROVE  RuntimeInv'
<1>0. TypeInv /\ FrontInv
  BY DEF RuntimeInv
<1>1. CASE Succeed(c)
  <2>1. pc[c] = "ok" /\ load = "verified" /\ c \notin Queued /\ (lease[c] # NoLease => c \in background)
    BY <1>0, <1>1, ActiveFacts DEF Succeed, FrontInv
  <2> QED  BY <1>1, <2>1, FinishedCallInv DEF Succeed
<1>2. CASE Fail(c)
  <2>1. /\ pc[c] \in {"failed", "transient", "acquiring"} /\ c \notin Queued
        /\ lease[c] # NoLease => c \in background
    BY <1>0, <1>2 DEF Fail, FrontInv, AcquireFailed
  <2>2. state \in {"idle", "loading", "ready", "degraded", "closing", "closed"}
    BY <1>0 DEF TypeInv
  <2> QED  BY <1>2, <2>1, <2>2, FinishedCallInv DEF Fail
<1> QED  BY <1>1, <1>2

LEMMA AbortInv ==
  ASSUME PoolInv, RuntimeInv, NEW c \in Calls, Abort(c)
  PROVE  RuntimeInv'
<1>0. /\ TypeInv /\ FrontInv /\ closer \in {"open", "draining"} /\ pc[c] # "idle"
      /\ aborted' = [aborted EXCEPT ![c] = TRUE]
      /\ UNCHANGED <<attempt, hostVars, activeCalls, background>>
  BY ActiveFacts DEF RuntimeInv, Abort
<1>1. PoolEffect(Queued, {}) /\ closed' = closed /\ Queued \subseteq Calls
  BY AbortWaiterEffect, IdlePoolEffect, QueuedFacts DEF Abort, AbortWaiter
<1>2. PICK w : /\ Move(c, w)
               /\ \/ w = "failed" /\ pc[c] \in Racing \cup {"ok", "transient"}
                  \/ w = pc[c]
  <2>1. CASE Rejectable(c) /\ Move(c, "failed")
    BY <2>1 DEF Rejectable
  <2>2. CASE UNCHANGED pc
    <3>1. Move(c, pc[c])
      BY <2>2, <1>0 DEF Move, TypeInv
    <3> QED  BY <3>1
  <2> QED  BY <2>1, <2>2 DEF Abort
<1>3. /\ w \in Places /\ w # "idle" /\ aborted'[c]
      /\ \A d \in Calls : d # c => aborted'[d] = aborted[d]
  BY <1>0, <1>2 DEF TypeInv, Places, Outcome, Racing
<1>4. FrontInv'
  <2>1. c \in Queued => w = "acquiring" /\ c \notin NativeCalls
    BY <1>0, <1>2 DEF FrontInv, Racing
  <2>2. /\ lease[c] # NoLease => w \in {"acquiring", "dropping"} \/ c \in background'
        /\ w \in {"acquiring", "dropping"} => c \notin NativeCalls
        /\ w = "sleeping" => c \in RetryCalls /\ attempt'[c] < MaxAttempts
        /\ attempt'[c] <= IF c \in RetryCalls THEN MaxAttempts ELSE 1
    BY <1>0, <1>2 DEF FrontInv, Racing
  <2> QED  BY <1>0, <1>1, <1>2, <1>3, <2>1, <2>2, FrontKept
<1>5. CountInv'
  BY <1>0, <1>2, <1>3, CountKept DEF hostVars
<1>6. TypeInv'
  BY <1>0, <1>2, <1>3 DEF TypeInv, Move, hostVars
<1>7. UnusedInv'
  <2> SUFFICES ASSUME load # "verified" PROVE UnusedInv'
    BY <1>0 DEF UnusedInv, hostVars
  <2>1. UNCHANGED poolVars
    BY <1>0 DEF RuntimeInv, UnusedInv, Abort, Queued, Range
  <2>2. w \in {"loading", "failed"}
    BY <1>0, <1>2 DEF RuntimeInv, UnusedInv
  <2> QED  BY <1>0, <1>2, <2>1, <2>2
           DEF RuntimeInv, TypeInv, UnusedInv, Move, hostVars, poolVars, slots, closing, Open
<1>8. CloserInv'
  BY <1>0, <1>1 DEF RuntimeInv, CloserInv, hostVars
<1> QED  BY <1>4, <1>5, <1>6, <1>7, <1>8 DEF RuntimeInv

LEMMA InvokeInv ==
  ASSUME PoolInv, RuntimeInv, NEW c \in Calls, Invoke(c)
  PROVE  RuntimeInv'
<1>0. /\ TypeInv /\ FrontInv /\ pc[c] = "idle" /\ c \notin background /\ closer = "open"
      /\ Open /\ EnsureLoaded /\ Move(c, "loading") /\ activeCalls' = activeCalls + 1
      /\ aborted' = [aborted EXCEPT ![c] = FALSE] /\ attempt' = [attempt EXCEPT ![c] = 1]
      /\ UNCHANGED <<poolVars, background, closer>>
  BY DEF RuntimeInv, Invoke, shutdown
<1>1. PoolEffect(Queued, {}) /\ Queued \subseteq Calls /\ closed' = closed
  BY <1>0, IdlePoolEffect, QueuedFacts
<1>2. MaxAttempts \in Nat /\ MaxAttempts >= 1
  BY RuntimeAssumption
<1>3. /\ attempt'[c] = 1 /\ attempt' \in [Calls -> 1..MaxAttempts]
      /\ aborted' \in [Calls -> BOOLEAN]
      /\ \A d \in Calls : d # c => attempt'[d] = attempt[d] /\ aborted'[d] = aborted[d]
  BY <1>0, <1>2 DEF TypeInv
<1>4. FrontInv'
  <2>1. c \notin Queued /\ lease[c] = NoLease
    BY <1>0 DEF FrontInv
  <2>2. attempt'[c] <= IF c \in RetryCalls THEN MaxAttempts ELSE 1
    BY <1>2, <1>3
  <2> QED  BY <1>0, <1>1, <1>3, <2>1, <2>2, FrontKept
<1>5. CountInv'
  <2>1. Cardinality(Active) \in Nat /\ Cardinality(Active') = Cardinality(Active) + 1
    BY <1>0, ActiveMoves
  <2> QED  BY <1>0, <2>1 DEF RuntimeInv, CountInv, TypeInv
<1>6. TypeInv'
  BY <1>0, <1>3 DEF TypeInv, Move, EnsureLoaded, Places, Racing
<1>7. UnusedInv'
  BY <1>0 DEF RuntimeInv, TypeInv, UnusedInv, Move, EnsureLoaded, poolVars, slots, closing
<1>8. CloserInv'
  BY <1>0, <1>1 DEF RuntimeInv, CloserInv
<1> QED  BY <1>4, <1>5, <1>6, <1>7, <1>8 DEF RuntimeInv

(* FrontInv speaks of the fronts, their backs and the pool only.           *)
LEMMA FrontStays ==
  ASSUME RuntimeInv, UNCHANGED <<poolVars, callVars, background>>
  PROVE  FrontInv'
BY DEF RuntimeInv, FrontInv, poolVars, slots, callVars, Queued

(* The steps that involve no call.                                         *)
LEMMA HostInv ==
  ASSUME PoolInv, RuntimeInv,
         Preload \/ InvokeInvalid \/ CloseAdapters
           \/ \E ok \in BOOLEAN : LoadSettles(ok) \/ CloseDone(ok)
  PROVE  RuntimeInv'
<1>0. TypeInv /\ CountInv /\ UnusedInv /\ CloserInv
  BY DEF RuntimeInv
<1>1. UNCHANGED <<poolVars, callVars, background>>
  BY DEF Preload, InvokeInvalid, CloseAdapters, LoadSettles, CloseDone
<1>2. FrontInv' /\ closed' = closed /\ closePromise' = closePromise /\ Active' = Active
  BY <1>1, FrontStays DEF poolVars, closing, callVars, Active
<1>3. ASSUME load # "verified" PROVE
        /\ \A c \in Calls : pc'[c] \in {"idle", "loading", "failed"}
        /\ entries' = {} /\ creating' = {} /\ waiters' = <<>> /\ retiring' = {}
        /\ late' = {} /\ draining' = {} /\ background' = {} /\ closePromise' = "none"
  BY <1>0, <1>1, <1>3 DEF UnusedInv, poolVars, slots, closing, callVars
<1>4. Cardinality(Active) \in Nat
  BY PoolAssumption, FS_Subset, FS_CardinalityType DEF Active
<1>5. CASE Preload
  <2>1. /\ load = "none" /\ load' = "pending" /\ state' = "loading" /\ Open
        /\ UNCHANGED <<closer, activeCalls>>
    BY <1>5 DEF Preload, EnsureLoaded
  <2>2. closer = "open"
    BY <1>0, <2>1 DEF UnusedInv
  <2>3. TypeInv'
    BY <1>0, <1>1, <2>1 DEF TypeInv, callVars
  <2>4. CountInv' /\ UnusedInv' /\ CloserInv'
    BY <1>0, <1>2, <1>3, <2>1, <2>2 DEF CountInv, UnusedInv, CloserInv
  <2> QED  BY <1>2, <2>3, <2>4 DEF RuntimeInv
<1>6. CASE InvokeInvalid
  <2>1. activeCalls' = activeCalls + 1 /\ UNCHANGED <<closer, load, state>>
    BY <1>6 DEF InvokeInvalid, hostVars
  <2>2. TypeInv'
    BY <1>0, <1>1, <2>1 DEF TypeInv, callVars
  <2>3. CountInv'
    BY <1>0, <1>2, <1>4, <2>1 DEF CountInv, TypeInv
  <2>4. UnusedInv' /\ CloserInv'
    BY <1>0, <1>1, <1>2, <1>3, <2>1 DEF UnusedInv, CloserInv, Open
  <2> QED  BY <1>2, <2>2, <2>3, <2>4 DEF RuntimeInv
<1>7. CASE CloseAdapters
  <2>1. /\ closer = "pool" /\ closer' = "adapters" /\ closePromise \in {"resolved", "rejected"}
        /\ UNCHANGED <<state, load, activeCalls>>
    BY <1>7 DEF CloseAdapters
  <2>2. TypeInv'
    BY <1>0, <1>1, <2>1 DEF TypeInv, callVars
  <2>3. CountInv' /\ UnusedInv' /\ CloserInv'
    BY <1>0, <1>1, <1>2, <1>3, <2>1 DEF CountInv, UnusedInv, CloserInv, Open
  <2> QED  BY <1>2, <2>2, <2>3 DEF RuntimeInv
<1>8. ASSUME NEW ok \in BOOLEAN, LoadSettles(ok) PROVE RuntimeInv'
  <2>1. /\ load = "pending" /\ UNCHANGED <<closer, activeCalls>>
        /\ \/ load' = "verified" /\ state' = "ready"
           \/ load' = "failed" /\ state' = "degraded" /\ Open
           \/ load' = "failed" /\ state' = state
    BY <1>8 DEF LoadSettles
  <2>2. TypeInv'
    BY <1>0, <1>1, <2>1 DEF TypeInv, callVars
  <2>3. closer \in {"open", "draining", "drained"}
    BY <1>0, <2>1 DEF CloserInv, TypeInv
  <2>4. CountInv' /\ CloserInv'
    BY <1>0, <1>2, <2>1, <2>3 DEF CountInv, CloserInv
  <2>5. UnusedInv'
    BY <1>0, <1>3, <2>1 DEF UnusedInv, Open
  <2> QED  BY <1>2, <2>2, <2>4, <2>5 DEF RuntimeInv
<1>9. ASSUME NEW ok \in BOOLEAN, CloseDone(ok) PROVE RuntimeInv'
  <2>1. /\ closer = "adapters" /\ closer' \in {"resolved", "rejected"} /\ state' = "closed"
        /\ UNCHANGED <<load, activeCalls>>
    BY <1>9 DEF CloseDone
  <2>2. TypeInv'
    BY <1>0, <1>1, <2>1 DEF TypeInv, callVars
  <2>3. CountInv' /\ UnusedInv' /\ CloserInv'
    BY <1>0, <1>1, <1>2, <1>3, <2>1 DEF CountInv, UnusedInv, CloserInv, Open
  <2> QED  BY <1>2, <2>2, <2>3 DEF RuntimeInv
<1> QED  BY <1>5, <1>6, <1>7, <1>8, <1>9

LEMMA CloseInvStep ==
  ASSUME PoolInv, RuntimeInv, Close
  PROVE  RuntimeInv'
<1>0. /\ TypeInv /\ FrontInv /\ closer = "open"
      /\ closer' = (IF activeCalls = 0 THEN "drained" ELSE "draining") /\ state' = "closing"
      /\ aborted' = [c \in Calls |-> aborted[c] \/ pc[c] # "idle"]
      /\ UNCHANGED <<attempt, load, activeCalls, background>>
  BY DEF RuntimeInv, Close, shutdown
<1>1. PICK R \in SUBSET {c \in Calls : Rejectable(c) /\ ~aborted[c]} :
        /\ \A c \in Calls : c \in R \/ Due(c)
        /\ pc' = [c \in Calls |-> IF c \in R THEN "failed" ELSE pc[c]]
  BY DEF Close
<1>2. /\ \A c \in R : pc[c] \in {"loading", "running", "native", "sleeping", "ok", "transient"}
      /\ \A c \in Calls : pc'[c] = IF c \in R THEN "failed" ELSE pc[c]
  BY <1>1 DEF Rejectable, Racing
<1>3. PoolEffect(Queued, {}) /\ closed' = closed /\ Queued \subseteq Calls
  BY AbortEveryEffect, IdlePoolEffect, QueuedFacts DEF Close, AbortEveryWaiter
<1>4. Active' = Active
  BY <1>1, <1>2 DEF Active
<1>5. TypeInv'
  BY <1>0, <1>1 DEF TypeInv, Places, Outcome
<1>6. FrontInv'
  <2>1. \A c \in Queued' : pc'[c] = "acquiring"
    BY <1>0, <1>2, <1>3 DEF FrontInv, Queued, PoolEffect
  <2>2. ASSUME NEW c \in Calls PROVE lease'[c] = lease[c] \/ c \in Queued
    BY <1>3 DEF PoolEffect
  <2>3. ASSUME NEW c \in Calls
        PROVE  /\ lease'[c] # NoLease => pc'[c] \in {"acquiring", "dropping"} \/ c \in background'
               /\ lease'[c] # NoLease \/ pc'[c] \in {"acquiring", "dropping"} => c \notin NativeCalls
    BY <1>0, <1>2, <2>2 DEF FrontInv
  <2>4. ASSUME NEW c \in Calls
        PROVE  /\ pc'[c] = "sleeping" => c \in RetryCalls /\ attempt'[c] < MaxAttempts
               /\ attempt'[c] <= IF c \in RetryCalls THEN MaxAttempts ELSE 1
    BY <1>0, <1>2 DEF FrontInv
  <2>5. ASSUME NEW c \in Calls
        PROVE  c \in background' => aborted'[c] \/ pc'[c] \in {"running", "native"}
    <3>1. aborted'[c] = (aborted[c] \/ pc[c] # "idle")
      BY <1>0
    <3> QED  BY <1>0, <3>1 DEF FrontInv
  <2> QED  BY <2>1, <2>3, <2>4, <2>5 DEF FrontInv
<1>7. CountInv'
  <2>1. IsFiniteSet(Active) /\ Cardinality(Active) \in Nat
    BY PoolAssumption, FS_Subset, FS_CardinalityType DEF Active
  <2>2. activeCalls = 0 => Active = {}
    BY <2>1, FS_EmptySet DEF RuntimeInv, CountInv
  <2> QED  BY <1>0, <1>4, <2>2 DEF RuntimeInv, CountInv
<1>8. UnusedInv'
  <2> SUFFICES ASSUME load # "verified" PROVE UnusedInv'
    BY <1>0 DEF UnusedInv
  <2>1. UNCHANGED poolVars
    BY DEF RuntimeInv, UnusedInv, Close
  <2> QED  BY <1>0, <1>2, <2>1 DEF RuntimeInv, UnusedInv, poolVars, slots, closing, Open
<1>9. CloserInv'
  BY <1>0, <1>3 DEF RuntimeInv, CloserInv
<1> QED  BY <1>5, <1>6, <1>7, <1>8, <1>9 DEF RuntimeInv

LEMMA ClosePoolInv ==
  ASSUME PoolInv, RuntimeInv, ClosePool
  PROVE  RuntimeInv'
<1>0. /\ TypeInv /\ FrontInv /\ CountInv /\ UnusedInv /\ CloserInv
      /\ closer = "drained" /\ load # "pending" /\ background = {}
      /\ UNCHANGED <<callVars, state, load, activeCalls, background>>
  BY DEF RuntimeInv, ClosePool
<1>1. Active = {} /\ Active' = {}
  BY <1>0 DEF CountInv, Active, callVars
<1>2. CASE load = "verified" /\ PoolClose /\ closer' = "pool"
  <2>1. waiters' = <<>> /\ lease' = lease /\ Queued' = {}
    BY <1>2 DEF PoolClose, Queued, Range
  <2>2. FrontInv'
    BY <1>0, <2>1 DEF FrontInv, callVars
  <2>3. TypeInv'
    BY <1>0, <1>2 DEF TypeInv, callVars
  <2>4. CountInv' /\ UnusedInv' /\ CloserInv'
    BY <1>0, <1>1, <1>2 DEF CountInv, UnusedInv, CloserInv
  <2> QED  BY <2>2, <2>3, <2>4 DEF RuntimeInv
<1>3. CASE load # "verified" /\ UNCHANGED poolVars /\ closer' = "adapters"
  <2>1. FrontInv'
    BY <1>0, <1>3, FrontStays
  <2>2. TypeInv'
    BY <1>0, <1>3 DEF TypeInv, callVars
  <2>3. CountInv' /\ CloserInv'
    BY <1>0, <1>1, <1>3 DEF CountInv, CloserInv
  <2>4. UnusedInv'
    BY <1>0, <1>3 DEF UnusedInv, callVars, poolVars, slots, closing, Open
  <2> QED  BY <2>1, <2>2, <2>3, <2>4 DEF RuntimeInv
<1> QED  BY <1>2, <1>3 DEF ClosePool

LEMMA PoolSettlesInv ==
  ASSUME PoolInv, RuntimeInv, PoolSettles
  PROVE  RuntimeInv'
<1>0. /\ TypeInv /\ FrontInv /\ CountInv /\ UnusedInv /\ CloserInv
      /\ UNCHANGED <<pc, aborted, attempt, state, load, closer, activeCalls, background>>
  BY DEF RuntimeInv, PoolSettles, runtimeVars, callVars, hostVars
<1>1. PoolEffect(Queued, {}) /\ closed' = closed
  BY SettleEffect
<1>2. load = "verified"
  BY <1>0 DEF UnusedInv, PoolSettles, CreateFulfilled, CreateRejected, LateCloseSettles,
              SweepCloses, SweepDone
<1>3. closePromise \in {"resolved", "rejected"} => closePromise' = closePromise
  BY DEF PoolSettles, CreateFulfilled, CreateRejected, LateCloseSettles, SweepCloses, SweepDone, closing
<1>4. FrontInv'
  <2>1. \A c \in Queued' : pc'[c] = "acquiring"
    BY <1>0, <1>1 DEF FrontInv, Queued, PoolEffect
  <2>2. ASSUME NEW c \in Calls PROVE lease'[c] = lease[c] \/ c \in Queued
    BY <1>1 DEF PoolEffect
  <2> QED  BY <1>0, <2>1, <2>2 DEF FrontInv
<1>5. TypeInv' /\ CountInv'
  BY <1>0 DEF TypeInv, CountInv, Active
<1>6. UnusedInv' /\ CloserInv'
  BY <1>0, <1>1, <1>2, <1>3 DEF UnusedInv, CloserInv
<1> QED  BY <1>4, <1>5, <1>6 DEF RuntimeInv

(* Every step of the runtime keeps the invariant.                          *)
LEMMA RuntimeStepInv == PoolInv /\ RuntimeInv /\ [Next]_vars => RuntimeInv'
<1> SUFFICES ASSUME PoolInv, RuntimeInv, [Next]_vars PROVE RuntimeInv'
  OBVIOUS
<1>1. ASSUME NEW c \in Calls, Front(c) PROVE RuntimeInv'
  BY <1>1, LoadSeenInv, DispatchInv, DropSettlesInv, FinishInv, BackoffInv, RetryInv DEF Front
<1>2. ASSUME UNCHANGED vars PROVE RuntimeInv'
  BY <1>2 DEF vars, runtimeVars, callVars, hostVars, poolVars, slots, closing, RuntimeInv,
              TypeInv, FrontInv, CountInv, UnusedInv, CloserInv, Active, Queued, Open
<1> QED
  BY <1>1, <1>2, InvokeInv, AbortInv, HostInv, CloseInvStep, ClosePoolInv, PoolSettlesInv,
     DispatchSettlesInv, DispatchDiscardedInv, AdapterSettlesInv DEF Next

(* The runtime starts with the invariant.                                  *)
LEMMA RuntimeInitInv == RuntimeInit => RuntimeInv
<1> SUFFICES ASSUME RuntimeInit PROVE RuntimeInv
  OBVIOUS
<1>1. Active = {} /\ Cardinality(Active) = 0 /\ Queued = {}
  BY FS_EmptySet DEF RuntimeInit, Active, PoolInit, Queued, Range
<1>2. 1 \in 1..MaxAttempts
  BY RuntimeAssumption
<1>3. TypeInv /\ CountInv
  BY <1>1, <1>2 DEF RuntimeInit, TypeInv, CountInv, Places
<1>4. FrontInv
  BY <1>1, <1>2 DEF RuntimeInit, PoolInit, FrontInv
<1>5. UnusedInv /\ CloserInv
  BY DEF RuntimeInit, PoolInit, UnusedInv, CloserInv
<1> QED  BY <1>3, <1>4, <1>5 DEF RuntimeInv

-----------------------------------------------------------------------------
(* The two inductive invariants hold in every state of the runtime.        *)
THEOREM RuntimeInvariant == Spec => [](PoolInv /\ RuntimeInv)
<1>1. RuntimeInit => PoolInv /\ RuntimeInv
  BY PoolInitInv, RuntimeInitInv DEF RuntimeInit
<1>2. (PoolInv /\ RuntimeInv) /\ [Next]_vars => (PoolInv /\ RuntimeInv)'
  BY RuntimeStepIsPoolStep, PoolStepInv, RuntimeStepInv
<1> QED  BY <1>1, <1>2, PTL DEF Spec

(* Type correctness of GoforgeWasmRuntime and of the pool inside it.       *)
THEOREM RuntimeTypeCorrect == Spec => []RuntimeTypeOK
<1>1. PoolInv /\ RuntimeInv => RuntimeTypeOK
  BY DEF PoolInv, SlotInv, SlotsOK, SlotTypes, CloseInv, PoolTypeOK,
         RuntimeInv, TypeInv, Places, RuntimeTypeOK
<1> QED  BY <1>1, RuntimeInvariant, PTL

(* Whatever aborts, failures and retries do to invoke, an instance is held *)
(* only by an activity that will release it.                               *)
THEOREM NoLeaseOrphaned == Spec => []NoOrphanLease
<1>1. PoolInv /\ RuntimeInv => NoOrphanLease
  BY DEF RuntimeInv, FrontInv, NoOrphanLease
<1> QED  BY <1>1, RuntimeInvariant, PTL

(* close() reaches the pool only when no lease and no background work is   *)
(* left, and the adapters only when none of them executes.                 *)
THEOREM ShutdownOrdered == Spec => []ClosesAfterWork
<1>1. PoolInv /\ RuntimeInv => ClosesAfterWork
  <2> SUFFICES ASSUME PoolInv, RuntimeInv PROVE ClosesAfterWork
    OBVIOUS
  <2>1. FrontInv /\ CountInv /\ CloserInv
    BY DEF RuntimeInv
  <2>2. ASSUME closer \notin {"open", "draining", "drained"}
        PROVE  background = {} /\ \A c \in Calls : lease[c] = NoLease
    BY <2>1, <2>2 DEF FrontInv, CountInv, CloserInv, Active
  <2> QED  BY <2>1, <2>2 DEF CloserInv, ClosesAfterWork
<1> QED  BY <1>1, RuntimeInvariant, PTL

(* No call is attempted more often than its retry policy allows.           *)
THEOREM AttemptsAreBounded == Spec => []AttemptsBounded
<1>1. PoolInv /\ RuntimeInv => AttemptsBounded
  BY DEF RuntimeInv, FrontInv, AttemptsBounded
<1> QED  BY <1>1, RuntimeInvariant, PTL

(* When the promise of close() settles, no call, lease, creation or entry  *)
(* of the pool is left, whether or not the bundle was ever verified.       *)
THEOREM ClosedRuntimeQuiet == Spec => []ClosedRuntimeIsQuiet
<1>1. PoolInv /\ RuntimeInv => ClosedRuntimeIsQuiet
  <2> SUFFICES ASSUME PoolInv, RuntimeInv, closer \in {"resolved", "rejected"}
               PROVE  /\ entries = {} /\ creating = {} /\ draining = {} /\ retiring = {}
                      /\ \A c \in Calls : pc[c] = "idle" /\ lease[c] = NoLease
    BY DEF ClosedRuntimeIsQuiet
  <2>1. FrontInv /\ CountInv /\ CloserInv /\ UnusedInv
    BY DEF RuntimeInv
  <2>2. \A c \in Calls : pc[c] = "idle" /\ lease[c] = NoLease
    BY <2>1 DEF FrontInv, CountInv, CloserInv, Active
  <2>3. retiring = {}
    BY <2>2, QueuedFacts
  <2>4. CASE closePromise \in {"resolved", "rejected"}
    BY <2>2, <2>3, <2>4 DEF PoolInv, CloseInv
  <2>5. CASE load # "verified"
    BY <2>1, <2>2, <2>3, <2>5 DEF UnusedInv
  <2> QED  BY <2>1, <2>4, <2>5 DEF CloserInv
<1> QED  BY <1>1, RuntimeInvariant, PTL

(* An instance that served a cancelled or timed-out call is discarded when *)
(* its lease ends, never handed to the next call.                          *)
THEOREM CancelledInstancesDiscarded == Spec => CancelledInstanceDiscarded
<1> DEFINE Kept(c) == Leased(c) /\ aborted[c] => lease'[c] = lease[c]
<1>1. ASSUME PoolInv, RuntimeInv, [Next]_vars, NEW c \in Calls, Leased(c), aborted[c]
      PROVE  lease'[c] = lease[c]
  <2>0. c \notin Queued /\ c \notin retiring /\ lease[c] # NoLease
    BY <1>1, QueuedFacts DEF Leased
  <2>1. ASSUME NEW S, NEW d, PoolEffect(S, {d}), S \subseteq Queued \cup {d}, d # c
        PROVE  lease'[c] = lease[c]
    BY <2>0, <2>1 DEF PoolEffect
  <2>2. ASSUME NEW S, PoolEffect(S, {}), c \notin S PROVE lease'[c] = lease[c]
    BY <2>2 DEF PoolEffect
  <2>3. ASSUME UNCHANGED poolVars PROVE lease'[c] = lease[c]
    BY <2>3 DEF poolVars, slots
  <2>4. ASSUME NEW d \in Calls, StartAttempt(d) PROVE lease'[c] = lease[c]
    <3>1. CASE Acquire(d)
      <4>1. PoolEffect(Queued \cup {d}, {}) /\ c # d
        BY <1>1, <2>0, <3>1, AcquireEffect DEF Acquire
      <4> QED  BY <2>0, <2>2, <4>1
    <3>2. CASE UNCHANGED poolVars
      BY <3>2, <2>3
    <3> QED  BY <2>4, <3>1, <3>2 DEF StartAttempt
  <2>5. ASSUME NEW d \in Calls, ReleaseForDiscard(d) PROVE lease'[c] = lease[c]
    BY <2>5 DEF ReleaseForDiscard
  <2>6. ASSUME NEW d \in Calls, NEW ok \in BOOLEAN, DiscardSettles(d, ok) PROVE lease'[c] = lease[c]
    <3>1. d # c /\ PoolEffect(Queued, {d})
      BY <1>1, <2>0, <2>6, DiscardEffect DEF DiscardSettles
    <3> QED  BY <2>1, <3>1
  <2>7. ASSUME NEW d \in Calls, Front(d) PROVE lease'[c] = lease[c]
    <3>1. CASE LoadSeen(d) \/ Retry(d)
      BY <3>1, <2>3, <2>4 DEF LoadSeen, Retry
    <3>2. CASE Dispatch(d)
      BY <3>2, <2>3, <2>5 DEF Dispatch
    <3>3. CASE DropSettles(d)
      BY <3>3, <2>6 DEF DropSettles
    <3>4. CASE Succeed(d) \/ Backoff(d) \/ Fail(d)
      BY <3>4, <2>3 DEF Succeed, Backoff, Fail
    <3> QED  BY <2>7, <3>1, <3>2, <3>3, <3>4 DEF Front
  <2>8. ASSUME NEW d \in Calls, DispatchSettles(d) PROVE lease'[c] = lease[c]
    <3>1. CASE ~aborted[d] /\ ReleaseForReuse(d)
      <4>1. d # c /\ PoolEffect(Queued, {d})
        BY <1>1, <3>1, ReuseEffect
      <4> QED  BY <2>1, <4>1
    <3>2. CASE ReleaseForDiscard(d)
      BY <3>2, <2>5
    <3> QED  BY <2>8, <3>1, <3>2 DEF DispatchSettles
  <2>9. ASSUME NEW d \in Calls, DispatchDiscarded(d) \/ AdapterSettles(d) PROVE lease'[c] = lease[c]
    BY <2>9, <2>3, <2>6 DEF DispatchDiscarded, AdapterSettles
  <2>10. ASSUME NEW d \in Calls, Invoke(d) \/ Abort(d) PROVE lease'[c] = lease[c]
    <3>1. CASE AbortWaiter(d)
      BY <1>1, <2>0, <2>2, <3>1, AbortWaiterEffect
    <3>2. CASE UNCHANGED poolVars
      BY <3>2, <2>3
    <3> QED  BY <2>10, <3>1, <3>2 DEF Invoke, Abort
  <2>11. ASSUME Close \/ ClosePool PROVE lease'[c] = lease[c]
    BY <2>11, <2>3 DEF Close, ClosePool, AbortEveryWaiter, PoolClose
  <2>12. ASSUME PoolSettles PROVE lease'[c] = lease[c]
    BY <1>1, <2>0, <2>2, <2>12, SettleEffect
  <2>13. ASSUME Preload \/ InvokeInvalid \/ CloseAdapters
                  \/ \E ok \in BOOLEAN : LoadSettles(ok) \/ CloseDone(ok)
         PROVE  lease'[c] = lease[c]
    BY <2>13, <2>3 DEF Preload, InvokeInvalid, CloseAdapters, LoadSettles, CloseDone
  <2> QED
    BY <1>1, <2>3, <2>7, <2>8, <2>9, <2>10, <2>11, <2>12, <2>13 DEF Next, vars
<1>2. PoolInv /\ RuntimeInv /\ [Next]_vars => [\A c \in Calls : Kept(c)]_vars
  BY <1>1
<1> QED  BY <1>2, RuntimeInvariant, PTL DEF Spec, CancelledInstanceDiscarded


-----------------------------------------------------------------------------
(* What the pool promises of leases it keeps under invoke, preload and     *)
(* close().                                                                *)

(* Whatever calls, retries, aborts and the shutdown do, an instance serves *)
(* one call at a time: the runtime, too, implements Lending.               *)
THEOREM RuntimeLends == Spec => LendsInstances
<1> QED  BY RuntimeRefinesPool, PoolLends DEF PoolRefined

(* Calls get their instances in the order in which they asked, across      *)
(* retries, aborts and failed creations.                                   *)
THEOREM RuntimeIsFifo == Spec => FifoGrant
<1> QED  BY RuntimeRefinesPool, PoolIsFifo DEF PoolRefined

(* Under the runtime, too, no call waits for an instance that the pool     *)
(* could give or create: no handler of invoke forgets to pump.             *)
THEOREM RuntimeLosesNoWakeup == Spec => []NoLostWakeup
<1> QED  BY RuntimeRefinesPool, WakeupsNotLost DEF PoolRefined
=============================================================================
