------------------------------ MODULE Cryptoki ------------------------------
(***************************************************************************)
(* The FFI binding of src/encrypt/pkcs11/ffi.ts: how the methods of        *)
(* FfiModule drive the C functions on one session.  A method is            *)
(* synchronous, but each C function is a step of its own, because other    *)
(* processes change the token in between and any call may fail.  The       *)
(* search, the size-then-fill convention and the attribute arrays are      *)
(* modelled by the lengths and values they hand over, not by their bytes.  *)
(***************************************************************************)
EXTENDS Integers, Sequences, FiniteSets

CONSTANTS
  Objects,     \* object handles
  Types,       \* attribute types a read asks for
  FindBatch,   \* FIND_BATCH
  MaxLength,   \* bound on the length of a value
  MaxChanges   \* bound on what other processes do

\* A token has finitely many objects, and a batch is of at least one.
ASSUME CryptokiAssumption == IsFiniteSet(Objects) /\ FindBatch \in Nat \ {0} /\ MaxLength \in Nat

VARIABLES
  present,     \* external: the handles on the token
  value,       \* external: type -> the attribute of the object being read
  active,      \* external: the operation active on the session
  cursor,      \* external: what the search has still to return
  method,      \* the method under way, and its locals
  result,      \* what the last method returned, or threw
  changes      \* external: how often another process changed the token

cryptokiVars == <<present, value, active, cursor, method, result, changes>>

tokenState == <<present, value, changes>>

\* A length of -1 is CK_UNAVAILABLE_INFORMATION; data 0 is a zeroed buffer.
Unavailable == -1
NoAttribute == [length |-> Unavailable, data |-> 0]

NoMethod == [name |-> "none"]
Threw == [name |-> "threw"]

CryptokiInit ==
  /\ present \in SUBSET Objects
  /\ value \in [Types -> {NoAttribute} \cup [length : 0 .. MaxLength, data : {1}]]
  /\ active = "none" /\ cursor = <<>>
  /\ method = NoMethod /\ result = NoMethod /\ changes = 0

\* check: a code other than CKR_OK is thrown, and the method is over.
Return(r) == method' = NoMethod /\ result' = r
Throw     == Return(Threw)
Continue(m) == method' = m /\ result' = NoMethod

Begin(m) == method = NoMethod /\ Continue(m)

-----------------------------------------------------------------------------
(* findObjects.                                                            *)

\* external: the order in which the token lists its objects, each once.
Listing(handles) ==
  CHOOSE q \in [1 .. Cardinality(handles) -> handles] : \A i, j \in DOMAIN q : q[i] = q[j] => i = j

FindInit ==
  /\ Begin([name |-> "find", pc |-> "next", handles |-> <<>>, failed |-> FALSE, wanted |-> Listing(present)])
  /\ active = "none" /\ active' = "find"
  /\ cursor' = Listing(present)
  /\ UNCHANGED tokenState

\* The token has an operation active already, or fails: nothing was begun.
InitFails ==
  /\ method = NoMethod
  /\ Throw
  /\ UNCHANGED <<tokenState, active, cursor>>

\* The loop goes on while the batches are full.
GoesOnWhenEmpty(found) == found = 0
MoreToFind(found) == found >= FindBatch

FindObjects ==
  LET found == IF Len(cursor) < FindBatch THEN Len(cursor) ELSE FindBatch
  IN  /\ method.name = "find" /\ method.pc = "next"
      /\ \/ /\ Continue([method EXCEPT !.handles = @ \o SubSeq(cursor, 1, found),
                                       !.pc = IF MoreToFind(found) THEN "next" ELSE "final"])
            /\ cursor' = SubSeq(cursor, found + 1, Len(cursor))
         \/ Continue([method EXCEPT !.failed = TRUE, !.pc = "final"]) /\ UNCHANGED cursor
      /\ UNCHANGED <<tokenState, active>>

\* A plausible slip: the search is closed only when it succeeds.
FindFinalOnSuccess ==
  /\ method.name = "find" /\ method.pc = "final"
  /\ active' = IF method.failed THEN active ELSE "none"
  /\ cursor' = <<>>
  /\ Return(IF method.failed THEN Threw ELSE [name |-> "found", handles |-> method.handles,
                                              wanted |-> method.wanted])
  /\ UNCHANGED tokenState

\* The finally block: the search is closed whatever happened.
FindFinal ==
  /\ method.name = "find" /\ method.pc = "final"
  /\ active' = "none" /\ cursor' = <<>>
  /\ Return(IF method.failed THEN Threw ELSE [name |-> "found", handles |-> method.handles,
                                              wanted |-> method.wanted])
  /\ UNCHANGED tokenState

-----------------------------------------------------------------------------
(* encrypt, decrypt and sign, over twoPhase; verify.                       *)

TransformInit ==
  /\ Begin([name |-> "transform", pc |-> "size", size |-> 0])
  /\ active = "none" /\ active' = "transform"
  /\ UNCHANGED <<tokenState, cursor>>

\* The size the token announces is enough, though it may be too much.
TransformSize ==
  /\ method.name = "transform" /\ method.pc = "size"
  /\ \/ /\ \E size \in 0 .. MaxLength : Continue([method EXCEPT !.size = size, !.pc = "fill"])
        /\ UNCHANGED active
     \/ Throw /\ active' = "none"
  /\ UNCHANGED <<tokenState, cursor>>

\* Of the buffer, the length the second call reported is returned.
Sliced(size, length) == length

TransformFill ==
  /\ method.name = "transform" /\ method.pc = "fill"
  /\ \/ \E length \in 0 .. method.size :
          Return([name |-> "output", length |-> Sliced(method.size, length), produced |-> length])
     \/ Throw
  /\ active' = "none"
  /\ UNCHANGED <<tokenState, cursor>>

VerifyInit ==
  /\ Begin([name |-> "verify", pc |-> "verify"])
  /\ active = "none" /\ active' = "verify"
  /\ UNCHANGED <<tokenState, cursor>>

\* An invalid signature is an error like any other.
VerifyOnce ==
  /\ method.name = "verify"
  /\ active' = "none"
  /\ Throw \/ Return([name |-> "verified"])
  /\ UNCHANGED <<tokenState, cursor>>

-----------------------------------------------------------------------------
(* getAttributes.                                                          *)

\* The first call.  Its code is ignored: where it failed the lengths are 0.
GetSizes ==
  /\ \E sizes \in {[t \in Types |-> value[t].length], [t \in Types |-> 0]} :
       Begin([name |-> "get", pc |-> "fill", sizes |-> sizes])
  /\ UNCHANGED <<tokenState, active, cursor>>

\* What the token writes for one attribute into a buffer of that size.
Filled(t, size) ==
  IF size = Unavailable \/ value[t].length = Unavailable \/ value[t].length > size
  THEN NoAttribute ELSE value[t]

\* What is left where it writes nothing: the length asked for, zeroed bytes.
Unwritten(size) == IF size = Unavailable THEN NoAttribute ELSE [length |-> size, data |-> 0]

\* What the method makes of an attribute the second call has filled in.
Reported(t, size) == Filled(t, size)

\* The second call, left out when nothing is wanted; its code is ignored too.
GetFill ==
  /\ method.name = "get"
  /\ \/ Return([name |-> "attributes", real |-> TRUE, token |-> value,
                attributes |-> [t \in Types |-> Reported(t, method.sizes[t])]])
     \/ Return([name |-> "attributes", real |-> FALSE, token |-> value,
                attributes |-> [t \in Types |-> Unwritten(method.sizes[t])]])
  /\ UNCHANGED <<tokenState, active, cursor>>

-----------------------------------------------------------------------------
(* Methods of one call, and the other processes.                           *)

\* One C function, done or thrown (InitFails).
CallOnce(newPresent, newValue) ==
  /\ method = NoMethod
  /\ present' = newPresent /\ value' = newValue
  /\ Return([name |-> "done"])
  /\ UNCHANGED <<active, cursor, changes>>

\* openSession, closeSession, login, logout.
SessionCall == CallOnce(present, value)

\* setAttributes: the template as a whole.
SetAttributes ==
  \E v \in [Types -> [length : 1 .. MaxLength, data : {1}]] :
    CallOnce(present, [t \in Types |-> IF value[t] = NoAttribute THEN NoAttribute ELSE v[t]])

DestroyObject == \E o \in present : CallOnce(present \ {o}, value)

\* generateKey and deriveKey make one object, generateKeyPair two.
GenerateOrDerive ==
  \E new \in SUBSET (Objects \ present) : Cardinality(new) \in 1 .. 2 /\ CallOnce(present \cup new, value)

OtherProcess ==
  /\ changes < MaxChanges
  /\ changes' = changes + 1
  /\ \/ /\ \E t \in Types, length \in Unavailable .. MaxLength :
             value' = [value EXCEPT ![t] = IF length = Unavailable THEN NoAttribute
                                           ELSE [length |-> length, data |-> changes + 2]]
        /\ UNCHANGED present
     \/ \E o \in Objects : present' = (present \ {o}) \cup ({o} \ present) /\ UNCHANGED value
  /\ UNCHANGED <<active, cursor, method>> /\ result' = NoMethod

CryptokiNext ==
  \/ FindInit \/ InitFails \/ FindObjects \/ FindFinal
  \/ TransformInit \/ TransformSize \/ TransformFill \/ VerifyInit \/ VerifyOnce
  \/ GetSizes \/ GetFill \/ SessionCall \/ SetAttributes \/ DestroyObject \/ GenerateOrDerive \/ OtherProcess

-----------------------------------------------------------------------------
(* Properties.                                                             *)

(***************************************************************************)
(* Whatever a method did and however it failed, it leaves no operation     *)
(* active on the session it gives back to the pool: the next search,       *)
(* signature or decryption on it would be refused.                         *)
(***************************************************************************)
SessionLeftIdle == method = NoMethod => active = "none" /\ cursor = <<>>

(***************************************************************************)
(* What a method returns is what the token said: a search returns every    *)
(* object there was when it began, once and in order, however many batches *)
(* that takes; an output has the length the token produced; an attribute   *)
(* read while another process changes it has its present value or is       *)
(* absent, never the bytes of one value with the length of another.  The   *)
(* exception is a second C_GetAttributeValue that fails as a whole.        *)
(***************************************************************************)
ResultsAreTheTokens ==
  /\ result.name = "found" => result.handles = result.wanted
  /\ result.name = "output" => result.length = result.produced
  /\ result.name = "attributes" /\ result.real =>
       \A t \in Types : result.attributes[t] \in {result.token[t], NoAttribute}

=============================================================================
