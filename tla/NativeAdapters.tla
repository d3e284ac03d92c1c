--------------------------- MODULE NativeAdapters ---------------------------
(***************************************************************************)
(* Native adapters (src/wasm/adapters.ts) and their qualification          *)
(* (qualifyNativeAdapter of src/wasm/native.ts).  An adapter is an object  *)
(* with an identity; of its implementation the model keeps the operations  *)
(* whose shared vectors it reproduces.  A copy of an adapter is an object  *)
(* of its own, but shares the array of operations and the function with    *)
(* the adapter it was copied from.                                         *)
(***************************************************************************)
EXTENDS Naturals, FiniteSets

CONSTANTS
  Adapters,       \* identities of adapter objects
  Names,          \* adapter names, numbers in their order
  PortableOps,    \* GOFORGE_ABI_V1_OPERATIONS
  Literals,       \* the arrays of operations an application writes, as sets
  Functions,      \* the sets of operations a function may reproduce
  Allowlist,      \* operation -> the names its manifest entry approves
  NoAdapter       \* no entry

VARIABLES
  object,       \* the adapter objects made so far
  qualifying,   \* the calls of qualifyNativeAdapter, by the copy they may make
  ledger,       \* qualificationLedger
  vouched,      \* adapters that are qualified by the application's word alone
  registry,     \* #adapters: name -> adapter
  closing,      \* #closed, and whether close() has ended
  left,         \* the names close() has still to reach
  released,     \* adapters whose close was called
  owed,         \* the adapters registered when close() began
  routed        \* the <<adapter, operation>> pair resolve has just returned

objectVars   == <<object, qualifying, ledger, vouched>>
registryVars == <<registry, closing, left, released, owed>>
adapterVars  == <<objectVars, registryVars, routed>>

Kinds    == {"native", "written", "copy"}
NoObject == [made |-> "not", name |-> 0, origin |-> NoAdapter, operations |-> {},
             parityQualified |-> FALSE, faithful |-> {}]
NoRun    == [of |-> NoAdapter, covered |-> {}, failed |-> FALSE]

AdapterInit ==
  /\ object = [a \in Adapters |-> NoObject] /\ qualifying = [a \in Adapters |-> NoRun]
  /\ ledger = {} /\ vouched = {}
  /\ registry = [n \in Names |-> NoAdapter]
  /\ closing = "open" /\ left = {} /\ released = {} /\ owed = {} /\ routed = {}

RegistryOpen  == closing = "open"
Registered    == {registry[n] : n \in Names} \ {NoAdapter}
Made(a)       == object[a] # NoObject
Free(a)       == ~Made(a) /\ qualifying[a] = NoRun
Claims(a)     == object[object[a].origin].operations
Reproduces(a) == object[object[a].origin].faithful

Original(a, made, n, ops, q, f) ==
  [made |-> made, name |-> n, origin |-> a, operations |-> ops, parityQualified |-> q, faithful |-> f]

\* createNativeGoforgeAdapter: every operation, not qualified; the object and
\* its array are frozen.
CreateNative(a) ==
  /\ Free(a)
  /\ \E n \in Names, f \in Functions :
       object' = [object EXCEPT ![a] = Original(a, "native", n, PortableOps, FALSE, f)]
  /\ UNCHANGED <<qualifying, ledger, vouched, registryVars>>

\* An adapter object the application writes itself, whatever it declares.
Declare(a) ==
  /\ Free(a)
  /\ \E n \in Names, ops \in Literals, q \in BOOLEAN, f \in Functions :
       object' = [object EXCEPT ![a] = Original(a, "written", n, ops, q, f)]
  /\ UNCHANGED <<qualifying, ledger, vouched, registryVars>>

CopiesOf(a) == {b \in Adapters : object[b].made = "copy" /\ object[b].origin = a}
RunsOn(a)   == {b \in Adapters : /\ qualifying[b] # NoRun /\ object[qualifying[b].of].origin = a}

\* The application changes the array of operations of an adapter it wrote.
\* What was copied from it meanwhile changes with it.
ChangeOperations(a) ==
  /\ object[a].made = "written"
  /\ \E ops \in Literals : object' = [object EXCEPT ![a].operations = ops]
  /\ vouched' = vouched \cup CopiesOf(a)
  /\ UNCHANGED <<qualifying, ledger, registryVars>>

\* The function of an adapter the application wrote does something else now.
ChangeInvoke(a) ==
  /\ object[a].made = "written"
  /\ \E f \in Functions : object' = [object EXCEPT ![a].faithful = f]
  /\ vouched' = vouched \cup CopiesOf(a) \cup RunsOn(a)
  /\ UNCHANGED <<qualifying, ledger, registryVars>>

\* It flips the flag, which a frozen object does not let it do.
ChangeFlag(a) ==
  /\ object[a].made = "written"
  /\ object' = [object EXCEPT ![a].parityQualified = ~@]
  /\ UNCHANGED <<qualifying, ledger, vouched, registryVars>>

\* qualifyNativeAdapter, to its first await: it has vectors to replay.
BeginQualify(a, b) ==
  /\ Made(a) /\ Free(b)
  /\ qualifying' = [qualifying EXCEPT ![b] = [NoRun EXCEPT !.of = a]]
  /\ UNCHANGED <<object, ledger, vouched, registryVars>>

\* The answer to one vector, which is for a portable operation.
RunVector(b) ==
  LET run == qualifying[b]
  IN  /\ run # NoRun
      /\ \E op \in PortableOps :
           qualifying' = [qualifying EXCEPT ![b] = IF op \in Reproduces(run.of) THEN [run EXCEPT !.covered = @ \cup {op}]
                                                    ELSE [run EXCEPT !.failed = TRUE]]
      /\ UNCHANGED <<object, ledger, vouched, registryVars>>

\* A plausible slip: an operation without a vector is taken as covered.
PassesUncovered(run) == ~run.failed

\* Every vector was reproduced, and every operation claimed by now had one.
Passes(run) == ~run.failed /\ Claims(run.of) \subseteq run.covered

\* The end of qualifyNativeAdapter: a frozen copy b, which
\* recordParityQualification records, or an error.
EndQualify(b) ==
  LET run == qualifying[b]
  IN  /\ run # NoRun /\ (run.covered # {} \/ run.failed)
      /\ qualifying' = [qualifying EXCEPT ![b] = NoRun]
      /\ IF Passes(run)
         THEN /\ object' = [object EXCEPT ![b] = [NoObject EXCEPT !.made = "copy", !.parityQualified = TRUE,
                                                    !.name = object[run.of].name, !.origin = object[run.of].origin]]
              /\ ledger' = ledger \cup {b} /\ vouched' = vouched
         ELSE /\ vouched' = vouched \ {b}
              /\ UNCHANGED <<object, ledger>>
      /\ UNCHANGED registryVars

\* recordParityQualification, called by the application itself.
Record(a) ==
  /\ Made(a) /\ object[a].parityQualified
  /\ ledger' = ledger \cup {a}
  /\ vouched' = IF a \in ledger THEN vouched ELSE vouched \cup {a}
  /\ UNCHANGED <<object, qualifying, registryVars>>

\* isParityQualified
IsParityQualified(a) == a \in ledger

\* validateAdapter
Acceptable(a) ==
  /\ Claims(a) # {} /\ Claims(a) \subseteq PortableOps
  /\ object[a].parityQualified => IsParityQualified(a)

Register(a) ==
  /\ RegistryOpen /\ Made(a) /\ Acceptable(a)
  /\ registry[object[a].name] = NoAdapter
  /\ registry' = [registry EXCEPT ![object[a].name] = a]
  /\ UNCHANGED <<objectVars, closing, left, released, owed>>

Unregister(n) ==
  /\ RegistryOpen /\ registry[n] # NoAdapter
  /\ registry' = [registry EXCEPT ![n] = NoAdapter]
  /\ UNCHANGED <<objectVars, closing, left, released, owed>>

Resolve(n, op) ==
  LET a == registry[n]
  IN  /\ RegistryOpen /\ a # NoAdapter
      /\ n \in Allowlist[op] /\ op \in Claims(a)
      /\ object[a].parityQualified /\ IsParityQualified(a)
      /\ routed' = {<<a, op>>}
      /\ UNCHANGED <<objectVars, registryVars>>

\* close: closed at once, then the adapters are closed in order of name.
Close ==
  /\ RegistryOpen
  /\ left' = {n \in Names : registry[n] # NoAdapter}
  /\ closing' = "closing"
  /\ owed' = Registered
  /\ UNCHANGED <<objectVars, registry, released>>

\* A plausible slip: the first failure ends the loop.
AfterFailureStops(rest) == {}

\* A failure is kept for the end.
AfterFailure(rest) == rest

CloseNext ==
  /\ closing = "closing"
  /\ \E n \in left :
       /\ \A m \in left : n <= m
       /\ released' = released \cup {registry[n]}
       /\ left' \in {left \ {n}, AfterFailure(left \ {n})}
  /\ UNCHANGED <<objectVars, registry, closing, owed>>

CloseEnds ==
  /\ closing = "closing" /\ left = {}
  /\ closing' = "closed" /\ registry' = [n \in Names |-> NoAdapter]
  /\ UNCHANGED <<objectVars, left, released, owed>>

AdapterNext ==
  /\ \/ \E a \in Adapters :
          \/ CreateNative(a) \/ Declare(a)
          \/ ChangeOperations(a) \/ ChangeInvoke(a) \/ ChangeFlag(a)
          \/ RunVector(a) \/ EndQualify(a) \/ Record(a) \/ Register(a)
          \/ \E b \in Adapters : BeginQualify(a, b)
     \/ \E n \in Names : Unregister(n)
     \/ Close \/ CloseNext \/ CloseEnds
  /\ routed' = {}

-----------------------------------------------------------------------------
(* Properties.                                                             *)

(***************************************************************************)
(* An operation is routed only to an adapter the manifest names and whose  *)
(* qualification replayed a vector of that very operation: neither a       *)
(* declaration, a copy of a qualified adapter, a replaced registration,    *)
(* vectors that miss the operation nor operations added between two        *)
(* vectors get another one past the registry.  The exceptions are the      *)
(* application's own: it records an adapter as qualified itself, changes   *)
(* what the function of one does after its qualification has begun, or     *)
(* changes the array of operations that a qualified copy shares with the   *)
(* adapter it wrote, for the copy is frozen but its array is not.          *)
(***************************************************************************)
RoutedMeansQualified ==
  \A r \in routed : /\ object[r[1]].name \in Allowlist[r[2]]
                    /\ r[1] \notin vouched => r[2] \in Reproduces(r[1])

(***************************************************************************)
(* When close() is over, every adapter that was registered when it began   *)
(* has been closed, though others failed to close, and none is left in the *)
(* registry.                                                               *)
(***************************************************************************)
CloseReachesEveryAdapter == closing = "closed" => owed = released /\ Registered = {}

=============================================================================
