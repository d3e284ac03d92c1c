--------------------------- MODULE ModuleRegistry ---------------------------
(***************************************************************************)
(* The library and slot caches of src/encrypt/pkcs11/session.ts over the   *)
(* loading, initializing, listing and finalizing of src/encrypt/pkcs11/    *)
(* ffi.ts.  The registry maps a path to the promise of an entry, an entry  *)
(* maps a token selector to the promise of a SlotState; calls share both,  *)
(* releaseModule takes an entry away and may finalize the library.         *)
(*                                                                         *)
(* The paths of the model all name one library, as paths do that realPath  *)
(* cannot collapse: what C_Initialize and C_Finalize do is shared.  The    *)
(* pool of a SlotState is SessionPool's subject.                           *)
(***************************************************************************)
EXTENDS Naturals, Sequences, FiniteSets

CONSTANTS
  Lookups,     \* the calls of withSession
  Releases,    \* the calls of releaseModule
  Paths,       \* registry keys
  Selectors,   \* token labels and slot ids, all of one token
  PoolSize,    \* the configured bound
  TokenMax,    \* the token's own, or 0 where it states none
  MaxSlots     \* bound on the slots the library lists

\* The bounds are numbers; a token that states none has 0.
ASSUME RegistryAssumption == PoolSize \in Nat /\ TokenMax \in Nat /\ MaxSlots \in Nat

VARIABLES
  registry,    \* path -> index of its entry, or 0
  entries,     \* the entries ever made, oldest first
  states,      \* the SlotStates ever made, oldest first
  lookups,     \* where each call is, and what it got
  releases,    \* where each release is, and what it took
  initialized, \* external: the library is initialized
  clobbered,   \* history: a failed load has removed a newer entry of its path
  overlapped   \* history: a finalize came under another live entry

registryVars == <<registry, entries, states, lookups, releases, initialized, clobbered, overlapped>>

\* A call that holds neither an entry nor a slot.
Idling(pc) == [pc |-> pc, path |-> "none", selector |-> "none", entry |-> 0, state |-> 0]

RegistryInit ==
  /\ registry = [p \in Paths |-> 0]
  /\ entries = <<>> /\ states = <<>>
  /\ lookups = [c \in Lookups |-> Idling("idle")]
  /\ releases = [r \in Releases |-> [pc |-> "idle", entry |-> 0, finalize |-> FALSE]]
  /\ initialized = FALSE
  /\ clobbered = {} /\ overlapped = FALSE

-----------------------------------------------------------------------------
(* acquireModule.                                                          *)

\* The call joins the promise that is registered, or registers its own.
AcquireModule(c, p, s) ==
  LET fresh == registry[p] = 0
      e     == IF fresh THEN Len(entries) + 1 ELSE registry[p]
  IN  /\ lookups[c].pc = "idle"
      /\ registry' = [registry EXCEPT ![p] = e]
      /\ entries' = IF fresh THEN Append(entries, [path |-> p, pc |-> "loading",
                                                   slots |-> [x \in Selectors |-> 0]])
                    ELSE entries
      /\ lookups' = [lookups EXCEPT ![c] = [@ EXCEPT !.pc = "entry", !.path = p, !.selector = s, !.entry = e]]
      /\ UNCHANGED <<states, releases, initialized, clobbered, overlapped>>

\* A library that is initialized already is as good as one just initialized.
Initialize(e) ==
  /\ initialized' = TRUE
  /\ entries' = [entries EXCEPT ![e].pc = "ready"]

\* loadModule, bindFunctionList and initialize, any of which may fail.
LoadSettles(e) ==
  /\ entries[e].pc = "loading"
  /\ \/ Initialize(e)
     \/ entries' = [entries EXCEPT ![e].pc = "failing"] /\ UNCHANGED initialized
  /\ UNCHANGED <<registry, states, lookups, releases, clobbered, overlapped>>

\* entry.catch: what is registered for the path by now goes, whosever it is.
ForgetFailed(e) ==
  LET p == entries[e].path
  IN  /\ entries[e].pc = "failing"
      /\ registry' = [registry EXCEPT ![p] = 0]
      /\ entries' = [entries EXCEPT ![e].pc = "failed"]
      /\ clobbered' = IF registry[p] \notin {0, e} THEN clobbered \cup {p} ELSE clobbered
      /\ UNCHANGED <<states, lookups, releases, initialized, overlapped>>

-----------------------------------------------------------------------------
(* resolveSlot.                                                            *)

\* The bound of the pool: the token's ceiling wins where it is lower.
Bound == IF TokenMax > 0 /\ TokenMax < PoolSize THEN TokenMax ELSE PoolSize

NewState(e, s) == [entry |-> e, selector |-> s, pc |-> "listing", total |-> 0, bound |-> 0]

\* A plausible slip: the cache holds the SlotState, not its promise.
ResolveSlotUncached(c) ==
  LET k == lookups[c]
      n == Len(states) + 1
  IN  /\ k.pc = "entry" /\ entries[k.entry].pc = "ready"
      /\ states' = Append(states, NewState(k.entry, k.selector))
      /\ lookups' = [lookups EXCEPT ![c] = [@ EXCEPT !.pc = "slot", !.state = n]]
      /\ UNCHANGED <<registry, entries, releases, initialized, clobbered, overlapped>>

\* The entry has resolved: the call joins the selector's promise or makes it.
ResolveSlot(c) ==
  LET k     == lookups[c]
      known == entries[k.entry].slots[k.selector]
      n     == IF known = 0 THEN Len(states) + 1 ELSE known
  IN  /\ k.pc = "entry" /\ entries[k.entry].pc = "ready"
      /\ entries' = [entries EXCEPT ![k.entry].slots[k.selector] = n]
      /\ states' = IF known = 0 THEN Append(states, NewState(k.entry, k.selector)) ELSE states
      /\ lookups' = [lookups EXCEPT ![c] = [@ EXCEPT !.pc = "slot", !.state = n]]
      /\ UNCHANGED <<registry, releases, initialized, clobbered, overlapped>>

EntryFailed(c) ==
  /\ lookups[c].pc = "entry" /\ entries[lookups[c].entry].pc = "failed"
  /\ lookups' = [lookups EXCEPT ![c] = Idling("rejected")]
  /\ UNCHANGED <<registry, entries, states, releases, initialized, clobbered, overlapped>>

\* slots(): the number of slots is asked for, then the slots.  More of them
\* than were counted do not fit, fewer are taken as they are; the wanted
\* token may or may not be in one.
CountSlots(n) ==
  /\ states[n].pc = "listing"
  /\ IF ~initialized THEN states' = [states EXCEPT ![n].pc = "failing"]
     ELSE \E total \in 0 .. MaxSlots :
            states' = [states EXCEPT ![n].total = total,
                                     ![n].pc = IF total = 0 THEN "failing" ELSE "counted"]
  /\ UNCHANGED <<registry, entries, lookups, releases, initialized, clobbered, overlapped>>

ListSlots(n) ==
  /\ states[n].pc = "counted"
  /\ \E resolved \in 0 .. MaxSlots, present \in BOOLEAN :
       states' = [states EXCEPT ![n].pc =
                    IF initialized /\ resolved \in 1 .. states[n].total /\ present
                    THEN "mechanisms" ELSE "failing"]
  /\ UNCHANGED <<registry, entries, lookups, releases, initialized, clobbered, overlapped>>

\* mechanisms(), and the SlotState is there.
ReadMechanisms(n) ==
  /\ states[n].pc = "mechanisms"
  /\ \/ initialized /\ states' = [states EXCEPT ![n].pc = "ready", ![n].total = 0, ![n].bound = Bound]
     \/ states' = [states EXCEPT ![n].pc = "failing"]
  /\ UNCHANGED <<registry, entries, lookups, releases, initialized, clobbered, overlapped>>

\* pending.catch: a token that was absent does not stay cached as absent.
ForgetSlot(n) ==
  LET s == states[n]
  IN  /\ s.pc = "failing"
      /\ states' = [states EXCEPT ![n] = [NewState(s.entry, s.selector) EXCEPT !.pc = "failed"]]
      /\ entries' = [entries EXCEPT ![s.entry].slots[s.selector] = 0]
      /\ UNCHANGED <<registry, lookups, releases, initialized, clobbered, overlapped>>

SlotSettles(c) ==
  LET k == lookups[c]
  IN  /\ k.pc = "slot" /\ states[k.state].pc \in {"ready", "failed"}
      /\ lookups' = [lookups EXCEPT ![c] = IF states[k.state].pc = "ready" THEN [k EXCEPT !.pc = "using"]
                                           ELSE Idling("rejected")]
      /\ UNCHANGED <<registry, entries, states, releases, initialized, clobbered, overlapped>>

\* The operation on a session of the slot's pool.
Finish(c) ==
  /\ lookups[c].pc = "using"
  /\ lookups' = [lookups EXCEPT ![c] = Idling("done")]
  /\ UNCHANGED <<registry, entries, states, releases, initialized, clobbered, overlapped>>

-----------------------------------------------------------------------------
(* releaseModule.                                                          *)

\* A plausible slip: the entry stays registered while it is released.
ReleaseKeepingEntry(r, p, finalize) ==
  /\ releases[r].pc = "idle"
  /\ releases' = [releases EXCEPT ![r] = [pc |-> IF registry[p] = 0 THEN "done" ELSE "taken",
                                          entry |-> registry[p], finalize |-> finalize]]
  /\ UNCHANGED <<registry, entries, states, lookups, initialized, clobbered, overlapped>>

Release(r, p, finalize) ==
  /\ releases[r].pc = "idle"
  /\ releases' = [releases EXCEPT ![r] = [pc |-> IF registry[p] = 0 THEN "done" ELSE "taken",
                                          entry |-> registry[p], finalize |-> finalize]]
  /\ registry' = [registry EXCEPT ![p] = 0]
  /\ UNCHANGED <<entries, states, lookups, initialized, clobbered, overlapped>>

\* The slots the entry had when the loop began have settled, and their pools
\* are drained; a call that resolves one later is not waited for.
DrainSlots(r) ==
  LET k == releases[r]
  IN  /\ k.pc = "taken" /\ entries[k.entry].pc \in {"ready", "failed"}
      /\ \A n \in DOMAIN states : states[n].entry = k.entry => states[n].pc \in {"ready", "failed"}
      /\ releases' = [releases EXCEPT ![r].pc =
                        IF entries[k.entry].pc = "ready" /\ k.finalize THEN "finalizing" ELSE "done"]
      /\ UNCHANGED <<registry, entries, states, lookups, initialized, clobbered, overlapped>>

\* An entry other than e that somebody may still use.
OthersLive(e) == \E f \in DOMAIN entries \ {e} :
                   /\ entries[f].pc \in {"loading", "ready"}
                   /\ \/ \E p \in Paths : registry[p] = f
                      \/ \E c \in Lookups : lookups[c].entry = f /\ lookups[c].pc \in {"entry", "slot", "using"}

\* C_Finalize, and the library is unloaded.
Finalize(r) ==
  /\ releases[r].pc = "finalizing"
  /\ releases' = [releases EXCEPT ![r].pc = "done"]
  /\ initialized' = FALSE
  /\ overlapped' = (overlapped \/ OthersLive(releases[r].entry))
  /\ UNCHANGED <<registry, entries, states, lookups, clobbered>>

RegistryNext ==
  \/ \E c \in Lookups : \/ \E p \in Paths, s \in Selectors : AcquireModule(c, p, s)
                        \/ EntryFailed(c) \/ ResolveSlot(c) \/ SlotSettles(c) \/ Finish(c)
  \/ \E e \in DOMAIN entries : LoadSettles(e) \/ ForgetFailed(e)
  \/ \E n \in DOMAIN states : CountSlots(n) \/ ListSlots(n) \/ ReadMechanisms(n) \/ ForgetSlot(n)
  \/ \E r \in Releases : \/ \E p \in Paths, finalize \in BOOLEAN : Release(r, p, finalize)
                         \/ DrainSlots(r) \/ Finalize(r)

RegistrySpec == RegistryInit /\ [][RegistryNext]_registryVars

-----------------------------------------------------------------------------
(* Properties.                                                             *)

\* The entries whose library is taken to be loaded and that can be found.
Registered == {p \in Paths : registry[p] # 0 /\ entries[registry[p]].pc = "ready"}

(***************************************************************************)
(* A call that finds an entry registered and resolved finds the library    *)
(* initialized, through any sequence of loads, releases, finalizations and *)
(* reloads.  The exception is the one the comment on releaseModule warns   *)
(* of: a finalize that ran under another live entry, one registered while  *)
(* the release was waiting included.                                       *)
(***************************************************************************)
RegisteredMeansInitialized == overlapped \/ Registered = {} \/ initialized

(***************************************************************************)
(* Calls that use the same entry through the same selector use one         *)
(* SlotState, hence one pool and one bound, whoever came first and however *)
(* often the token was absent before; and two entries of one path are live *)
(* only after a release, or after a failed load removed a newer entry.     *)
(***************************************************************************)
CallsShareState ==
  \A c, d \in Lookups :
    LET a == lookups[c]
        b == lookups[d]
    IN  {a.pc, b.pc} = {"using"} =>
        /\ a.entry = b.entry /\ a.selector = b.selector => a.state = b.state
        /\ a.path = b.path /\ a.entry # b.entry =>
             \/ a.path \in clobbered
             \/ \E r \in Releases : releases[r].entry \in {a.entry, b.entry}

=============================================================================
