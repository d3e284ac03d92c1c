----------------------------- MODULE Pkcs11Proofs -----------------------------
(***************************************************************************)
(* Proofs about the PKCS#11 backend below and beside its session pool: the *)
(* caches of libraries and slots (ModuleRegistry), the binding of the C    *)
(* functions and the provider (Pkcs11), for any number of calls, paths,    *)
(* selectors, objects and keys.                                            *)
(***************************************************************************)
EXTENDS Pkcs11, ModuleRegistry, FiniteSetTheorems, SequenceTheorems, TLAPS

-----------------------------------------------------------------------------
(* The caches.                                                             *)

EntryStates == {"loading", "ready", "failing", "failed"}
SlotStates  == {"listing", "counted", "mechanisms", "ready", "failing", "failed"}

Entry     == [path : Paths, pc : EntryStates, slots : [Selectors -> Nat]]
SlotState == [entry : Nat, selector : Selectors, pc : SlotStates, total : Nat, bound : Nat]
Lookup    == [pc : {"idle", "entry", "slot", "using", "done", "rejected"},
              path : Paths \cup {"none"}, selector : Selectors \cup {"none"},
              entry : Nat, state : Nat]
Releasing == [pc : {"idle", "taken", "finalizing", "done"}, entry : Nat, finalize : BOOLEAN]

RegistryTypeOK ==
  /\ registry \in [Paths -> Nat]
  /\ entries \in Seq(Entry) /\ states \in Seq(SlotState)
  /\ lookups \in [Lookups -> Lookup] /\ releases \in [Releases -> Releasing]
  /\ initialized \in BOOLEAN /\ overlapped \in BOOLEAN /\ clobbered \subseteq Paths

\* What is registered for a path is an entry of that path.
RegistryOK ==
  \A p \in Paths : registry[p] # 0 =>
    registry[p] \in 1 .. Len(entries) /\ entries[registry[p]].path = p

\* An entry is registered, or its load failed, or a release took it, or a
\* failed load removed it.
EntriesOK ==
  \A e \in 1 .. Len(entries) :
    \/ registry[entries[e].path] = e
    \/ entries[e].pc = "failed"
    \/ entries[e].path \in clobbered
    \/ \E r \in Releases : releases[r].entry = e

\* A SlotState that has not failed is the one its entry has for the selector.
SlotsOK ==
  \A n \in 1 .. Len(states) :
    /\ states[n].entry \in 1 .. Len(entries)
    /\ states[n].pc # "failed" => entries[states[n].entry].slots[states[n].selector] = n

\* A call has the SlotState of its own entry and selector.
LookupsOK ==
  \A c \in Lookups :
    /\ lookups[c].pc \in {"entry", "slot", "using"} =>
         /\ lookups[c].entry \in 1 .. Len(entries) /\ lookups[c].selector \in Selectors
         /\ lookups[c].path = entries[lookups[c].entry].path
    /\ lookups[c].pc \in {"slot", "using"} =>
         /\ entries[lookups[c].entry].pc = "ready"
         /\ lookups[c].state \in 1 .. Len(states)
         /\ states[lookups[c].state].entry = lookups[c].entry
         /\ states[lookups[c].state].selector = lookups[c].selector
    /\ lookups[c].pc = "using" => states[lookups[c].state].pc = "ready"

\* What a release took nobody finds registered any more.
ReleasesOK ==
  \A r \in Releases :
    /\ releases[r].pc = "idle" => releases[r].entry = 0
    /\ releases[r].entry <= Len(entries)
    /\ releases[r].entry # 0 => \A p \in Paths : registry[p] # releases[r].entry

\* The slots an entry has are states of the registry.
KnownSlots ==
  \A e \in 1 .. Len(entries), s \in Selectors :
    entries[e].slots[s] # 0 =>
      /\ entries[e].slots[s] \in 1 .. Len(states)
      /\ states[entries[e].slots[s]].entry = e
      /\ states[entries[e].slots[s]].selector = s

RegistryInv ==
  /\ RegistryTypeOK /\ RegistryOK /\ EntriesOK /\ SlotsOK /\ KnownSlots
  /\ LookupsOK /\ ReleasesOK /\ RegisteredMeansInitialized

(* It holds at first.                                                      *)
LEMMA RegistryInvInit == RegistryInit => RegistryInv
<1> SUFFICES ASSUME RegistryInit PROVE RegistryInv
  OBVIOUS
<1>1. /\ entries = <<>> /\ states = <<>>
      /\ Len(entries) = 0 /\ Len(states) = 0
      /\ entries \in Seq(Entry) /\ states \in Seq(SlotState)
  BY EmptySeq DEF RegistryInit
<1>2. RegistryTypeOK
  BY <1>1 DEF RegistryInit, RegistryTypeOK, Lookup, Releasing, Idling
<1>3. EntriesOK /\ SlotsOK /\ KnownSlots
  BY <1>1 DEF EntriesOK, SlotsOK, KnownSlots
<1>4. RegistryOK /\ LookupsOK /\ ReleasesOK /\ RegisteredMeansInitialized
  BY <1>1 DEF RegistryInit, RegistryOK, LookupsOK, ReleasesOK, Idling,
              RegisteredMeansInitialized, Registered
<1> QED  BY <1>2, <1>3, <1>4 DEF RegistryInv

(* A call that finds no promise registers a new entry and its own promise. *)
LEMMA AcquireModuleStep ==
  ASSUME RegistryInv, NEW c \in Lookups, NEW p \in Paths, NEW s \in Selectors,
         AcquireModule(c, p, s)
  PROVE  RegistryInv'
<1> DEFINE e == IF registry[p] = 0 THEN Len(entries) + 1 ELSE registry[p]
           new == [path |-> p, pc |-> "loading", slots |-> [x \in Selectors |-> 0]]
<1>1. /\ registry' = [registry EXCEPT ![p] = e]
      /\ entries' = IF registry[p] = 0 THEN Append(entries, new) ELSE entries
      /\ lookups' = [lookups EXCEPT ![c] = [lookups[c] EXCEPT !.pc = "entry", !.path = p, !.selector = s, !.entry = e]]
      /\ UNCHANGED <<states, releases, initialized, clobbered, overlapped>>
  BY DEF AcquireModule
<1>2. /\ entries \in Seq(Entry) /\ Len(entries) \in Nat /\ new \in Entry
      /\ registry \in [Paths -> Nat] /\ lookups \in [Lookups -> Lookup]
  BY LenProperties DEF RegistryInv, RegistryTypeOK, Entry, EntryStates
<1>3. /\ entries' \in Seq(Entry) /\ Len(entries') \in Nat /\ Len(entries') >= Len(entries)
      /\ \A i \in 1 .. Len(entries) : entries'[i] = entries[i]
      /\ e \in 1 .. Len(entries') /\ entries'[e].path = p
      /\ \A i \in 1 .. Len(entries') : i \notin 1 .. Len(entries) =>
           i = e /\ registry[p] = 0 /\ entries'[i] = new
  <2>1. CASE registry[p] = 0
    BY <1>1, <1>2, <2>1, AppendProperties
  <2>2. CASE registry[p] # 0
    BY <1>1, <1>2, <2>2 DEF RegistryInv, RegistryOK
  <2> QED  BY <2>1, <2>2
<1>4. /\ new.path = p /\ new.pc = "loading" /\ \A x \in Selectors : new.slots[x] = 0
      /\ e \in Nat /\ (registry[p] # 0 => e = registry[p])
      /\ (registry[p] = 0 => e = Len(entries) + 1)
  BY <1>2, <1>3
<1> HIDE DEF e, new
<1>5. /\ registry' \in [Paths -> Nat] /\ registry'[p] = e
      /\ \A q \in Paths : q # p => registry'[q] = registry[q]
  BY <1>1, <1>2, <1>4
<1>6. /\ lookups' \in [Lookups -> Lookup]
      /\ lookups'[c].pc = "entry" /\ lookups'[c].path = p /\ lookups'[c].selector = s /\ lookups'[c].entry = e
      /\ \A d \in Lookups : d # c => lookups'[d] = lookups[d]
  BY <1>1, <1>2, <1>4, ZenonT(30) DEF Lookup
<1>7. RegistryTypeOK'
  BY <1>1, <1>3, <1>5, <1>6 DEF RegistryInv, RegistryTypeOK
<1>8. RegistryOK'
  BY <1>2, <1>3, <1>4, <1>5 DEF RegistryInv, RegistryOK
<1>9. EntriesOK'
  BY <1>1, <1>2, <1>3, <1>4, <1>5 DEF RegistryInv, EntriesOK
<1>10. SlotsOK'
  BY <1>1, <1>2, <1>3 DEF RegistryInv, SlotsOK
<1>11. KnownSlots'
  BY <1>1, <1>2, <1>3, <1>4 DEF RegistryInv, KnownSlots
<1>12. LookupsOK'
  BY <1>1, <1>2, <1>3, <1>6 DEF RegistryInv, LookupsOK
<1>13. ReleasesOK'
  BY <1>1, <1>2, <1>3, <1>4, <1>5 DEF RegistryInv, ReleasesOK, RegistryTypeOK, Releasing
<1>14. RegisteredMeansInitialized'
  BY <1>1, <1>2, <1>3, <1>4, <1>5 DEF RegistryInv, RegisteredMeansInitialized, Registered, RegistryOK
<1> QED
  BY <1>7, <1>8, <1>9, <1>10, <1>11, <1>12, <1>13, <1>14 DEF RegistryInv

(* A load settles: the entry is ready and the library initialized, or the  *)
(* entry is about to be forgotten.                                         *)
LEMMA LoadSettlesStep ==
  ASSUME RegistryInv, NEW e \in DOMAIN entries, LoadSettles(e)
  PROVE  RegistryInv'
<1>1. /\ entries \in Seq(Entry) /\ Len(entries) \in Nat /\ e \in 1 .. Len(entries)
      /\ entries[e] \in Entry /\ entries[e].pc = "loading"
      /\ initialized \in BOOLEAN /\ overlapped \in BOOLEAN
  BY LenProperties, ElementOfSeq DEF RegistryInv, RegistryTypeOK, LoadSettles
<1>2. UNCHANGED <<registry, states, lookups, releases, clobbered, overlapped>>
  BY DEF LoadSettles
<1>3. PICK pc \in {"ready", "failing"} :
        /\ entries' = [entries EXCEPT ![e] = [entries[e] EXCEPT !.pc = pc]]
        /\ initialized' \in BOOLEAN
        /\ IF pc = "ready" THEN initialized' = TRUE ELSE initialized' = initialized
  BY <1>1 DEF LoadSettles, Initialize
<1> DEFINE x == [entries[e] EXCEPT !.pc = pc]
<1>4. x \in Entry /\ x.pc = pc /\ x.path = entries[e].path /\ x.slots = entries[e].slots
  BY <1>1 DEF Entry, EntryStates
<1> HIDE DEF x
<1>5. /\ entries' \in Seq(Entry) /\ Len(entries') = Len(entries) /\ entries'[e] = x
      /\ \A i \in 1 .. Len(entries) : i # e => entries'[i] = entries[i]
  BY <1>1, <1>3, <1>4, ExceptSeq DEF x
<1>6. RegistryTypeOK' /\ RegistryOK' /\ EntriesOK' /\ SlotsOK' /\ KnownSlots' /\ ReleasesOK'
  <2>1. RegistryTypeOK' /\ RegistryOK'
    BY <1>1, <1>2, <1>3, <1>4, <1>5 DEF RegistryInv, RegistryTypeOK, RegistryOK
  <2>2. EntriesOK'
    BY <1>1, <1>2, <1>4, <1>5 DEF RegistryInv, EntriesOK
  <2>3. SlotsOK' /\ KnownSlots'
    <3>1. \A i \in 1 .. Len(entries) : entries'[i].slots = entries[i].slots
      BY <1>4, <1>5
    <3>2. SlotsOK'
      BY <1>2, <1>5, <3>1 DEF RegistryInv, SlotsOK
    <3>3. KnownSlots'
      BY <1>2, <1>5, <3>1 DEF RegistryInv, KnownSlots
    <3> QED  BY <3>2, <3>3
  <2>4. ReleasesOK'
    BY <1>2, <1>5 DEF RegistryInv, ReleasesOK
  <2> QED  BY <2>1, <2>2, <2>3, <2>4
<1>7. LookupsOK'
  BY <1>1, <1>2, <1>4, <1>5 DEF RegistryInv, LookupsOK
<1>8. RegisteredMeansInitialized'
  BY <1>1, <1>2, <1>3, <1>4, <1>5 DEF RegistryInv, RegisteredMeansInitialized, Registered, RegistryOK
<1> QED  BY <1>6, <1>7, <1>8 DEF RegistryInv

(* A failed load forgets whatever is registered for its path; if that is a *)
(* newer entry the path is remembered as clobbered.                        *)
LEMMA ForgetFailedStep ==
  ASSUME RegistryInv, NEW e \in DOMAIN entries, ForgetFailed(e)
  PROVE  RegistryInv'
<1> DEFINE p == entries[e].path
           x == [entries[e] EXCEPT !.pc = "failed"]
<1>1. /\ entries \in Seq(Entry) /\ Len(entries) \in Nat /\ e \in 1 .. Len(entries)
      /\ entries[e] \in Entry /\ entries[e].pc = "failing" /\ registry \in [Paths -> Nat]
      /\ clobbered \subseteq Paths
  BY LenProperties, ElementOfSeq DEF RegistryInv, RegistryTypeOK, ForgetFailed
<1>2. /\ registry' = [registry EXCEPT ![p] = 0]
      /\ entries' = [entries EXCEPT ![e] = x]
      /\ clobbered' = IF registry[p] \notin {0, e} THEN clobbered \cup {p} ELSE clobbered
      /\ UNCHANGED <<states, lookups, releases, initialized, overlapped>>
  BY <1>1 DEF ForgetFailed
<1>3. p \in Paths /\ x \in Entry /\ x.pc = "failed" /\ x.path = p /\ x.slots = entries[e].slots
  BY <1>1 DEF Entry, EntryStates
<1>4. /\ entries' \in Seq(Entry) /\ Len(entries') = Len(entries) /\ entries'[e] = x
      /\ \A i \in 1 .. Len(entries) : i # e => entries'[i] = entries[i]
  BY <1>1, <1>2, <1>3, ExceptSeq
<1>5. /\ registry' \in [Paths -> Nat] /\ registry'[p] = 0
      /\ \A q \in Paths : q # p => registry'[q] = registry[q]
  BY <1>1, <1>2, <1>3
<1>6. clobbered \subseteq clobbered' /\ clobbered' \subseteq Paths
      /\ (registry[p] \notin {0, e} => p \in clobbered')
  BY <1>1, <1>2, <1>3
<1>7. ASSUME NEW i \in 1 .. Len(entries)
      PROVE  entries[i].path \in Paths
  <2>1. entries[i] \in Entry
    BY <1>1, ElementOfSeq
  <2> QED  BY <2>1 DEF Entry
<1>8. p = entries[e].path /\ x.path = entries[e].path
  BY <1>3
<1> HIDE DEF p, x
<1>9. RegistryTypeOK' /\ RegistryOK'
  <2>1. RegistryTypeOK'
    BY <1>2, <1>4, <1>5, <1>6 DEF RegistryInv, RegistryTypeOK
  <2>2. RegistryOK'
    BY <1>3, <1>4, <1>5, <1>8 DEF RegistryInv, RegistryOK
  <2> QED  BY <2>1, <2>2
<1>10. EntriesOK'
  <2> SUFFICES ASSUME NEW i \in 1 .. Len(entries), i # e
               PROVE  \/ registry'[entries'[i].path] = i
                      \/ entries'[i].pc = "failed"
                      \/ entries'[i].path \in clobbered'
                      \/ \E r \in Releases : releases'[r].entry = i
    BY <1>3, <1>4 DEF EntriesOK
  <2>1. entries'[i] = entries[i] /\ entries[i].path \in Paths /\ i # 0
    BY <1>4, <1>7
  <2>2. CASE registry[entries[i].path] = i
    BY <1>5, <1>6, <2>1, <2>2
  <2>3. CASE registry[entries[i].path] # i
    BY <1>2, <1>6, <2>1, <2>3 DEF RegistryInv, EntriesOK
  <2> QED  BY <2>2, <2>3
<1>11. SlotsOK' /\ KnownSlots'
  <2>1. \A i \in 1 .. Len(entries) : entries'[i].slots = entries[i].slots
    BY <1>3, <1>4
  <2>2. SlotsOK'
    BY <1>2, <1>4, <2>1 DEF RegistryInv, SlotsOK
  <2>3. KnownSlots'
    BY <1>2, <1>4, <2>1 DEF RegistryInv, KnownSlots
  <2> QED  BY <2>2, <2>3
<1>12. LookupsOK'
  BY <1>1, <1>2, <1>4, <1>8 DEF RegistryInv, LookupsOK
<1>13. ReleasesOK'
  BY <1>2, <1>4, <1>5 DEF RegistryInv, ReleasesOK
<1>14. RegisteredMeansInitialized'
  BY <1>1, <1>2, <1>3, <1>4, <1>5 DEF RegistryInv, RegisteredMeansInitialized, Registered, RegistryOK
<1> QED
  BY <1>9, <1>10, <1>11, <1>12, <1>13, <1>14 DEF RegistryInv

(* The call joins the SlotState of its selector, or makes it.              *)
LEMMA ResolveSlotStep ==
  ASSUME RegistryInv, NEW c \in Lookups, ResolveSlot(c)
  PROVE  RegistryInv'
<1> DEFINE k == lookups[c]
           e == k.entry
           s == k.selector
           known == entries[e].slots[s]
           n == IF known = 0 THEN Len(states) + 1 ELSE known
           x == [entries[e] EXCEPT !.slots = [entries[e].slots EXCEPT ![s] = n]]
           new == NewState(e, s)
<1>1. /\ entries \in Seq(Entry) /\ Len(entries) \in Nat
      /\ states \in Seq(SlotState) /\ Len(states) \in Nat
      /\ lookups \in [Lookups -> Lookup]
  BY LenProperties DEF RegistryInv, RegistryTypeOK
<1>2. /\ k.pc = "entry" /\ e \in 1 .. Len(entries) /\ s \in Selectors /\ k.path = entries[e].path
      /\ entries[e].pc = "ready" /\ entries[e] \in Entry
  BY <1>1, ElementOfSeq DEF RegistryInv, LookupsOK, ResolveSlot
<1>3. /\ entries' = [entries EXCEPT ![e] = x]
      /\ states' = IF known = 0 THEN Append(states, new) ELSE states
      /\ lookups' = [lookups EXCEPT ![c] = [k EXCEPT !.pc = "slot", !.state = n]]
      /\ UNCHANGED <<registry, releases, initialized, clobbered, overlapped>>
  BY <1>1, <1>2 DEF ResolveSlot, Entry
<1>4. /\ known \in Nat /\ n \in Nat \ {0} /\ new \in SlotState
      /\ new.entry = e /\ new.selector = s /\ new.pc = "listing"
      /\ (known # 0 => n = known) /\ (known = 0 => n = Len(states) + 1)
  BY <1>1, <1>2 DEF Entry, SlotState, SlotStates, NewState
<1>5. /\ x \in Entry /\ x.pc = "ready" /\ x.path = entries[e].path /\ x.slots[s] = n
      /\ \A t \in Selectors : t # s => x.slots[t] = entries[e].slots[t]
  BY <1>2, <1>4 DEF Entry, EntryStates
<1>6. known # 0 => known \in 1 .. Len(states) /\ states[known].entry = e /\ states[known].selector = s
  BY <1>2, <1>4 DEF RegistryInv, KnownSlots
<1> HIDE DEF n, x, new, known
<1>7. /\ entries' \in Seq(Entry) /\ Len(entries') = Len(entries) /\ entries'[e] = x
      /\ \A i \in 1 .. Len(entries) : i # e => entries'[i] = entries[i]
  BY <1>1, <1>2, <1>3, <1>5, ExceptSeq
<1>8. /\ states' \in Seq(SlotState) /\ Len(states') \in Nat /\ Len(states') >= Len(states)
      /\ \A i \in 1 .. Len(states) : states'[i] = states[i]
      /\ n \in 1 .. Len(states') /\ states'[n].entry = e /\ states'[n].selector = s
      /\ \A i \in 1 .. Len(states') : i \notin 1 .. Len(states) => i = n /\ states'[i] = new
  <2>1. CASE known = 0
    BY <1>1, <1>3, <1>4, <2>1, AppendProperties
  <2>2. CASE known # 0
    BY <1>1, <1>3, <1>4, <1>6, <2>2
  <2> QED  BY <2>1, <2>2
<1>9. /\ lookups' \in [Lookups -> Lookup]
      /\ lookups'[c].pc = "slot" /\ lookups'[c].path = k.path /\ lookups'[c].selector = s
      /\ lookups'[c].entry = e /\ lookups'[c].state = n
      /\ \A d \in Lookups : d # c => lookups'[d] = lookups[d]
  BY <1>1, <1>3, <1>4 DEF Lookup
<1>10. known = entries[e].slots[s]
  BY DEF known
<1> HIDE DEF k, e, s
<1>11. RegistryTypeOK' /\ RegistryOK'
  BY <1>3, <1>5, <1>7, <1>8, <1>9 DEF RegistryInv, RegistryTypeOK, RegistryOK
<1>12. EntriesOK'
  BY <1>3, <1>2, <1>5, <1>7 DEF RegistryInv, EntriesOK
<1>13. SlotsOK'
  <2> SUFFICES ASSUME NEW i \in 1 .. Len(states')
               PROVE  /\ states'[i].entry \in 1 .. Len(entries)
                      /\ states'[i].pc # "failed" => entries'[states'[i].entry].slots[states'[i].selector] = i
    BY <1>7 DEF SlotsOK
  <2>1. CASE i = n
    BY <1>2, <1>5, <1>7, <1>8, <2>1
  <2>2. CASE i # n
    <3>1. i \in 1 .. Len(states) /\ states'[i] = states[i] /\ states[i] \in SlotState
      BY <1>1, <1>8, <2>2, ElementOfSeq
    <3>2. /\ states[i].entry \in 1 .. Len(entries) /\ states[i].selector \in Selectors
          /\ states[i].pc # "failed" => entries[states[i].entry].slots[states[i].selector] = i
      BY <3>1 DEF RegistryInv, SlotsOK, SlotState
    <3>3. states[i].pc # "failed" => ~(states[i].entry = e /\ states[i].selector = s)
      BY <1>1, <1>4, <1>10, <2>2, <3>1, <3>2
    <3> QED  BY <1>5, <1>7, <3>1, <3>2, <3>3
  <2> QED  BY <2>1, <2>2
<1>14. KnownSlots'
  <2> SUFFICES ASSUME NEW i \in 1 .. Len(entries), NEW t \in Selectors, entries'[i].slots[t] # 0
               PROVE  /\ entries'[i].slots[t] \in 1 .. Len(states')
                      /\ states'[entries'[i].slots[t]].entry = i
                      /\ states'[entries'[i].slots[t]].selector = t
    BY <1>7 DEF KnownSlots
  <2>1. CASE i = e /\ t = s
    BY <1>5, <1>7, <1>8, <2>1
  <2>2. CASE ~(i = e /\ t = s)
    <3>1. entries'[i].slots[t] = entries[i].slots[t]
      BY <1>5, <1>7, <2>2
    <3> QED  BY <1>1, <1>8, <3>1 DEF RegistryInv, KnownSlots
  <2> QED  BY <2>1, <2>2
<1>15. LookupsOK'
  <2>1. \A i \in 1 .. Len(entries) : entries'[i].path = entries[i].path /\ entries'[i].pc = entries[i].pc
    BY <1>2, <1>5, <1>7
  <2> SUFFICES ASSUME NEW d \in Lookups, d # c
               PROVE  LookupsOK!(d)'
    BY <1>2, <1>7, <1>8, <1>9, <2>1 DEF LookupsOK
  <2>2. lookups'[d] = lookups[d]
    BY <1>9
  <2>3. LookupsOK!(d)
    BY DEF RegistryInv, LookupsOK
  <2> QED  BY <1>1, <1>7, <1>8, <2>1, <2>2, <2>3
<1>16. ReleasesOK'
  BY <1>3, <1>7 DEF RegistryInv, ReleasesOK
<1>17. RegisteredMeansInitialized'
  BY <1>2, <1>3, <1>5, <1>7 DEF RegistryInv, RegisteredMeansInitialized, Registered, RegistryOK
<1> QED
  BY <1>11, <1>12, <1>13, <1>14, <1>15, <1>16, <1>17 DEF RegistryInv

(* A call that is over, or starts to use a SlotState that is ready.        *)
LEMMA LookupMovesStep ==
  ASSUME RegistryInv, NEW c \in Lookups, NEW x \in Lookup,
         \/ x.pc \in {"done", "rejected"}
         \/ /\ lookups[c].pc = "slot" /\ states[lookups[c].state].pc = "ready"
            /\ x = [lookups[c] EXCEPT !.pc = "using"],
         lookups' = [lookups EXCEPT ![c] = x],
         UNCHANGED <<registry, entries, states, releases, initialized, clobbered, overlapped>>
  PROVE  RegistryInv'
<1>1. /\ lookups \in [Lookups -> Lookup] /\ lookups' \in [Lookups -> Lookup]
      /\ lookups'[c] = x /\ \A d \in Lookups : d # c => lookups'[d] = lookups[d]
  BY DEF RegistryInv, RegistryTypeOK
<1>2. RegistryTypeOK'
  BY <1>1 DEF RegistryInv, RegistryTypeOK
<1>3. RegistryOK' /\ EntriesOK' /\ SlotsOK' /\ KnownSlots' /\ ReleasesOK' /\ RegisteredMeansInitialized'
  BY DEF RegistryInv, RegistryOK, EntriesOK, SlotsOK, KnownSlots, ReleasesOK,
         RegisteredMeansInitialized, Registered
<1>4. LookupsOK'
  <2> SUFFICES ASSUME NEW d \in Lookups
               PROVE  LookupsOK!(d)'
    BY DEF LookupsOK
  <2>1. LookupsOK!(d)
    BY DEF RegistryInv, LookupsOK
  <2>2. CASE d # c
    BY <1>1, <2>1, <2>2
  <2>3. CASE d = c /\ x.pc \in {"done", "rejected"}
    BY <1>1, <2>3
  <2>4. CASE d = c /\ x.pc \notin {"done", "rejected"}
    <3>1. /\ x.pc = "using" /\ x.entry = lookups[c].entry /\ x.selector = lookups[c].selector
          /\ x.path = lookups[c].path /\ x.state = lookups[c].state
      BY <1>1, <2>4 DEF Lookup
    <3> QED  BY <1>1, <2>1, <2>4, <3>1
  <2> QED  BY <2>2, <2>3, <2>4
<1> QED  BY <1>2, <1>3, <1>4 DEF RegistryInv

(* The entry failed, the slot settled, or the operation is over.           *)
LEMMA LookupSteps ==
  ASSUME RegistryInv, NEW c \in Lookups, EntryFailed(c) \/ SlotSettles(c) \/ Finish(c)
  PROVE  RegistryInv'
<1>1. /\ Idling("rejected") \in Lookup /\ Idling("rejected").pc = "rejected"
      /\ Idling("done") \in Lookup /\ Idling("done").pc = "done"
  BY DEF Idling, Lookup
<1>2. lookups[c] \in Lookup /\ [lookups[c] EXCEPT !.pc = "using"] \in Lookup
  BY DEF RegistryInv, RegistryTypeOK, Lookup
<1>3. CASE EntryFailed(c)
  BY <1>1, <1>3, LookupMovesStep DEF EntryFailed
<1>4. CASE Finish(c)
  BY <1>1, <1>4, LookupMovesStep DEF Finish
<1>5. CASE SlotSettles(c) /\ states[lookups[c].state].pc = "ready"
  <2>1. /\ lookups[c].pc = "slot" /\ lookups' = [lookups EXCEPT ![c] = [lookups[c] EXCEPT !.pc = "using"]]
        /\ UNCHANGED <<registry, entries, states, releases, initialized, clobbered, overlapped>>
    BY <1>5 DEF SlotSettles
  <2> QED  BY <1>2, <1>5, <2>1, LookupMovesStep
<1>6. CASE SlotSettles(c) /\ states[lookups[c].state].pc # "ready"
  <2>1. /\ lookups' = [lookups EXCEPT ![c] = Idling("rejected")]
        /\ UNCHANGED <<registry, entries, states, releases, initialized, clobbered, overlapped>>
    BY <1>6 DEF SlotSettles
  <2> QED  BY <1>1, <2>1, LookupMovesStep
<1> QED  BY <1>3, <1>4, <1>5, <1>6

(* A SlotState that is being resolved goes on, without failing for good.   *)
LEMMA SlotMovesStep ==
  ASSUME RegistryInv, NEW n \in 1 .. Len(states), NEW x \in SlotState,
         states[n].pc \notin {"ready", "failed"}, x.pc # "failed",
         x.entry = states[n].entry, x.selector = states[n].selector,
         states' = [states EXCEPT ![n] = x],
         UNCHANGED <<registry, entries, lookups, releases, initialized, clobbered, overlapped>>
  PROVE  RegistryInv'
<1>1. states \in Seq(SlotState) /\ Len(states) \in Nat
  BY LenProperties DEF RegistryInv, RegistryTypeOK
<1>2. /\ states' \in Seq(SlotState) /\ Len(states') = Len(states) /\ states'[n] = x
      /\ \A i \in 1 .. Len(states) : i # n => states'[i] = states[i]
  BY <1>1, ExceptSeq
<1>3. \A i \in 1 .. Len(states) :
        /\ states'[i].entry = states[i].entry /\ states'[i].selector = states[i].selector
        /\ states'[i].pc = "failed" <=> states[i].pc = "failed"
        /\ states[i].pc = "ready" => states'[i].pc = "ready"
  BY <1>2
<1>4. RegistryTypeOK'
  BY <1>2 DEF RegistryInv, RegistryTypeOK
<1>5. RegistryOK' /\ EntriesOK' /\ ReleasesOK' /\ RegisteredMeansInitialized'
  BY DEF RegistryInv, RegistryOK, EntriesOK, ReleasesOK, RegisteredMeansInitialized, Registered
<1>6. SlotsOK'
  BY <1>2, <1>3 DEF RegistryInv, SlotsOK
<1>7. KnownSlots'
  BY <1>2, <1>3 DEF RegistryInv, KnownSlots
<1>8. LookupsOK'
  BY <1>2, <1>3 DEF RegistryInv, LookupsOK
<1> QED  BY <1>4, <1>5, <1>6, <1>7, <1>8 DEF RegistryInv

(* Counting and listing the slots, reading the mechanisms.                 *)
LEMMA ResolutionSteps ==
  ASSUME RegistryInv, NEW n \in DOMAIN states, CountSlots(n) \/ ListSlots(n) \/ ReadMechanisms(n)
  PROVE  RegistryInv'
<1>1. n \in 1 .. Len(states) /\ states[n] \in SlotState
  BY LenProperties, ElementOfSeq DEF RegistryInv, RegistryTypeOK
<1>2. UNCHANGED <<registry, entries, lookups, releases, initialized, clobbered, overlapped>>
  BY DEF CountSlots, ListSlots, ReadMechanisms
<1>3. states[n].pc \in {"listing", "counted", "mechanisms"}
  BY DEF CountSlots, ListSlots, ReadMechanisms
<1>4. ASSUME NEW pc \in SlotStates \ {"failed"}, NEW total \in Nat, NEW bound \in Nat,
             states' = [states EXCEPT ![n] = [states[n] EXCEPT !.pc = pc, !.total = total, !.bound = bound]]
      PROVE  RegistryInv'
  <2> DEFINE x == [states[n] EXCEPT !.pc = pc, !.total = total, !.bound = bound]
  <2>1. x \in SlotState /\ x.pc # "failed" /\ x.entry = states[n].entry /\ x.selector = states[n].selector
    BY <1>1 DEF SlotState, SlotStates
  <2> HIDE DEF x
  <2>2. states' = [states EXCEPT ![n] = x]
    BY <1>4 DEF x
  <2> QED  BY <1>1, <1>2, <1>3, <2>1, <2>2, SlotMovesStep
<1>5. /\ states[n].total \in Nat /\ states[n].bound \in Nat /\ Bound \in Nat
      /\ \A pc : [states[n] EXCEPT !.pc = pc] =
                   [states[n] EXCEPT !.pc = pc, !.total = states[n].total, !.bound = states[n].bound]
      /\ \A pc, total : [states[n] EXCEPT !.pc = pc, !.total = total] =
                   [states[n] EXCEPT !.pc = pc, !.total = total, !.bound = states[n].bound]
      /\ \A pc, total : [states[n] EXCEPT !.total = total, !.pc = pc] =
                   [states[n] EXCEPT !.pc = pc, !.total = total, !.bound = states[n].bound]
      /\ \A pc : pc \in {"failing", "counted", "mechanisms", "ready"} => pc \in SlotStates \ {"failed"}
  BY <1>1, RegistryAssumption DEF SlotState, SlotStates, Bound
<1>6. ASSUME NEW pc \in {"failing", "counted", "mechanisms"}, states' = [states EXCEPT ![n].pc = pc]
      PROVE  RegistryInv'
  <2>1. states' = [states EXCEPT ![n] = [states[n] EXCEPT !.pc = pc]]
    BY <1>6
  <2>2. /\ pc \in SlotStates \ {"failed"}
        /\ states' = [states EXCEPT ![n] = [states[n] EXCEPT !.pc = pc, !.total = states[n].total,
                                                             !.bound = states[n].bound]]
    BY <1>5, <2>1
  <2> QED  BY <1>4, <1>5, <2>2
<1>7. CASE CountSlots(n)
  <2>1. CASE ~initialized
    BY <1>6, <1>7, <2>1 DEF CountSlots
  <2>2. CASE initialized
    <3>1. PICK total \in 0 .. MaxSlots :
            states' = [states EXCEPT ![n].total = total,
                                     ![n].pc = IF total = 0 THEN "failing" ELSE "counted"]
      BY <1>7, <2>2 DEF CountSlots
    <3> DEFINE pc == IF total = 0 THEN "failing" ELSE "counted"
    <3>2. states' = [states EXCEPT ![n] = [states[n] EXCEPT !.total = total, !.pc = pc]]
      BY <1>1, <3>1
    <3>3. total \in Nat /\ pc \in {"failing", "counted"}
      BY RegistryAssumption
    <3> HIDE DEF pc
    <3>4. /\ pc \in SlotStates \ {"failed"}
          /\ states' = [states EXCEPT ![n] = [states[n] EXCEPT !.pc = pc, !.total = total,
                                                               !.bound = states[n].bound]]
      BY <1>5, <3>2, <3>3
    <3> QED  BY <1>4, <1>5, <3>3, <3>4
  <2> QED  BY <2>1, <2>2
<1>8. CASE ListSlots(n)
  BY <1>6, <1>8 DEF ListSlots
<1>9. CASE ReadMechanisms(n)
  <2>1. CASE states' = [states EXCEPT ![n].pc = "failing"]
    BY <1>6, <2>1
  <2>2. CASE states' = [states EXCEPT ![n].pc = "ready", ![n].total = 0, ![n].bound = Bound]
    <3>1. states' = [states EXCEPT ![n] = [states[n] EXCEPT !.pc = "ready", !.total = 0, !.bound = Bound]]
      BY <1>1, <2>2
    <3> QED  BY <1>4, <1>5, <3>1
  <2> QED  BY <1>9, <2>1, <2>2 DEF ReadMechanisms
<1> QED  BY <1>7, <1>8, <1>9

(* A SlotState that failed is forgotten where it is cached, and only there.*)
LEMMA ForgetSlotStep ==
  ASSUME RegistryInv, NEW n \in DOMAIN states, ForgetSlot(n)
  PROVE  RegistryInv'
<1> DEFINE e == states[n].entry
           s == states[n].selector
           x == [NewState(e, s) EXCEPT !.pc = "failed"]
           y == [entries[e] EXCEPT !.slots = [entries[e].slots EXCEPT ![s] = 0]]
<1>1. /\ states \in Seq(SlotState) /\ Len(states) \in Nat /\ n \in 1 .. Len(states)
      /\ entries \in Seq(Entry) /\ Len(entries) \in Nat /\ states[n] \in SlotState
      /\ states[n].pc = "failing"
  BY LenProperties, ElementOfSeq DEF RegistryInv, RegistryTypeOK, ForgetSlot
<1>2. /\ e \in 1 .. Len(entries) /\ s \in Selectors /\ entries[e].slots[s] = n
      /\ entries[e] \in Entry
  BY <1>1, ElementOfSeq DEF RegistryInv, SlotsOK, SlotState
<1>3. /\ states' = [states EXCEPT ![n] = x] /\ entries' = [entries EXCEPT ![e] = y]
      /\ UNCHANGED <<registry, lookups, releases, initialized, clobbered, overlapped>>
  BY <1>1, <1>2 DEF ForgetSlot, Entry
<1>4. x \in SlotState /\ x.entry = e /\ x.selector = s /\ x.pc = "failed"
  BY <1>1, <1>2 DEF NewState, SlotState, SlotStates
<1>5. /\ y \in Entry /\ y.pc = entries[e].pc /\ y.path = entries[e].path /\ y.slots[s] = 0
      /\ \A t \in Selectors : t # s => y.slots[t] = entries[e].slots[t]
  BY <1>2 DEF Entry
<1> HIDE DEF x, y
<1>6. /\ states' \in Seq(SlotState) /\ Len(states') = Len(states) /\ states'[n] = x
      /\ \A i \in 1 .. Len(states) : i # n => states'[i] = states[i]
  BY <1>1, <1>3, <1>4, ExceptSeq
<1>7. /\ entries' \in Seq(Entry) /\ Len(entries') = Len(entries) /\ entries'[e] = y
      /\ \A i \in 1 .. Len(entries) : i # e => entries'[i] = entries[i]
  BY <1>1, <1>2, <1>3, <1>5, ExceptSeq
<1>8. \A i \in 1 .. Len(entries) : entries'[i].path = entries[i].path /\ entries'[i].pc = entries[i].pc
  BY <1>5, <1>7
<1>9. \A i \in 1 .. Len(states) :
        states'[i].entry = states[i].entry /\ states'[i].selector = states[i].selector
  BY <1>4, <1>6
<1>10. RegistryTypeOK' /\ RegistryOK' /\ EntriesOK'
  BY <1>3, <1>6, <1>7, <1>8 DEF RegistryInv, RegistryTypeOK, RegistryOK, EntriesOK
<1>11. SlotsOK'
  <2> SUFFICES ASSUME NEW i \in 1 .. Len(states), i # n
               PROVE  SlotsOK!(i)'
    BY <1>2, <1>4, <1>6, <1>7 DEF SlotsOK
  <2>1. SlotsOK!(i) /\ states'[i] = states[i] /\ states[i] \in SlotState
    BY <1>1, <1>6, ElementOfSeq DEF RegistryInv, SlotsOK
  <2>2. states[i].pc # "failed" => ~(states[i].entry = e /\ states[i].selector = s)
    BY <1>2, <2>1
  <2> QED  BY <1>5, <1>7, <2>1, <2>2 DEF SlotState
<1>12. KnownSlots'
  <2> SUFFICES ASSUME NEW i \in 1 .. Len(entries), NEW t \in Selectors, entries'[i].slots[t] # 0
               PROVE  /\ entries'[i].slots[t] \in 1 .. Len(states')
                      /\ states'[entries'[i].slots[t]].entry = i
                      /\ states'[entries'[i].slots[t]].selector = t
    BY <1>7 DEF KnownSlots
  <2>1. entries'[i].slots[t] = entries[i].slots[t]
    BY <1>5, <1>7
  <2> QED  BY <1>6, <1>9, <2>1 DEF RegistryInv, KnownSlots
<1>13. LookupsOK'
  <2> SUFFICES ASSUME NEW d \in Lookups
               PROVE  LookupsOK!(d)'
    BY DEF LookupsOK
  <2>1. LookupsOK!(d)
    BY DEF RegistryInv, LookupsOK
  <2> QED  BY <1>1, <1>3, <1>6, <1>7, <1>8, <1>9, <2>1
<1>14. ReleasesOK'
  BY <1>3, <1>7 DEF RegistryInv, ReleasesOK
<1>15. RegisteredMeansInitialized'
  BY <1>3, <1>7, <1>8 DEF RegistryInv, RegisteredMeansInitialized, Registered, RegistryOK
<1> QED
  BY <1>10, <1>11, <1>12, <1>13, <1>14, <1>15 DEF RegistryInv

(* What a release takes was registered for one path, and is no longer.     *)
LEMMA ReleaseStep ==
  ASSUME RegistryInv, NEW r \in Releases, NEW p \in Paths, NEW finalize \in BOOLEAN,
         Release(r, p, finalize)
  PROVE  RegistryInv'
<1> DEFINE x == [pc |-> IF registry[p] = 0 THEN "done" ELSE "taken",
                 entry |-> registry[p], finalize |-> finalize]
<1>1. /\ registry \in [Paths -> Nat] /\ releases \in [Releases -> Releasing]
      /\ entries \in Seq(Entry) /\ Len(entries) \in Nat
      /\ releases[r].pc = "idle" /\ releases[r].entry = 0
  BY LenProperties DEF RegistryInv, RegistryTypeOK, ReleasesOK, Release
<1>2. /\ releases' = [releases EXCEPT ![r] = x] /\ registry' = [registry EXCEPT ![p] = 0]
      /\ UNCHANGED <<entries, states, lookups, initialized, clobbered, overlapped>>
  BY DEF Release
<1>3. x \in Releasing /\ x.entry = registry[p] /\ x.pc # "idle"
  BY <1>1 DEF Releasing
<1> HIDE DEF x
<1>4. /\ releases' \in [Releases -> Releasing] /\ releases'[r] = x
      /\ \A q \in Releases : q # r => releases'[q] = releases[q]
  BY <1>1, <1>2, <1>3
<1>5. /\ registry' \in [Paths -> Nat] /\ registry'[p] = 0
      /\ \A q \in Paths : q # p => registry'[q] = registry[q]
  BY <1>1, <1>2
<1>6. RegistryTypeOK' /\ RegistryOK'
  BY <1>2, <1>4, <1>5 DEF RegistryInv, RegistryTypeOK, RegistryOK
<1>7. EntriesOK'
  <2> SUFFICES ASSUME NEW i \in 1 .. Len(entries)
               PROVE  EntriesOK!(i)'
    BY <1>2 DEF EntriesOK
  <2>1. EntriesOK!(i) /\ entries[i] \in Entry /\ i # 0
    BY <1>1, ElementOfSeq DEF RegistryInv, EntriesOK
  <2>2. CASE registry[entries[i].path] = i
    BY <1>2, <1>3, <1>4, <1>5, <2>1, <2>2 DEF Entry
  <2>3. CASE entries[i].pc = "failed" \/ entries[i].path \in clobbered
    BY <1>2, <2>3
  <2>4. CASE \E q \in Releases : releases[q].entry = i
    BY <1>1, <1>4, <2>1, <2>4
  <2> QED  BY <2>1, <2>2, <2>3, <2>4
<1>8. SlotsOK' /\ KnownSlots' /\ LookupsOK'
  BY <1>2 DEF RegistryInv, SlotsOK, KnownSlots, LookupsOK
<1>9. ReleasesOK'
  <2> SUFFICES ASSUME NEW q \in Releases
               PROVE  ReleasesOK!(q)'
    BY DEF ReleasesOK
  <2>1. ReleasesOK!(q)
    BY DEF RegistryInv, ReleasesOK
  <2>2. CASE q = r
    <3>1. registry[p] <= Len(entries)
      BY <1>1 DEF RegistryInv, RegistryOK
    <3>2. registry[p] # 0 => \A t \in Paths : registry'[t] # registry[p]
      BY <1>1, <1>5 DEF RegistryInv, RegistryOK
    <3> QED  BY <1>2, <1>3, <1>4, <2>2, <3>1, <3>2
  <2>3. CASE q # r
    BY <1>1, <1>2, <1>4, <1>5, <2>1, <2>3
  <2> QED  BY <2>2, <2>3
<1>10. RegisteredMeansInitialized'
  BY <1>1, <1>2, <1>5 DEF RegistryInv, RegisteredMeansInitialized, Registered
<1> QED
  BY <1>6, <1>7, <1>8, <1>9, <1>10 DEF RegistryInv

(* Draining and finalizing: a finalize under a registered entry that is    *)
(* ready is one under another live entry.                                  *)
LEMMA ReleaseGoesOnStep ==
  ASSUME RegistryInv, NEW r \in Releases, DrainSlots(r) \/ Finalize(r)
  PROVE  RegistryInv'
<1>1. /\ releases \in [Releases -> Releasing]
      /\ initialized \in BOOLEAN /\ overlapped \in BOOLEAN
      /\ entries \in Seq(Entry) /\ DOMAIN entries = 1 .. Len(entries)
  BY LenProperties DEF RegistryInv, RegistryTypeOK
<1>2. PICK pc \in {"finalizing", "done"} : releases' = [releases EXCEPT ![r].pc = pc]
  BY DEF DrainSlots, Finalize
<1>3. UNCHANGED <<registry, entries, states, lookups, clobbered>>
  BY DEF DrainSlots, Finalize
<1>4. /\ releases' \in [Releases -> Releasing]
      /\ \A q \in Releases : releases'[q].entry = releases[q].entry
      /\ \A q \in Releases : releases'[q].pc = "idle" => releases[q].pc = "idle"
  BY <1>1, <1>2 DEF Releasing
<1>5. RegistryOK' /\ EntriesOK' /\ SlotsOK' /\ KnownSlots' /\ LookupsOK' /\ ReleasesOK'
  BY <1>3, <1>4 DEF RegistryInv, RegistryOK, EntriesOK, SlotsOK, KnownSlots, LookupsOK, ReleasesOK
<1>6. CASE DrainSlots(r)
  <2>1. initialized' = initialized /\ overlapped' = overlapped
    BY <1>6 DEF DrainSlots
  <2>2. RegistryTypeOK' /\ RegisteredMeansInitialized'
    BY <1>3, <1>4, <2>1 DEF RegistryInv, RegistryTypeOK, RegisteredMeansInitialized, Registered
  <2> QED  BY <1>5, <2>2 DEF RegistryInv
<1>7. CASE Finalize(r)
  <2>1. /\ initialized' = FALSE /\ overlapped' = (overlapped \/ OthersLive(releases[r].entry))
        /\ releases[r].pc = "finalizing"
    BY <1>7 DEF Finalize
  <2>2. RegistryTypeOK'
    BY <1>1, <1>3, <1>4, <2>1 DEF RegistryInv, RegistryTypeOK
  <2>3. ASSUME NEW p \in Paths, registry[p] # 0, entries[registry[p]].pc = "ready"
        PROVE  OthersLive(releases[r].entry)
    <3>1. registry[p] \in 1 .. Len(entries) /\ registry[p] # releases[r].entry
      BY <2>3 DEF RegistryInv, RegistryOK, ReleasesOK
    <3>2. registry[p] \in DOMAIN entries \ {releases[r].entry}
      BY <1>1, <3>1
    <3> QED  BY <2>3, <3>2 DEF OthersLive
  <2>4. RegisteredMeansInitialized'
    BY <1>1, <1>3, <2>1, <2>3 DEF RegisteredMeansInitialized, Registered
  <2> QED  BY <1>5, <2>2, <2>4 DEF RegistryInv
<1> QED  BY <1>6, <1>7

(***************************************************************************)
(* Every step of the caches preserves RegistryInv.                         *)
(***************************************************************************)
LEMMA RegistryInvNext == RegistryInv /\ [RegistryNext]_registryVars => RegistryInv'
<1> SUFFICES ASSUME RegistryInv, [RegistryNext]_registryVars
             PROVE  RegistryInv'
  OBVIOUS
<1>1. CASE \E c \in Lookups, p \in Paths, s \in Selectors : AcquireModule(c, p, s)
  BY <1>1, AcquireModuleStep
<1>2. CASE \E c \in Lookups : EntryFailed(c) \/ SlotSettles(c) \/ Finish(c)
  BY <1>2, LookupSteps
<1>3. CASE \E c \in Lookups : ResolveSlot(c)
  BY <1>3, ResolveSlotStep
<1>4. CASE \E e \in DOMAIN entries : LoadSettles(e)
  BY <1>4, LoadSettlesStep
<1>5. CASE \E e \in DOMAIN entries : ForgetFailed(e)
  BY <1>5, ForgetFailedStep
<1>6. CASE \E n \in DOMAIN states : CountSlots(n) \/ ListSlots(n) \/ ReadMechanisms(n)
  BY <1>6, ResolutionSteps
<1>7. CASE \E n \in DOMAIN states : ForgetSlot(n)
  BY <1>7, ForgetSlotStep
<1>8. CASE \E r \in Releases, p \in Paths, finalize \in BOOLEAN : Release(r, p, finalize)
  BY <1>8, ReleaseStep
<1>9. CASE \E r \in Releases : DrainSlots(r) \/ Finalize(r)
  BY <1>9, ReleaseGoesOnStep
<1>10. CASE UNCHANGED registryVars
  BY <1>10 DEF registryVars, RegistryInv, RegistryTypeOK, RegistryOK, EntriesOK, SlotsOK,
               KnownSlots, LookupsOK, ReleasesOK, RegisteredMeansInitialized, Registered
<1> QED
  BY <1>1, <1>2, <1>3, <1>4, <1>5, <1>6, <1>7, <1>8, <1>9, <1>10 DEF RegistryNext

(* Two calls that use a slot of one entry through one selector use the     *)
(* SlotState cached there; two live entries of one path cannot both be     *)
(* registered.                                                             *)
LEMMA RegistryInvShares == RegistryInv => CallsShareState
<1> SUFFICES ASSUME RegistryInv, NEW c \in Lookups, NEW d \in Lookups,
                    lookups[c].pc = "using", lookups[d].pc = "using"
             PROVE  /\ (lookups[c].entry = lookups[d].entry /\ lookups[c].selector = lookups[d].selector
                         => lookups[c].state = lookups[d].state)
                    /\ (lookups[c].path = lookups[d].path /\ lookups[c].entry # lookups[d].entry =>
                         \/ lookups[c].path \in clobbered
                         \/ \E r \in Releases : releases[r].entry \in {lookups[c].entry, lookups[d].entry})
  BY SMTT(30) DEF CallsShareState
<1>1. ASSUME NEW k \in Lookups, lookups[k].pc = "using"
      PROVE  /\ entries[lookups[k].entry].slots[lookups[k].selector] = lookups[k].state
             /\ \/ registry[lookups[k].path] = lookups[k].entry
                \/ lookups[k].path \in clobbered
                \/ \E r \in Releases : releases[r].entry = lookups[k].entry
  <2>1. LookupsOK!(k)
    BY DEF RegistryInv, LookupsOK
  <2>2. SlotsOK!(lookups[k].state) /\ EntriesOK!(lookups[k].entry)
    BY <1>1, <2>1 DEF RegistryInv, SlotsOK, EntriesOK
  <2> QED  BY <1>1, <2>1, <2>2
<1> QED  BY <1>1

(***************************************************************************)
(* Through any sequence of loads, releases, finalizations and reloads, an  *)
(* entry that acquireModule finds registered and resolved has its library  *)
(* initialized, unless a finalize ran under another live entry.            *)
(***************************************************************************)
THEOREM RegisteredIsInitialized == RegistrySpec => []RegisteredMeansInitialized
<1>1. RegistryInv => RegisteredMeansInitialized
  BY DEF RegistryInv
<1> QED  BY <1>1, RegistryInvInit, RegistryInvNext, PTL DEF RegistrySpec

(***************************************************************************)
(* Calls of withSession on one entry and selector share one SlotState and  *)
(* so one pool, for any number of calls, paths, selectors and releases.    *)
(***************************************************************************)
THEOREM OneStatePerSelector == RegistrySpec => []CallsShareState
BY RegistryInvInit, RegistryInvNext, RegistryInvShares, PTL DEF RegistrySpec

-----------------------------------------------------------------------------
(* The binding.                                                            *)

FindMethod      == [name : {"find"}, pc : {"next", "final"}, handles : Seq(Objects),
                    failed : BOOLEAN, wanted : Seq(Objects)]
TransformMethod == [name : {"transform"}, pc : {"size", "fill"}, size : Nat]
VerifyMethod    == [name : {"verify"}, pc : {"verify"}]

\* A search has returned a prefix of what it wants, and the cursor has the
\* rest; once the loop has ended without a failure nothing is left.
SearchOK ==
  LET h == method.handles
      w == method.wanted
  IN  /\ active = "find" /\ cursor \in Seq(Objects)
      /\ ~method.failed =>
           /\ Len(h) + Len(cursor) = Len(w)
           /\ \A i \in 1 .. Len(h) : h[i] = w[i]
           /\ \A i \in 1 .. Len(cursor) : cursor[i] = w[Len(h) + i]
      /\ method.pc = "next" => ~method.failed
      /\ method.pc = "final" /\ ~method.failed => cursor = <<>>

\* The operation that is active is the one of the method under way.
MethodOK ==
  \/ method = NoMethod /\ active = "none" /\ cursor = <<>>
  \/ method \in FindMethod /\ SearchOK
  \/ method \in TransformMethod /\ active = "transform" /\ cursor = <<>>
  \/ method \in VerifyMethod /\ active = "verify" /\ cursor = <<>>
  \/ method.name = "get" /\ active = "none" /\ cursor = <<>>

CryptokiInv == present \subseteq Objects /\ MethodOK /\ ResultsAreTheTokens

(* A listing of finitely many objects is a sequence of them.               *)
LEMMA ListingIsASequence ==
  ASSUME NEW H \in SUBSET Objects
  PROVE  Listing(H) \in Seq(Objects)
<1>1. IsFiniteSet(H)
  BY CryptokiAssumption, FS_Subset
<1>2. Cardinality(H) \in Nat /\ ExistsBijection(1 .. Cardinality(H), H)
  BY <1>1, FS_CardinalityType
<1>3. \E q \in [1 .. Cardinality(H) -> H] : \A i, j \in DOMAIN q : q[i] = q[j] => i = j
  BY <1>2 DEF ExistsBijection, Bijection, Injection, IsInjective
<1>4. Listing(H) \in [1 .. Cardinality(H) -> H]
  BY <1>3 DEF Listing
<1> QED  BY <1>2, <1>4

(* Nothing is under way at first.                                          *)
LEMMA CryptokiInvInit == CryptokiInit => CryptokiInv
BY DEF CryptokiInit, CryptokiInv, MethodOK, ResultsAreTheTokens, NoMethod

(* A batch moves from the cursor to the handles; a short one is the last.  *)
LEMMA FindObjectsStep ==
  ASSUME CryptokiInv, FindObjects
  PROVE  CryptokiInv'
<1> DEFINE h == method.handles
           w == method.wanted
           found == IF Len(cursor) < FindBatch THEN Len(cursor) ELSE FindBatch
           batch == SubSeq(cursor, 1, found)
           rest  == SubSeq(cursor, found + 1, Len(cursor))
           go    == [method EXCEPT !.handles = h \o batch, !.pc = IF MoreToFind(found) THEN "next" ELSE "final"]
           fail  == [method EXCEPT !.failed = TRUE, !.pc = "final"]
<1>1. method.name = "find" /\ method.pc = "next"
  BY DEF FindObjects
<1>2. method \in FindMethod /\ SearchOK
  BY <1>1 DEF CryptokiInv, MethodOK, NoMethod, TransformMethod, VerifyMethod
<1>3. /\ h \in Seq(Objects) /\ w \in Seq(Objects) /\ cursor \in Seq(Objects)
      /\ Len(h) \in Nat /\ Len(w) \in Nat /\ Len(cursor) \in Nat
      /\ Len(h) + Len(cursor) = Len(w)
      /\ \A i \in 1 .. Len(h) : h[i] = w[i]
      /\ \A i \in 1 .. Len(cursor) : cursor[i] = w[Len(h) + i]
      /\ method.failed = FALSE /\ active = "find"
  BY <1>1, <1>2, LenProperties DEF SearchOK, FindMethod
<1>4. /\ present' = present /\ active' = active /\ result' = NoMethod
      /\ \/ method' = go /\ cursor' = rest
         \/ method' = fail /\ cursor' = cursor
  BY DEF FindObjects, Continue, tokenState
<1>5. ResultsAreTheTokens' /\ present' \subseteq Objects
  BY <1>4 DEF ResultsAreTheTokens, NoMethod, CryptokiInv
<1>6. CASE method' = fail /\ cursor' = cursor
  <2>1. /\ fail \in FindMethod /\ fail.failed = TRUE /\ fail.pc = "final"
    BY <1>2 DEF FindMethod
  <2>2. method' \in FindMethod /\ SearchOK'
    BY <1>3, <1>4, <1>6, <2>1 DEF SearchOK
  <2> QED  BY <1>5, <2>2 DEF CryptokiInv, MethodOK
<1>7. CASE method' = go /\ cursor' = rest
  <2>1. found \in Nat /\ found <= Len(cursor) /\ (~MoreToFind(found) => found = Len(cursor))
    BY <1>3, CryptokiAssumption DEF MoreToFind
  <2>w. w = method.wanted
    OBVIOUS
  <2> HIDE DEF found, h, w
  <2>2. \A i \in 1 .. Len(cursor) : cursor[i] \in Objects
    BY <1>3, ElementOfSeq
  <2>3. /\ batch \in Seq(Objects) /\ Len(batch) = found
        /\ \A i \in 1 .. found : batch[i] = cursor[i]
    <3>1. \A i \in 1 .. found : cursor[i] \in Objects
      BY <1>3, <2>1, <2>2
    <3>2. /\ batch \in Seq(Objects) /\ Len(batch) = IF 1 <= found THEN found - 1 + 1 ELSE 0
          /\ \A i \in 1 .. found - 1 + 1 : batch[i] = cursor[1 + i - 1]
      BY <2>1, <3>1, SubSeqProperties
    <3> QED  BY <2>1, <3>2
  <2>4. /\ rest \in Seq(Objects) /\ Len(rest) = Len(cursor) - found
        /\ \A i \in 1 .. Len(cursor) - found : rest[i] = cursor[found + i]
    <3>1. \A i \in found + 1 .. Len(cursor) : cursor[i] \in Objects
      BY <1>3, <2>1, <2>2
    <3>2. /\ rest \in Seq(Objects)
          /\ Len(rest) = IF found + 1 <= Len(cursor) THEN Len(cursor) - (found + 1) + 1 ELSE 0
          /\ \A i \in 1 .. Len(cursor) - (found + 1) + 1 : rest[i] = cursor[found + 1 + i - 1]
      BY <1>3, <2>1, <3>1, SubSeqProperties
    <3> QED  BY <1>3, <2>1, <3>2
  <2> HIDE DEF batch, rest
  <2>5. /\ h \o batch \in Seq(Objects) /\ Len(h \o batch) = Len(h) + found
        /\ \A i \in 1 .. Len(h) + found : (h \o batch)[i] = IF i <= Len(h) THEN h[i] ELSE batch[i - Len(h)]
    BY <1>3, <2>3, ConcatProperties, SMTT(30)
  <2>6. /\ go \in FindMethod /\ go.handles = h \o batch /\ go.wanted = w /\ go.failed = FALSE
        /\ go.pc = (IF MoreToFind(found) THEN "next" ELSE "final")
    BY <1>2, <1>3, <2>5, <2>w DEF FindMethod
  <2>7. \A i \in 1 .. Len(h) + found : (h \o batch)[i] = w[i]
    <3> SUFFICES ASSUME NEW i \in 1 .. Len(h) + found, i > Len(h)
                 PROVE  batch[i - Len(h)] = w[i]
      BY <1>3, <2>1, <2>5
    <3>1. i - Len(h) \in 1 .. found /\ i - Len(h) \in 1 .. Len(cursor) /\ Len(h) + (i - Len(h)) = i
      BY <1>3, <2>1
    <3> QED  BY <1>3, <2>3, <3>1
  <2>8. \A i \in 1 .. Len(rest) : rest[i] = w[Len(h) + found + i]
    <3> SUFFICES ASSUME NEW i \in 1 .. Len(rest)
                 PROVE  rest[i] = w[Len(h) + found + i]
      OBVIOUS
    <3>1. /\ found + i \in 1 .. Len(cursor) /\ Len(h) + (found + i) = Len(h) + found + i
          /\ i \in 1 .. Len(cursor) - found
      BY <1>3, <2>1, <2>4
    <3> QED  BY <1>3, <2>4, <3>1
  <2>9. Len(h) + found + Len(rest) = Len(w)
    BY <1>3, <2>1, <2>4
  <2>10. ~MoreToFind(found) => rest = <<>>
    <3>1. ~MoreToFind(found) => Len(rest) = 0
      BY <1>3, <2>1, <2>4
    <3> QED  BY <2>4, <3>1, EmptySeq
  <2> HIDE DEF go
  <2>11. method' \in FindMethod /\ SearchOK'
    BY <1>3, <1>4, <1>7, <2>4, <2>5, <2>6, <2>7, <2>8, <2>9, <2>10 DEF SearchOK
  <2> QED  BY <1>5, <2>11 DEF CryptokiInv, MethodOK
<1> QED  BY <1>4, <1>6, <1>7

(* FindFinal closes the search, and what it returns is all of it.          *)
LEMMA FindFinalStep ==
  ASSUME CryptokiInv, FindFinal
  PROVE  CryptokiInv'
<1>1. method.name = "find" /\ method.pc = "final"
  BY DEF FindFinal
<1>2. method \in FindMethod /\ SearchOK
  BY <1>1 DEF CryptokiInv, MethodOK, NoMethod, TransformMethod, VerifyMethod
<1>3. /\ method' = NoMethod /\ active' = "none" /\ cursor' = <<>> /\ present' = present
      /\ result' = IF method.failed THEN Threw
                   ELSE [name |-> "found", handles |-> method.handles, wanted |-> method.wanted]
  BY DEF FindFinal, Return, tokenState
<1>4. ~method.failed => method.handles = method.wanted
  <2> SUFFICES ASSUME ~method.failed PROVE method.handles = method.wanted
    OBVIOUS
  <2>1. /\ method.handles \in Seq(Objects) /\ method.wanted \in Seq(Objects) /\ Len(cursor) = 0
        /\ Len(method.handles) \in Nat
    BY <1>1, <1>2, EmptySeq, LenProperties DEF SearchOK, FindMethod
  <2>2. Len(method.handles) = Len(method.wanted)
    BY <1>2, <2>1 DEF SearchOK
  <2> QED  BY <1>2, <2>1, <2>2, SeqEqual DEF SearchOK
<1> QED
  BY <1>3, <1>4 DEF CryptokiInv, MethodOK, ResultsAreTheTokens, Threw

(* The other methods: each begins on an idle session and leaves it idle.   *)
LEMMA OtherMethodSteps ==
  ASSUME CryptokiInv,
         \/ FindInit \/ InitFails
         \/ TransformInit \/ TransformSize \/ TransformFill \/ VerifyInit \/ VerifyOnce
         \/ GetSizes \/ GetFill
  PROVE  CryptokiInv'
<1>0. present' = present /\ present' \subseteq Objects
  BY DEF CryptokiInv, FindInit, InitFails, TransformInit, TransformSize, TransformFill, VerifyInit,
         VerifyOnce, GetSizes, GetFill, tokenState
<1>1. CASE FindInit
  <2> DEFINE m == [name |-> "find", pc |-> "next", handles |-> <<>>, failed |-> FALSE, wanted |-> Listing(present)]
  <2>1. Listing(present) \in Seq(Objects) /\ Len(Listing(present)) \in Nat
    BY ListingIsASequence, LenProperties DEF CryptokiInv
  <2>2. method' = m /\ result' = NoMethod /\ active' = "find" /\ cursor' = Listing(present)
    BY <1>1 DEF FindInit, Begin, Continue
  <2>3. m \in FindMethod
    BY <2>1, EmptySeq DEF FindMethod
  <2>4. Len(<<>>) = 0 /\ m.handles = <<>> /\ m.wanted = Listing(present) /\ m.failed = FALSE /\ m.pc = "next"
    BY EmptySeq
  <2> HIDE DEF m
  <2>5. SearchOK'
    BY <2>1, <2>2, <2>4 DEF SearchOK
  <2> QED  BY <1>0, <2>2, <2>3, <2>5 DEF CryptokiInv, MethodOK, ResultsAreTheTokens, NoMethod
<1>2. CASE InitFails
  <2>1. method = NoMethod /\ method' = NoMethod /\ result' = Threw /\ UNCHANGED <<active, cursor>>
    BY <1>2 DEF InitFails, Throw, Return
  <2>2. active = "none" /\ cursor = <<>>
    BY <2>1 DEF CryptokiInv, MethodOK, NoMethod, FindMethod, TransformMethod, VerifyMethod
  <2> QED  BY <1>0, <2>1, <2>2 DEF CryptokiInv, MethodOK, ResultsAreTheTokens, Threw
<1>3. CASE TransformInit \/ VerifyInit
  <2>1. /\ method = NoMethod /\ result' = NoMethod /\ cursor' = cursor
        /\ \/ method' = [name |-> "transform", pc |-> "size", size |-> 0] /\ active' = "transform"
           \/ method' = [name |-> "verify", pc |-> "verify"] /\ active' = "verify"
    BY <1>3 DEF TransformInit, VerifyInit, Begin, Continue
  <2>2. cursor = <<>>
    BY <2>1 DEF CryptokiInv, MethodOK, NoMethod, FindMethod, TransformMethod, VerifyMethod
  <2> QED
    BY <1>0, <2>1, <2>2 DEF CryptokiInv, MethodOK, ResultsAreTheTokens, NoMethod, TransformMethod, VerifyMethod
<1>4. CASE TransformSize
  <2>1. method \in TransformMethod /\ active = "transform" /\ cursor = <<>> /\ cursor' = cursor
    <3>1. method.name = "transform" /\ cursor' = cursor
      BY <1>4 DEF TransformSize
    <3> QED  BY <3>1 DEF CryptokiInv, MethodOK, NoMethod, FindMethod, VerifyMethod
  <2>2. CASE \E size \in 0 .. MaxLength :
               method' = [method EXCEPT !.size = size, !.pc = "fill"] /\ result' = NoMethod /\ active' = active
    <3>1. method' \in TransformMethod /\ active' = active
      <4>1. PICK size \in 0 .. MaxLength : method' = [method EXCEPT !.size = size, !.pc = "fill"]
        BY <2>2
      <4>2. size \in Nat
        BY CryptokiAssumption
      <4> QED  BY <2>1, <2>2, <4>1, <4>2 DEF TransformMethod
    <3> QED  BY <1>0, <2>1, <2>2, <3>1 DEF CryptokiInv, MethodOK, ResultsAreTheTokens, NoMethod
  <2>3. CASE method' = NoMethod /\ result' = Threw /\ active' = "none"
    <3> QED  BY <1>0, <2>1, <2>3 DEF CryptokiInv, MethodOK, ResultsAreTheTokens, Threw
  <2> QED  BY <1>4, <2>2, <2>3 DEF TransformSize, Continue, Throw, Return
<1>5. CASE TransformFill
  <2>1. method \in TransformMethod /\ cursor = <<>>
    BY <1>5 DEF TransformFill, CryptokiInv, MethodOK, NoMethod, FindMethod, VerifyMethod
  <2>2. /\ method' = NoMethod /\ active' = "none" /\ cursor' = cursor
        /\ \/ result' = Threw
           \/ \E length : result' = [name |-> "output", length |-> length, produced |-> length]
    BY <1>5 DEF TransformFill, Throw, Return, Sliced
  <2> QED  BY <1>0, <2>1, <2>2 DEF CryptokiInv, MethodOK, ResultsAreTheTokens, Threw
<1>6. CASE VerifyOnce
  <2>1. cursor = <<>>
    BY <1>6 DEF VerifyOnce, CryptokiInv, MethodOK, NoMethod, FindMethod, TransformMethod
  <2>2. /\ method' = NoMethod /\ active' = "none" /\ cursor' = cursor
        /\ result' \in {Threw, [name |-> "verified"]}
    BY <1>6 DEF VerifyOnce, Throw, Return
  <2> QED  BY <1>0, <2>1, <2>2 DEF CryptokiInv, MethodOK, ResultsAreTheTokens, Threw
<1>7. CASE GetSizes
  <2>1. /\ method = NoMethod /\ method'.name = "get" /\ result' = NoMethod
        /\ active' = active /\ cursor' = cursor
    BY <1>7 DEF GetSizes, Begin, Continue
  <2>2. active = "none" /\ cursor = <<>>
    BY <2>1 DEF CryptokiInv, MethodOK, NoMethod, FindMethod, TransformMethod, VerifyMethod
  <2> QED  BY <1>0, <2>1, <2>2 DEF CryptokiInv, MethodOK, ResultsAreTheTokens, NoMethod
<1>8. CASE GetFill
  <2>1. active = "none" /\ cursor = <<>>
    BY <1>8 DEF GetFill, CryptokiInv, MethodOK, NoMethod, FindMethod, TransformMethod, VerifyMethod
  <2> DEFINE Read(r, a) ==
          /\ result' = [name |-> "attributes", real |-> r, token |-> value, attributes |-> a]
          /\ r => a = [t \in Types |-> Reported(t, method.sizes[t])]
          /\ method' = NoMethod /\ active' = active /\ cursor' = cursor
  <2>2. \/ Read(TRUE, [t \in Types |-> Reported(t, method.sizes[t])])
        \/ Read(FALSE, [t \in Types |-> Unwritten(method.sizes[t])])
    BY <1>8 DEF GetFill, Return
  <2>3. PICK real \in BOOLEAN : \E a : Read(real, a)
    <3> HIDE DEF Read
    <3> QED  BY <2>2
  <2>4. PICK a : Read(real, a)
    BY <2>3
  <2>5. real => \A t \in Types : a[t] \in {value[t], NoAttribute}
    BY <2>4 DEF Reported, Filled
  <2>6. ResultsAreTheTokens'
    BY <2>4, <2>5 DEF ResultsAreTheTokens
  <2> QED  BY <1>0, <2>1, <2>4, <2>6 DEF CryptokiInv, MethodOK
<1> QED  BY <1>1, <1>2, <1>3, <1>4, <1>5, <1>6, <1>7, <1>8

(* Methods of one call, and what other processes do, touch no operation.   *)
LEMMA TokenChangeSteps ==
  ASSUME CryptokiInv,
         SessionCall \/ SetAttributes \/ DestroyObject \/ GenerateOrDerive \/ OtherProcess
  PROVE  CryptokiInv'
<1>1. /\ method' = method /\ active' = active /\ cursor' = cursor
      /\ result' \in {NoMethod, [name |-> "done"]}
  BY DEF SessionCall, SetAttributes, DestroyObject, GenerateOrDerive, OtherProcess, CallOnce, Return
<1>2. present' \subseteq Objects
  BY DEF SessionCall, SetAttributes, DestroyObject, GenerateOrDerive, OtherProcess, CallOnce, CryptokiInv
<1>3. ResultsAreTheTokens'
  BY <1>1 DEF ResultsAreTheTokens, NoMethod
<1> QED  BY <1>1, <1>2, <1>3 DEF CryptokiInv, MethodOK, SearchOK

(* Every step of the binding preserves its invariant.                      *)
LEMMA CryptokiInvNext == CryptokiInv /\ [Next]_vars => CryptokiInv'
<1> SUFFICES ASSUME CryptokiInv, [Next]_vars PROVE CryptokiInv'
  OBVIOUS
<1>1. CASE CryptokiNext
  BY <1>1, FindObjectsStep, FindFinalStep, OtherMethodSteps, TokenChangeSteps DEF CryptokiNext
<1>2. CASE UNCHANGED cryptokiVars
  BY <1>2 DEF cryptokiVars, CryptokiInv, MethodOK, SearchOK, ResultsAreTheTokens
<1> QED  BY <1>1, <1>2 DEF Next, vars

(* Nothing is under way, so nothing is active.                             *)
LEMMA CryptokiInvIdle == CryptokiInv => SessionLeftIdle
BY DEF CryptokiInv, MethodOK, SessionLeftIdle, NoMethod, FindMethod, TransformMethod, VerifyMethod

(***************************************************************************)
(* However a method of FfiModule ended, the session goes back to its pool  *)
(* without an operation active on it and without an open search.           *)
(***************************************************************************)
THEOREM SessionsComeBackIdle == Spec => []SessionLeftIdle
<1>1. Init => CryptokiInv
  BY CryptokiInvInit DEF Init
<1> QED  BY <1>1, CryptokiInvNext, CryptokiInvIdle, PTL DEF Spec

(***************************************************************************)
(* What findObjects, twoPhase and getAttributes return is what the token   *)
(* had, for any number of objects, any batch size and any changes made by  *)
(* other processes meanwhile.                                              *)
(***************************************************************************)
THEOREM MethodsReturnTheTokens == Spec => []ResultsAreTheTokens
<1>1. Init => CryptokiInv
  BY CryptokiInvInit DEF Init
<1>2. CryptokiInv => ResultsAreTheTokens
  BY DEF CryptokiInv
<1> QED  BY <1>1, <1>2, CryptokiInvNext, PTL DEF Spec

-----------------------------------------------------------------------------
(* The provider.                                                           *)

ObjectFields == {"h", "class", "label", "id", "kind", "size", "enabled", "disablable", "owner"}
CallFields   == {"pc", "op", "asked", "uri", "suffix", "kind", "size", "base", "h", "found", "next",
                 "temps", "ok", "cleared", "key", "form", "aborted", "read"}
UriFields    == {"label", "id", "class"}

\* A call that has not generated a key yet, if it ever will.
Before == {"idle", "find", "findAny", "describe", "generate"}

\* A call that has, or may have, derived secrets on the token.
Deriving == {"deriveAes", "decrypt", "clean", "readSecret", "cleanExtracted"}

\* A rotation that has generated the replacement.
Replaced == {"readBack", "probe", "clear", "fulfilled"}

\* One that has read what kind of key it replaces.
Rotates(k) == k.op = "rotateKey" /\ k.read /\ k.pc \in {"generate"} \cup Replaced

Secrets == {"sensitive", "extractable"}
KeyHandles(c)    == {<<c, 1>>, <<c, 2>>}
SecretHandles(c) == {<<c, 3>>, <<c, 4>>, <<c, 5>>}

\* Whose key an id is, and which id a handle has, for good.
Owns(id, owner) == IF id \in Calls THEN owner = id
                   ELSE \E p \in Provisioned : p.id = id /\ p.owner = owner
HasId(h, id) == IF h[1] \in Calls THEN \/ h \in KeyHandles(h[1]) /\ id = h[1]
                                       \/ h \in SecretHandles(h[1]) /\ id = NoId
                ELSE \E p \in Provisioned : p.h = h /\ p.id = id

\* An object was provisioned, or generated by a call, or derived by one.
ObjectOK(o) ==
  /\ DOMAIN o = ObjectFields
  /\ o.h # <<>> /\ o.owner = o.h[1] /\ HasId(o.h, o.id)
  /\ o.id # NoId => Owns(o.id, o.owner)
  /\ o.h[1] \in Calls /\ o.id = NoId => o.enabled = {} /\ o.kind \notin DOMAIN KeyGen
  /\ o.kind \in Secrets => o.h[1] \in Calls /\ o.id = NoId
  /\ o.kind = "extractable" => AllowSecretExtraction

\* Where a call is tells which operation it runs.
OpOK(k) ==
  /\ k.pc \in {"find", "findAny"} => k.op \notin DOMAIN Generates
  /\ k.pc = "describe" => k.op \in {"rotateKey", "getKey"}
  /\ k.pc \in {"generate", "readBack"} =>
       k.op \in DOMAIN Generates \cup {"rotateKey"} /\ k.kind \in DOMAIN KeyGen
  /\ k.pc \in {"probe", "clear"} => k.op = "deactivateKey" \/ (k.op = "rotateKey" /\ RotateDisablesPrevious)
  /\ k.pc = "destroy" => k.op = "deactivateKey" /\ DeactivateDestroys
  /\ k.pc \in {"public", "readPublic"} => k.op \in PublicOps \cup {"getKey"}
  /\ k.pc \in {"use", "retry"} =>
       k.op \notin {"rotateKey", "getKey", "deactivateKey", "ecdhDecode"} \cup DOMAIN Generates
  /\ k.pc \in {"derive", "extract"} \cup Deriving => k.op = "ecdhDecode"
  /\ k.pc \in {"extract", "readSecret", "cleanExtracted"} => AllowSecretExtraction
  /\ k.pc \notin Done \cup {"idle"} /\ k.op \in SignOps => Chosen(k.op) # "none"

\* What a call has of the key its reference names.
ReferenceOK(k) ==
  /\ DOMAIN k.uri = UriFields
  /\ k.asked.id # NoId => /\ k.read => k.uri.id = k.asked.id
                          /\ k.found # "none" => Owns(k.asked.id, k.found)
  /\ k.read /\ k.uri.id # NoId => /\ k.found # "none" => Owns(k.uri.id, k.found)
                                  /\ k.key # "none" => Owns(k.uri.id, k.key)
                                  /\ k.h # <<>> => Owns(k.uri.id, k.h[1])
  /\ k.pc \in {"find", "findAny", "describe"} => k.key = "none" /\ k.read
  /\ k.pc = "describe" => /\ k.found = k.h[1]
                          /\ k.uri.id # NoId => HasId(k.h, k.uri.id)
  /\ k.pc = "public" => k.next \in Nat \ {0} /\ (k.uri.id # NoId => k.next <= 4)
  /\ k.pc \notin {"public", "readPublic"} => k.next = 1

\* What the finally blocks of a call have still to destroy.
TempsOK(c, k) ==
  /\ k.pc = "deriveAes" => k.temps = <<<<c, 3>>>>
  /\ k.pc = "decrypt" => k.temps = <<<<c, 4>>, <<c, 3>>>>
  /\ k.pc = "clean" => k.temps \in {<<<<c, 4>>, <<c, 3>>>>, <<<<c, 3>>>>}
  /\ k.pc \in {"readSecret", "cleanExtracted"} => k.temps = <<<<c, 5>>>>

\* A call clears the usage attributes at its very end, and a rotation only
\* when it is to disable the previous key.
OutcomeOK(k) ==
  /\ k.cleared \in BOOLEAN
  /\ k.cleared => k.pc = "fulfilled"
  /\ k.op = "rotateKey" /\ k.pc = "fulfilled" => k.cleared = RotateDisablesPrevious
  /\ k.pc = "fulfilled" /\ k.op \in SignOps => k.form = Expects[k.op]

CallOK(c, k) == DOMAIN k = CallFields /\ OpOK(k) /\ ReferenceOK(k) /\ TempsOK(c, k) /\ OutcomeOK(k)

\* The handles of a key nobody has before the call has generated it.
FreshOK ==
  \A c \in Calls : calls[c].pc \in Before =>
    /\ \A o \in objects : o.h \notin KeyHandles(c)
    /\ \A d \in Calls : calls[d].h \notin KeyHandles(c)

\* A secret is one of those its call has still to destroy.
SecretsOK ==
  \A o \in objects : o.kind \in Secrets =>
    calls[o.owner].pc \in Deriving /\ \E i \in DOMAIN calls[o.owner].temps : calls[o.owner].temps[i] = o.h

\* The keys of a call are of the kind it was to generate.
KindsOK ==
  \A c \in Calls : calls[c].pc # "rejected" =>
    \A o \in objects : o.h \in KeyHandles(c) => o.kind = calls[c].kind

\* A rotation has its replacement, and the key it has cleared stays so.
RotationsOK ==
  \A c \in Calls : calls[c].op = "rotateKey" =>
    /\ calls[c].cleared => \A o \in objects : o.h = calls[c].h => o.enabled = {}
    /\ calls[c].pc \in Replaced /\ ~DeactivateDestroys => \E o \in objects : o.h \in KeyHandles(c)

\* A handle is of one kind of key, unless it is a derived secret's.
OneKindOK ==
  \A x, y \in objects : x.h = y.h =>
    x.kind = y.kind \/ \E d \in Calls : x.h \in SecretHandles(d)

\* What a rotation replaces is of the kind it has read, and no derived secret.
ReplacedOK ==
  \A c \in Calls : Rotates(calls[c]) =>
    /\ \A d \in Calls : calls[c].h \notin SecretHandles(d)
    /\ \A o \in objects : o.h = calls[c].h => o.kind = calls[c].kind

\* A reference that was returned is one to the key of the call that made it.
ReturnedOK == \A r \in returned : r.owner \in Calls /\ r.uri.id = r.owner /\ DOMAIN r.uri = UriFields

ProviderInv ==
  /\ \A o \in objects : ObjectOK(o)
  /\ DOMAIN calls = Calls
  /\ \A c \in Calls : CallOK(c, calls[c])
  /\ FreshOK /\ SecretsOK /\ KindsOK /\ RotationsOK /\ OneKindOK /\ ReplacedOK /\ ReturnedOK

(* An id is the key of one owner, a handle has one id.                     *)
LEMMA OwnsIsUnique ==
  ASSUME NEW id, id # NoId, NEW a, NEW b, Owns(id, a), Owns(id, b)
  PROVE  a = b
BY ProviderAssumption DEF Owns, NoId

(* The same for the id of a handle.                                        *)
LEMMA HasIdIsUnique ==
  ASSUME NEW h, NEW i, NEW j, HasId(h, i), HasId(h, j)
  PROVE  i = j
BY ProviderAssumption DEF HasId, NoId, KeyHandles, SecretHandles

(* An object that is held is one of the token's, with that handle.         *)
LEMMA HeldObject ==
  ASSUME ProviderInv, NEW h, Holds(h)
  PROVE  Obj(h) \in objects /\ Obj(h).h = h /\ ObjectOK(Obj(h)) /\ Obj(h).owner = h[1] /\ h # <<>>
<1>1. Obj(h) \in objects /\ Obj(h).h = h
  BY DEF Holds, Obj
<1> QED  BY <1>1 DEF ProviderInv, ObjectOK

(* What is found through a URI with an id is of the key that has the id.   *)
LEMMA MatchIsOwned ==
  ASSUME ProviderInv, NEW uri, NEW class, NEW o \in Matches(uri, class)
  PROVE  /\ o \in objects /\ ObjectOK(o) /\ o.owner = o.h[1]
         /\ uri.id # NoId => o.id = uri.id /\ Owns(uri.id, o.owner) /\ HasId(o.h, uri.id)
<1>1. o \in objects /\ ObjectOK(o) /\ uri.id \in {NoId, o.id}
  BY DEF Matches, ProviderInv
<1>2. o.owner = o.h[1] /\ HasId(o.h, o.id) /\ (o.id # NoId => Owns(o.id, o.owner))
  BY <1>1 DEF ObjectOK
<1> QED  BY <1>1, <1>2

(* What is left of a call that was rejected.                               *)
LEMMA RejectedCall ==
  ASSUME NEW r, NEW s, s = Settled(r, "rejected")
  PROVE  /\ DOMAIN s = CallFields /\ s.pc = "rejected" /\ s.op = r.op /\ s.cleared = r.cleared
         /\ s.asked = NoUri /\ s.uri = NoUri /\ s.h = <<>> /\ s.found = "none" /\ s.key = "none"
         /\ s.next = 1
BY DEF Settled, Idle, CallFields

(* What is remembered of a call that was fulfilled.                        *)
LEMMA FulfilledCall ==
  ASSUME NEW r, NEW s, s = Settled(r, "fulfilled")
  PROVE  /\ DOMAIN s = CallFields /\ s.pc = "fulfilled" /\ s.op = r.op /\ s.cleared = r.cleared
         /\ s.asked = r.asked /\ s.uri = r.uri /\ s.h = r.h /\ s.found = r.found /\ s.key = r.key
         /\ s.kind = r.kind /\ s.form = r.form /\ s.next = 1 /\ s.read = r.read
BY DEF Settled, Idle, CallFields

(* The fields of a URI that is not given.                                  *)
LEMMA NoUriFields == DOMAIN NoUri = UriFields /\ NoUri.id = NoId /\ NoUri.label = <<>>
BY DEF NoUri, UriFields

(* At first the token has what was provisioned, and no call has begun.     *)
LEMMA ProviderInvInit == ProviderInit => ProviderInv
<1> SUFFICES ASSUME ProviderInit PROVE ProviderInv
  OBVIOUS
<1>1. objects = Provisioned /\ calls = [c \in Calls |-> Idle] /\ returned = {}
  BY DEF ProviderInit
<1>2. \A o \in objects : ObjectOK(o)
  BY <1>1, ProviderAssumption DEF ObjectOK, ObjectFields, HasId, Owns, Secrets, NoId
<1>3. /\ DOMAIN Idle = CallFields /\ Idle.pc = "idle" /\ Idle.op = "none" /\ Idle.cleared = FALSE
      /\ Idle.asked = NoUri /\ Idle.uri = NoUri /\ Idle.h = <<>> /\ Idle.found = "none" /\ Idle.key = "none"
      /\ Idle.next = 1 /\ Idle.read = TRUE
  BY DEF Idle, CallFields
<1>4. \A c \in Calls : CallOK(c, Idle)
  BY <1>3, NoUriFields DEF CallOK, OpOK, ReferenceOK, TempsOK, OutcomeOK, Done, Deriving
<1>5. FreshOK
  <2> SUFFICES ASSUME NEW c \in Calls
               PROVE  /\ \A o \in objects : o.h \notin KeyHandles(c)
                      /\ \A d \in Calls : calls[d].h \notin KeyHandles(c)
    BY DEF FreshOK
  <2>1. \A o \in objects : o.h[1] # c
    BY <1>1, ProviderAssumption
  <2>2. \A h \in KeyHandles(c) : h[1] = c /\ h # <<>>
    BY DEF KeyHandles
  <2> QED  BY <1>1, <1>3, <2>1, <2>2
<1>6. SecretsOK /\ KindsOK /\ RotationsOK /\ OneKindOK /\ ReplacedOK /\ ReturnedOK
  BY <1>1, <1>3, ProviderAssumption
     DEF SecretsOK, KindsOK, RotationsOK, OneKindOK, ReplacedOK, Rotates, ReturnedOK, Secrets, KeyHandles
<1> QED  BY <1>1, <1>2, <1>3, <1>4, <1>5, <1>6 DEF ProviderInv

\* What a step that leaves the token alone makes of a call.
Moves(c, k) ==
  /\ CallOK(c, k) /\ calls[c].pc \notin Done
  /\ k.pc \in Before => calls[c].pc \in Before
  /\ k.h = calls[c].h \/ k.h = <<>> \/ \E o \in objects : o.h = k.h
  /\ calls[c].pc \in Deriving => k.pc \in Deriving /\ k.temps = calls[c].temps
  /\ k.kind = calls[c].kind \/ k.pc = "rejected" \/ calls[c].pc \in Before
  /\ ~k.cleared
  /\ k.op = "rotateKey" /\ k.pc \in Replaced => calls[c].op = "rotateKey" /\ calls[c].pc \in Replaced
  /\ Rotates(k) => \/ Rotates(calls[c]) /\ k.h = calls[c].h /\ k.kind = calls[c].kind
                   \/ /\ \A d \in Calls : k.h \notin SecretHandles(d)
                      /\ \A o \in objects : o.h = k.h => o.kind = k.kind

(* Such a step preserves the invariant.                                    *)
LEMMA MoveStep ==
  ASSUME ProviderInv, NEW c \in Calls, NEW k, Moves(c, k),
         calls' = [calls EXCEPT ![c] = k], objects' = objects, ReturnedOK'
  PROVE  ProviderInv'
<1>1. /\ DOMAIN calls' = Calls /\ calls'[c] = k
      /\ \A d \in Calls : d # c => calls'[d] = calls[d]
  BY DEF ProviderInv
<1>2. (\A o \in objects : ObjectOK(o))' /\ (\A d \in Calls : CallOK(d, calls[d]))'
  BY <1>1 DEF ProviderInv, Moves, ObjectOK, CallOK, OpOK, ReferenceOK, TempsOK, OutcomeOK
<1>3. FreshOK'
  <2> SUFFICES ASSUME NEW d \in Calls, calls'[d].pc \in Before
               PROVE  /\ \A o \in objects : o.h \notin KeyHandles(d)
                      /\ \A x \in Calls : calls'[x].h \notin KeyHandles(d)
    BY DEF FreshOK
  <2>1. calls[d].pc \in Before
    BY <1>1 DEF Moves
  <2>2. FreshOK!(d)!2
    BY <2>1 DEF ProviderInv, FreshOK
  <2>3. <<>> \notin KeyHandles(d)
    BY DEF KeyHandles
  <2> QED  BY <1>1, <2>2, <2>3 DEF Moves
<1>4. SecretsOK'
  <2> SUFFICES ASSUME NEW o \in objects, o.kind \in Secrets
               PROVE  /\ calls'[o.owner].pc \in Deriving
                      /\ \E i \in DOMAIN calls'[o.owner].temps : calls'[o.owner].temps[i] = o.h
    BY DEF SecretsOK
  <2>1. o.owner \in Calls
    BY DEF ProviderInv, ObjectOK
  <2>2. calls[o.owner].pc \in Deriving /\ \E i \in DOMAIN calls[o.owner].temps : calls[o.owner].temps[i] = o.h
    BY DEF ProviderInv, SecretsOK
  <2>3. calls'[o.owner].pc \in Deriving /\ calls'[o.owner].temps = calls[o.owner].temps
    BY <1>1, <2>1, <2>2 DEF Moves
  <2> QED  BY <2>2, <2>3
<1>5. KindsOK'
  <2> SUFFICES ASSUME NEW d \in Calls, calls'[d].pc # "rejected", NEW o \in objects, o.h \in KeyHandles(d)
               PROVE  o.kind = calls'[d].kind
    BY DEF KindsOK
  <2>1. CASE d # c
    BY <1>1, <2>1 DEF ProviderInv, KindsOK
  <2>2. CASE d = c
    <3>1. calls[c].pc \notin Before
      BY <2>2 DEF ProviderInv, FreshOK
    <3>2. k.kind = calls[c].kind
      BY <1>1, <2>2, <3>1 DEF Moves
    <3>3. calls[c].pc # "rejected"
      BY DEF Moves, Done
    <3> QED  BY <1>1, <2>2, <3>2, <3>3 DEF ProviderInv, KindsOK
  <2> QED  BY <2>1, <2>2
<1>6. RotationsOK'
  BY <1>1 DEF ProviderInv, RotationsOK, Moves
<1>7. ReplacedOK'
  <2> SUFFICES ASSUME NEW d \in Calls, Rotates(calls'[d])
               PROVE  /\ \A e \in Calls : calls'[d].h \notin SecretHandles(e)
                      /\ \A o \in objects : o.h = calls'[d].h => o.kind = calls'[d].kind
    BY DEF ReplacedOK, Rotates
  <2> QED  BY <1>1 DEF ProviderInv, ReplacedOK, Moves
<1>8. OneKindOK'
  BY DEF ProviderInv, OneKindOK
<1> QED  BY <1>1, <1>2, <1>3, <1>4, <1>5, <1>6, <1>7, <1>8 DEF ProviderInv

(* A call that goes on changes its place, and nothing else.                *)
LEMMA PcFields ==
  ASSUME NEW k, DOMAIN k = CallFields, NEW pc, NEW s, s = [k EXCEPT !.pc = pc]
  PROVE  /\ DOMAIN s = CallFields /\ s.pc = pc /\ s.op = k.op /\ s.cleared = k.cleared
         /\ s.asked = k.asked /\ s.uri = k.uri /\ s.h = k.h /\ s.found = k.found /\ s.key = k.key
         /\ s.kind = k.kind /\ s.form = k.form /\ s.next = k.next /\ s.temps = k.temps /\ s.read = k.read
BY DEF CallFields

(* A call that is not over may be rejected, once it has nothing to destroy.*)
LEMMA RejectMoves ==
  ASSUME ProviderInv, NEW c \in Calls, calls[c].pc \notin Done \cup Deriving, NEW r, r.cleared = FALSE
  PROVE  Moves(c, Settled(r, "rejected"))
<1> DEFINE s == Settled(r, "rejected")
<1>1. /\ DOMAIN s = CallFields /\ s.pc = "rejected" /\ s.op = r.op /\ s.cleared = FALSE
      /\ s.asked = NoUri /\ s.uri = NoUri /\ s.h = <<>> /\ s.found = "none" /\ s.key = "none"
      /\ s.next = 1
  BY RejectedCall
<1> HIDE DEF s
<1>2. CallOK(c, s)
  BY <1>1, NoUriFields DEF CallOK, OpOK, ReferenceOK, TempsOK, OutcomeOK, Done, Deriving
<1>3. Moves(c, s)
  BY <1>1, <1>2 DEF Moves, Rotates, Before, Deriving, Replaced, Done
<1> QED  BY <1>3 DEF s

(* It may be fulfilled with what it has of its key; a rotation that is not *)
(* to disable the previous key, once the replacement is there.             *)
LEMMA FulfilMoves ==
  ASSUME ProviderInv, NEW c \in Calls, calls[c].pc \notin Done \cup Deriving, NEW r,
         r.op = calls[c].op, r.asked = calls[c].asked, r.uri = calls[c].uri, r.h = calls[c].h,
         r.found = calls[c].found, r.kind = calls[c].kind, r.cleared = calls[c].cleared,
         r.read = calls[c].read,
         r.read /\ r.uri.id # NoId /\ r.key # "none" => Owns(r.uri.id, r.key),
         r.op \in SignOps => r.form = Expects[r.op],
         r.op = "rotateKey" => RotateDisablesPrevious = FALSE /\ calls[c].pc \in Replaced
  PROVE  Moves(c, Settled(r, "fulfilled"))
<1> DEFINE s == Settled(r, "fulfilled")
<1>1. /\ DOMAIN s = CallFields /\ s.pc = "fulfilled" /\ s.op = r.op /\ s.cleared = r.cleared
      /\ s.asked = r.asked /\ s.uri = r.uri /\ s.h = r.h /\ s.found = r.found /\ s.key = r.key
      /\ s.kind = r.kind /\ s.form = r.form /\ s.next = 1 /\ s.read = r.read
  BY FulfilledCall
<1> HIDE DEF s
<1>2. CallOK(c, calls[c]) /\ calls[c].cleared = FALSE
  BY DEF ProviderInv, CallOK, OutcomeOK, Done
<1>3. OpOK(s) /\ TempsOK(c, s) /\ OutcomeOK(s)
  BY <1>1, <1>2 DEF OpOK, TempsOK, OutcomeOK, Done, Deriving
<1>4. ReferenceOK(s)
  BY <1>1, <1>2 DEF CallOK, ReferenceOK
<1>5. Moves(c, s)
  BY <1>1, <1>2, <1>3, <1>4 DEF Moves, Rotates, CallOK, Before, Deriving, Replaced, Done
<1> QED  BY <1>5 DEF s

(* The references stay as they are.                                        *)
LEMMA ReturnedStays == ASSUME ProviderInv, returned' = returned PROVE ReturnedOK'
BY DEF ProviderInv, ReturnedOK

(* A rejection that leaves the token alone.                                *)
LEMMA RejectStep ==
  ASSUME ProviderInv, NEW c \in Calls, calls[c].pc \notin Done \cup Deriving,
         Reject(c), objects' = objects, returned' = returned
  PROVE  ProviderInv'
<1>1. calls[c].cleared = FALSE
  BY DEF ProviderInv, CallOK, OutcomeOK, Done
<1>2. calls' = [calls EXCEPT ![c] = Settled(calls[c], "rejected")]
  BY DEF Reject, GoTo, Set, Done
<1> QED  BY <1>1, <1>2, RejectMoves, MoveStep, ReturnedStays

(* A call that starts has its operation, its reference and nothing yet of  *)
(* a key.                                                                  *)
LEMMA StartStep ==
  ASSUME ProviderInv, NEW c \in Calls, NEW op, NEW uri \in Known, NEW suffix, NEW size,
         Start(c, op, uri, suffix, size)
  PROVE  ProviderInv'
<1> DEFINE kind == IF op \in DOMAIN Generates THEN Generates[op] ELSE "none"
           s == [Idle EXCEPT !.op = op, !.asked = uri, !.uri = ResolveKeyUri(uri), !.suffix = suffix,
                             !.kind = kind, !.size = size, !.pc = FirstStep(op)]
<1>1. /\ calls[c].pc = "idle" /\ Admissible(op, uri)
      /\ calls' = [calls EXCEPT ![c] = s] /\ objects' = objects /\ returned' = returned
  BY DEF Start, Set
<1>2. /\ DOMAIN s = CallFields /\ s.pc = FirstStep(op) /\ s.op = op /\ s.cleared = FALSE
      /\ s.asked = uri /\ s.uri = ResolveKeyUri(uri) /\ s.h = <<>> /\ s.found = "none" /\ s.key = "none"
      /\ s.next = 1 /\ s.kind = kind /\ s.read = TRUE
  BY DEF Idle, CallFields
<1> HIDE DEF s
<1>3. /\ DOMAIN ResolveKeyUri(uri) = UriFields
      /\ uri.id # NoId => ResolveKeyUri(uri).id = uri.id
  <2>1. DOMAIN uri = UriFields
    <3>1. CASE uri \in References
      BY <3>1, ProviderAssumption DEF UriFields
    <3>2. CASE \E r \in returned : uri = r.uri
      BY <3>2 DEF ProviderInv, ReturnedOK
    <3> QED  BY <3>1, <3>2, NoUriFields DEF Known
  <2>2. DOMAIN KeyUri = UriFields
    BY ProviderAssumption DEF UriFields
  <2> QED  BY <2>1, <2>2, NoUriFields DEF ResolveKeyUri
<1>4. /\ op \in DOMAIN Generates => FirstStep(op) = "generate" /\ kind \in DOMAIN KeyGen
      /\ op \notin DOMAIN Generates /\ op \in PublicOps => FirstStep(op) = "public"
      /\ op \notin DOMAIN Generates /\ op \notin PublicOps => FirstStep(op) = "find"
      /\ op = "rotateKey" => FirstStep(op) = "find"
  BY DEF FirstStep, Generates, KeyGen, PublicOps
<1>5. op \in SignOps => op \in UsageOps /\ op \notin DOMAIN Generates /\ Chosen(op) # "none"
  <2>1. op \in SignOps => op \in UsageOps /\ op \notin DOMAIN Generates
    BY DEF SignOps, Expects, UsageOps, Plan, Generates
  <2> QED  BY <1>1, <2>1 DEF Admissible
<1>6. s.pc \in {"generate", "public", "find"}
  BY <1>2, <1>4
<1> HIDE DEF kind
<1>7. OpOK(s) /\ TempsOK(c, s) /\ OutcomeOK(s)
  BY <1>2, <1>4, <1>5, <1>6 DEF OpOK, TempsOK, OutcomeOK, Done, Deriving
<1>8. ReferenceOK(s)
  BY <1>2, <1>3, <1>6 DEF ReferenceOK
<1>9. Moves(c, s)
  BY <1>1, <1>2, <1>4, <1>6, <1>7, <1>8 DEF Moves, Rotates, CallOK, Before, Deriving, Replaced, Done
<1> QED  BY <1>1, <1>9, MoveStep, ReturnedStays

(* A call that is not even started, or goes to the local provider.         *)
LEMMA StartOtherwiseStep ==
  ASSUME ProviderInv, NEW c \in Calls, NEW op,
         (\E uri \in Known : StartRejected(c, op, uri)) \/ StartWithoutUri(c, op)
  PROVE  ProviderInv'
<1>1. calls[c].pc = "idle" /\ objects' = objects /\ returned' = returned
  BY DEF StartRejected, StartWithoutUri
<1>2. calls[c].pc \notin Done \cup Deriving
  BY <1>1 DEF Done, Deriving
<1>3. CASE \E uri \in Known : StartRejected(c, op, uri)
  <2>1. calls' = [calls EXCEPT ![c] = Settled([Idle EXCEPT !.op = op], "rejected")]
    BY <1>3 DEF StartRejected, Set
  <2>2. [Idle EXCEPT !.op = op].cleared = FALSE
    BY DEF Idle
  <2> QED  BY <1>1, <1>2, <2>1, <2>2, RejectMoves, MoveStep, ReturnedStays
<1>4. CASE StartWithoutUri(c, op)
  <2> DEFINE pc == IF op \in UsageOps \cup PublicOps THEN "local" ELSE "rejected"
             s == [Idle EXCEPT !.op = op, !.pc = pc]
  <2>1. calls' = [calls EXCEPT ![c] = s] /\ pc \in {"local", "rejected"}
    BY <1>4 DEF StartWithoutUri, Set
  <2> HIDE DEF pc
  <2>2. /\ DOMAIN s = CallFields /\ s.pc = pc /\ s.cleared = FALSE
        /\ s.asked = NoUri /\ s.uri = NoUri /\ s.h = <<>> /\ s.found = "none" /\ s.key = "none"
        /\ s.next = 1
    BY DEF Idle, CallFields
  <2> HIDE DEF s
  <2>3. CallOK(c, s)
    BY <2>1, <2>2, NoUriFields DEF CallOK, OpOK, ReferenceOK, TempsOK, OutcomeOK, Done, Deriving
  <2>4. Moves(c, s)
    BY <1>1, <2>1, <2>2, <2>3 DEF Moves, Rotates, Before, Deriving, Replaced, Done
  <2> QED  BY <1>1, <2>1, <2>4, MoveStep, ReturnedStays
<1> QED  BY <1>3, <1>4

(* The caller goes away, the operation goes on.                            *)
LEMMA AbortStep ==
  ASSUME ProviderInv, NEW c \in Calls, Abort(c)
  PROVE  ProviderInv'
<1> DEFINE k == calls[c]
           s == [k EXCEPT !.aborted = TRUE]
<1>1. /\ calls' = [calls EXCEPT ![c] = s] /\ objects' = objects /\ returned' = returned
      /\ k.pc \notin Done \cup {"idle"}
  BY DEF Abort, Set
<1>2. CallOK(c, k) /\ DOMAIN k = CallFields
  BY DEF ProviderInv, CallOK
<1>3. /\ DOMAIN s = CallFields /\ s.pc = k.pc /\ s.op = k.op /\ s.cleared = k.cleared
      /\ s.asked = k.asked /\ s.uri = k.uri /\ s.h = k.h /\ s.found = k.found /\ s.key = k.key
      /\ s.kind = k.kind /\ s.form = k.form /\ s.next = k.next /\ s.temps = k.temps /\ s.read = k.read
  BY <1>2 DEF CallFields
<1> HIDE DEF s
<1>4. CallOK(c, s) /\ k.cleared = FALSE
  BY <1>1, <1>2, <1>3 DEF CallOK, OpOK, ReferenceOK, TempsOK, OutcomeOK, Done
<1>5. Moves(c, s)
  BY <1>1, <1>3, <1>4 DEF Moves, Rotates
<1> QED  BY <1>1, <1>5, MoveStep, ReturnedStays

(* What is found for a URI with an id belongs to that id's key.            *)
LEMMA FindStep ==
  ASSUME ProviderInv, NEW c \in Calls, Find(c)
  PROVE  ProviderInv'
<1> DEFINE k == calls[c]
           class == IF k.pc = "findAny" THEN "any"
                    ELSE IF k.uri.class # "any" THEN k.uri.class ELSE Fallback(k.op)
           next == IF k.pc = "find" /\ k.uri.class = "any" THEN "findAny" ELSE "rejected"
<1>1. k.pc \in {"find", "findAny"} /\ objects' = objects /\ returned' = returned
  BY DEF Find
<1>2. /\ CallOK(c, k) /\ DOMAIN k = CallFields /\ k.cleared = FALSE /\ k.next = 1
      /\ k.op \notin DOMAIN Generates /\ k.pc \notin Done \cup Deriving
  BY <1>1 DEF ProviderInv, CallOK, OpOK, OutcomeOK, ReferenceOK, Done, Deriving
<1>3. CASE \E o \in Matches(k.uri, class) :
             calls' = [calls EXCEPT ![c] = [k EXCEPT !.h = o.h, !.found = o.owner, !.pc = AfterFind(k.op)]]
  <2>1. PICK o \in Matches(k.uri, class) :
          calls' = [calls EXCEPT ![c] = [k EXCEPT !.h = o.h, !.found = o.owner, !.pc = AfterFind(k.op)]]
    BY <1>3
  <2> DEFINE s == [k EXCEPT !.h = o.h, !.found = o.owner, !.pc = AfterFind(k.op)]
  <2>2. /\ o \in objects /\ o.owner = o.h[1]
        /\ k.uri.id # NoId => Owns(k.uri.id, o.owner) /\ HasId(o.h, k.uri.id)
    BY MatchIsOwned
  <2>3. /\ DOMAIN s = CallFields /\ s.pc = AfterFind(k.op) /\ s.op = k.op /\ s.cleared = FALSE
        /\ s.asked = k.asked /\ s.uri = k.uri /\ s.h = o.h /\ s.found = o.owner /\ s.key = k.key
        /\ s.kind = k.kind /\ s.form = k.form /\ s.next = 1 /\ s.temps = k.temps /\ s.read = k.read
    BY <1>2 DEF CallFields
  <2>4. k.key = "none" /\ k.read /\ (k.asked.id # NoId => k.uri.id = k.asked.id)
    BY <1>1, <1>2 DEF CallOK, ReferenceOK
  <2> HIDE DEF s
  <2>5. /\ AfterFind(k.op) = "describe" => k.op \in {"rotateKey", "getKey"}
        /\ AfterFind(k.op) = "probe" => k.op = "deactivateKey"
        /\ AfterFind(k.op) \in {"derive", "extract"} => k.op = "ecdhDecode"
        /\ AfterFind(k.op) = "extract" => AllowSecretExtraction
        /\ AfterFind(k.op) = "use" => k.op \notin {"rotateKey", "getKey", "deactivateKey", "ecdhDecode"}
        /\ AfterFind(k.op) = "rejected" => k.op = "ecdhDecode"
        /\ AfterFind(k.op) \in {"describe", "probe", "derive", "extract", "use", "rejected"}
    BY DEF AfterFind
  <2>6. OpOK(s) /\ TempsOK(c, s) /\ OutcomeOK(s)
    BY <1>1, <1>2, <2>3, <2>5 DEF CallOK, OpOK, TempsOK, OutcomeOK, Done, Deriving
  <2>7. ReferenceOK(s)
    BY <1>2, <2>2, <2>3, <2>4, <2>5 DEF CallOK, ReferenceOK
  <2>8. Moves(c, s)
    BY <1>1, <1>2, <2>2, <2>3, <2>5, <2>6, <2>7 DEF Moves, Rotates, CallOK, Before, Deriving, Replaced, Done
  <2> QED  BY <1>1, <2>1, <2>8, MoveStep, ReturnedStays DEF s
<1>4. CASE next = "rejected" /\ Reject(c)
  BY <1>1, <1>2, <1>4, RejectStep
<1>5. CASE next = "findAny" /\ calls' = [calls EXCEPT ![c] = [k EXCEPT !.pc = "findAny"]]
  <2> DEFINE s == [k EXCEPT !.pc = "findAny"]
  <2>1. /\ DOMAIN s = CallFields /\ s.pc = "findAny" /\ s.op = k.op /\ s.cleared = k.cleared
        /\ s.asked = k.asked /\ s.uri = k.uri /\ s.h = k.h /\ s.found = k.found /\ s.key = k.key
        /\ s.kind = k.kind /\ s.form = k.form /\ s.next = k.next /\ s.temps = k.temps /\ s.read = k.read
    BY <1>2, PcFields
  <2> HIDE DEF s
  <2>2. CallOK(c, s)
    BY <1>1, <1>2, <2>1 DEF CallOK, OpOK, ReferenceOK, TempsOK, OutcomeOK, Done, Deriving
  <2>3. Moves(c, s)
    BY <1>1, <1>2, <2>1, <2>2 DEF Moves, Rotates, Before, Deriving, Replaced, Done
  <2> QED  BY <1>1, <1>5, <2>3, MoveStep, ReturnedStays DEF s
<1> QED
  BY <1>3, <1>4, <1>5 DEF Find, Set, GoTo, Reject, Done

(* Whatever mechanism #signWithToken chooses, what is signed is what local *)
(* verification expects.                                                   *)
LEMMA SignedAsExpected ==
  ASSUME NEW op \in SignOps, Chosen(op) # "none"
  PROVE  Signs(Chosen(op), Prepare(Chosen(op))) = Expects[op]
<1> DEFINE able == {i \in DOMAIN Plan[op] : Plan[op][i] \in Mechanisms}
           i == CHOOSE n \in able : \A j \in able : n <= j
<1>1. able # {} /\ Chosen(op) = Plan[op][i]
  BY DEF Chosen
<1>2. op \in {"signRSAPKCS1v15SHA256", "signRSAPSS", "signEd25519"}
  BY DEF SignOps, Expects
<1>3. \/ op = "signEd25519" /\ Plan[op] = <<"EdDsa">>
      \/ op = "signRSAPSS" /\ Plan[op] = <<"Sha256RsaPkcsPss", "RsaPkcsPss">>
      \/ op = "signRSAPKCS1v15SHA256" /\ Plan[op] = <<"Sha256RsaPkcs", "RsaPkcs">>
  BY <1>2 DEF Plan
<1>4. able \subseteq DOMAIN Plan[op] /\ DOMAIN Plan[op] \subseteq 1 .. 2
  BY <1>3
<1>5. \E n \in able : \A j \in able : n <= j
  <2> HIDE DEF able
  <2>1. CASE 1 \in able
    BY <1>4, <2>1
  <2>2. CASE 1 \notin able
    BY <1>1, <1>4, <2>2
  <2> QED  BY <2>1, <2>2
<1>6. i \in DOMAIN Plan[op]
  BY <1>4, <1>5
<1> HIDE DEF i, able
<1>7. Chosen(op) \in {"EdDsa", "Sha256RsaPkcsPss", "RsaPkcsPss", "Sha256RsaPkcs", "RsaPkcs"}
      /\ (op = "signEd25519" => Chosen(op) = "EdDsa")
      /\ (op = "signRSAPSS" => Chosen(op) \in {"Sha256RsaPkcsPss", "RsaPkcsPss"})
      /\ (op = "signRSAPKCS1v15SHA256" => Chosen(op) \in {"Sha256RsaPkcs", "RsaPkcs"})
  BY <1>1, <1>3, <1>4, <1>6
<1> QED  BY <1>2, <1>7 DEF Signs, Prepare, Expects

(* The key that is used is the one that was found.                         *)
LEMMA UseAndSignSteps ==
  ASSUME ProviderInv, NEW c \in Calls, Use(c) \/ Sign(c)
  PROVE  ProviderInv'
<1> DEFINE k == calls[c]
           m == Chosen(k.op)
           r == [k EXCEPT !.key = Obj(k.h).owner, !.form = Signs(m, Prepare(m))]
<1>1. k.pc \in {"use", "retry"} /\ objects' = objects
  BY DEF Use, Sign
<1>2. /\ CallOK(c, k) /\ DOMAIN k = CallFields /\ k.cleared = FALSE /\ k.next = 1
      /\ k.pc \notin Done \cup Deriving
      /\ k.op \notin {"rotateKey", "getKey", "deactivateKey", "ecdhDecode"} \cup DOMAIN Generates
      /\ k.op \in SignOps => Chosen(k.op) # "none"
  BY <1>1 DEF ProviderInv, CallOK, OpOK, OutcomeOK, ReferenceOK, Done, Deriving
<1>3. CASE Usable(k) /\ Fulfil(c, r, {})
  <2>1. Obj(k.h).owner = k.h[1] /\ k.h # <<>>
    BY <1>3, HeldObject DEF Usable
  <2>2. /\ r.op = k.op /\ r.asked = k.asked /\ r.uri = k.uri /\ r.h = k.h /\ r.found = k.found
        /\ r.kind = k.kind /\ r.cleared = k.cleared /\ r.key = Obj(k.h).owner /\ r.read = k.read
        /\ r.form = Signs(m, Prepare(m))
    BY <1>2 DEF CallFields
  <2>3. calls' = [calls EXCEPT ![c] = Settled(r, "fulfilled")] /\ returned' = returned
    BY <1>3 DEF Fulfil, Set
  <2> HIDE DEF r
  <2>4. r.read /\ r.uri.id # NoId /\ r.key # "none" => Owns(r.uri.id, r.key)
    BY <1>2, <2>1, <2>2 DEF CallOK, ReferenceOK
  <2>5. r.op \in SignOps => r.form = Expects[r.op]
    BY <1>2, <2>2, SignedAsExpected
  <2>6. Moves(c, Settled(r, "fulfilled"))
    BY <1>2, <2>2, <2>4, <2>5, FulfilMoves
  <2> QED  BY <1>1, <2>3, <2>6, MoveStep, ReturnedStays
<1>4. CASE Reject(c) /\ returned' = returned
  BY <1>1, <1>2, <1>4, RejectStep
<1>5. CASE k.pc = "use" /\ GoTo(c, "retry") /\ returned' = returned
  <2> DEFINE s == [k EXCEPT !.pc = "retry"]
  <2>1. /\ DOMAIN s = CallFields /\ s.pc = "retry" /\ s.op = k.op /\ s.cleared = k.cleared
        /\ s.asked = k.asked /\ s.uri = k.uri /\ s.h = k.h /\ s.found = k.found /\ s.key = k.key
        /\ s.kind = k.kind /\ s.form = k.form /\ s.next = k.next /\ s.temps = k.temps /\ s.read = k.read
    BY <1>2, PcFields
  <2>2. calls' = [calls EXCEPT ![c] = s]
    BY <1>5 DEF GoTo, Set, Done
  <2> HIDE DEF s
  <2>3. CallOK(c, s)
    BY <1>1, <1>2, <2>1 DEF CallOK, OpOK, ReferenceOK, TempsOK, OutcomeOK, Done, Deriving
  <2>4. Moves(c, s)
    BY <1>1, <1>2, <2>1, <2>3 DEF Moves, Rotates, Before, Deriving, Replaced, Done
  <2> QED  BY <1>1, <1>5, <2>2, <2>4, MoveStep, ReturnedStays
<1> QED
  BY <1>3, <1>4, <1>5 DEF Use, Sign, Uses

(* The decryption, or the reading of the secret, is followed by the        *)
(* finally blocks whether it succeeds or not.                              *)
LEMMA ToCleaningSteps ==
  ASSUME ProviderInv, NEW c \in Calls, NEW ok, NEW pc,
         \/ calls[c].pc \in {"deriveAes", "decrypt"} /\ pc = "clean"
         \/ calls[c].pc = "readSecret" /\ pc = "cleanExtracted",
         calls' = [calls EXCEPT ![c] = [calls[c] EXCEPT !.ok = ok, !.pc = pc]],
         objects' = objects, returned' = returned
  PROVE  ProviderInv'
<1> DEFINE k == calls[c]
           s == [k EXCEPT !.ok = ok, !.pc = pc]
<1>1. CallOK(c, k) /\ DOMAIN k = CallFields /\ k.cleared = FALSE /\ k.next = 1
  BY DEF ProviderInv, CallOK, OutcomeOK, ReferenceOK
<1>2. /\ DOMAIN s = CallFields /\ s.pc = pc /\ s.op = k.op /\ s.cleared = k.cleared
      /\ s.asked = k.asked /\ s.uri = k.uri /\ s.h = k.h /\ s.found = k.found /\ s.key = k.key
      /\ s.kind = k.kind /\ s.form = k.form /\ s.next = k.next /\ s.temps = k.temps /\ s.read = k.read
  BY <1>1 DEF CallFields
<1> HIDE DEF s
<1>3. CallOK(c, s)
  BY <1>1, <1>2, ZenonT(30) DEF CallOK, OpOK, ReferenceOK, TempsOK, OutcomeOK, Done, Deriving
<1>4. Moves(c, s)
  BY <1>1, <1>2, <1>3 DEF Moves, Rotates, Before, Deriving, Replaced, Done
<1> QED  BY <1>4, MoveStep, ReturnedStays DEF s

(* getKey looks for the public half of the object it has found.            *)
LEMMA DescribeForGetStep ==
  ASSUME ProviderInv, NEW c \in Calls, DescribeForGet(c)
  PROVE  ProviderInv'
<1> DEFINE k == calls[c]
           o == Obj(k.h)
           uri == [k.uri EXCEPT !.label = o.label, !.id = o.id]
           zeros == [k.uri EXCEPT !.label = Zeroed(o.label), !.id = IF o.id = NoId THEN NoId ELSE "zeroed"]
<1>1. k.pc = "describe" /\ k.op = "getKey" /\ objects' = objects /\ returned' = returned
  BY DEF DescribeForGet
<1>2. /\ CallOK(c, k) /\ DOMAIN k = CallFields /\ k.cleared = FALSE /\ k.next = 1
      /\ k.key = "none" /\ k.found = k.h[1] /\ DOMAIN k.uri = UriFields
  BY <1>1 DEF ProviderInv, CallOK, OutcomeOK, ReferenceOK
<1>3. CASE Holds(k.h) /\ calls' = [calls EXCEPT ![c] = [k EXCEPT !.pc = "public", !.uri = uri]]
  <2> DEFINE s == [k EXCEPT !.pc = "public", !.uri = uri]
  <2>1. /\ DOMAIN s = CallFields /\ s.pc = "public" /\ s.op = k.op /\ s.cleared = k.cleared
        /\ s.asked = k.asked /\ s.uri = uri /\ s.h = k.h /\ s.found = k.found /\ s.key = k.key
        /\ s.kind = k.kind /\ s.form = k.form /\ s.next = k.next /\ s.temps = k.temps /\ s.read = k.read
    BY <1>2 DEF CallFields
  <2>2. DOMAIN uri = UriFields /\ uri.id = o.id
    BY <1>2 DEF UriFields
  <2>3. o \in objects /\ o.h = k.h /\ ObjectOK(o) /\ o.owner = k.h[1]
    BY <1>3, HeldObject
  <2> HIDE DEF s, uri, o
  <2>4. k.uri.id # NoId => uri.id = k.uri.id
    <3>1. k.uri.id # NoId => HasId(k.h, k.uri.id)
      BY <1>1, <1>2 DEF CallOK, ReferenceOK
    <3>2. HasId(k.h, o.id)
      BY <2>3 DEF ObjectOK
    <3> QED  BY <2>2, <3>1, <3>2, HasIdIsUnique
  <2>5. uri.id # NoId => Owns(uri.id, k.h[1])
    BY <2>2, <2>3 DEF ObjectOK
  <2>6. OpOK(s) /\ TempsOK(c, s) /\ OutcomeOK(s)
    BY <1>1, <1>2, <2>1 DEF CallOK, OpOK, TempsOK, OutcomeOK, Done, Deriving
  <2>7. ReferenceOK(s)
    BY <1>1, <1>2, <2>1, <2>2, <2>4, <2>5 DEF CallOK, ReferenceOK
  <2>8. Moves(c, s)
    BY <1>1, <1>2, <2>1, <2>6, <2>7 DEF Moves, Rotates, CallOK, Before, Deriving, Replaced, Done
  <2> QED  BY <1>1, <1>3, <2>8, MoveStep, ReturnedStays DEF s
<1>4. CASE GoTo(c, "public")
  <2> DEFINE s == [k EXCEPT !.pc = "public"]
  <2>1. /\ DOMAIN s = CallFields /\ s.pc = "public" /\ s.op = k.op /\ s.cleared = k.cleared
        /\ s.asked = k.asked /\ s.uri = k.uri /\ s.h = k.h /\ s.found = k.found /\ s.key = k.key
        /\ s.kind = k.kind /\ s.form = k.form /\ s.next = k.next /\ s.temps = k.temps /\ s.read = k.read
    BY <1>2, PcFields
  <2>2. calls' = [calls EXCEPT ![c] = s]
    BY <1>4 DEF GoTo, Set, Done
  <2> HIDE DEF s
  <2>3. CallOK(c, s)
    BY <1>1, <1>2, <2>1 DEF CallOK, OpOK, ReferenceOK, TempsOK, OutcomeOK, Done, Deriving
  <2>4. Moves(c, s)
    BY <1>1, <1>2, <2>1, <2>3 DEF Moves, Rotates, Before, Deriving, Replaced, Done
  <2> QED  BY <1>1, <2>2, <2>4, MoveStep, ReturnedStays
<1>5. CASE calls' = [calls EXCEPT ![c] = [k EXCEPT !.pc = "public", !.read = FALSE, !.uri = zeros]]
  <2> DEFINE s == [k EXCEPT !.pc = "public", !.read = FALSE, !.uri = zeros]
  <2>1. /\ DOMAIN s = CallFields /\ s.pc = "public" /\ s.op = k.op /\ s.cleared = k.cleared
        /\ s.asked = k.asked /\ s.uri = zeros /\ s.h = k.h /\ s.found = k.found /\ s.key = k.key
        /\ s.kind = k.kind /\ s.form = k.form /\ s.next = k.next /\ s.temps = k.temps /\ s.read = FALSE
    BY <1>2 DEF CallFields
  <2>2. DOMAIN zeros = UriFields
    BY <1>2 DEF UriFields
  <2> HIDE DEF s, zeros, o
  <2>3. OpOK(s) /\ TempsOK(c, s) /\ OutcomeOK(s)
    BY <1>1, <1>2, <2>1 DEF CallOK, OpOK, TempsOK, OutcomeOK, Done, Deriving
  <2>4. ReferenceOK(s)
    BY <1>1, <1>2, <2>1, <2>2 DEF CallOK, ReferenceOK
  <2>5. Moves(c, s)
    BY <1>1, <1>2, <2>1, <2>3, <2>4 DEF Moves, Rotates, CallOK, Before, Deriving, Replaced, Done
  <2> QED  BY <1>1, <1>5, <2>5, MoveStep, ReturnedStays DEF s
<1> QED  BY <1>3, <1>4, <1>5 DEF DescribeForGet, Set

(* Every place publicObjectFor looks at for a URI with an id has that id.  *)
LEMMA CandidatesHaveTheId ==
  ASSUME NEW uri, uri.id # NoId
  PROVE  /\ Len(Candidates(uri)) = 4
         /\ \A n \in 1 .. 4 : Candidates(uri)[n][1].id = uri.id
<1> DEFINE byId == [NoUri EXCEPT !.id = uri.id]
<1>1. byId.id = uri.id
  BY DEF NoUri
<1>2. Candidates(uri) = <<<<uri, "public">>, <<byId, "public">>, <<byId, "cert">>, <<uri, "cert">>>>
  BY DEF Candidates
<1> HIDE DEF byId
<1> QED  BY <1>1, <1>2

(* Without a public half getKey is fulfilled, and the others are rejected. *)
LEMMA WithoutPublicKeyStep ==
  ASSUME ProviderInv, NEW c \in Calls, calls[c].pc \in {"public", "readPublic"},
         WithoutPublicKey(c), objects' = objects
  PROVE  ProviderInv'
<1> DEFINE k == calls[c]
<1>1. /\ CallOK(c, k) /\ k.pc \notin Done \cup Deriving
      /\ k.op \in PublicOps \cup {"getKey"}
  BY DEF ProviderInv, CallOK, OpOK, Done, Deriving
<1>2. k.op # "rotateKey" /\ k.op \notin SignOps
  BY <1>1 DEF PublicOps, SignOps, Expects
<1>3. CASE k.op = "getKey"
  <2>1. calls' = [calls EXCEPT ![c] = Settled(k, "fulfilled")] /\ returned' = returned
    BY <1>3 DEF WithoutPublicKey, Fulfil, Set
  <2>2. Moves(c, Settled(k, "fulfilled"))
    BY <1>1, <1>2, FulfilMoves DEF CallOK, ReferenceOK
  <2> QED  BY <2>1, <2>2, MoveStep, ReturnedStays
<1>4. CASE k.op # "getKey"
  BY <1>1, <1>4, RejectStep DEF WithoutPublicKey
<1> QED  BY <1>3, <1>4

(* publicObjectFor finds a half of the key the URI names.                  *)
LEMMA PublicObjectForStep ==
  ASSUME ProviderInv, NEW c \in Calls, PublicObjectFor(c)
  PROVE  ProviderInv'
<1> DEFINE k == calls[c]
           try == Candidates(k.uri)[k.next]
<1>1. k.pc = "public" /\ objects' = objects
  BY DEF PublicObjectFor
<1>2. /\ CallOK(c, k) /\ DOMAIN k = CallFields /\ k.cleared = FALSE
      /\ k.op \in PublicOps \cup {"getKey"}
      /\ k.next \in Nat \ {0} /\ (k.uri.id # NoId => k.next <= 4)
  BY <1>1 DEF ProviderInv, CallOK, OpOK, OutcomeOK, ReferenceOK
<1>3. k.op # "rotateKey" /\ k.op \notin SignOps
  BY <1>2 DEF PublicOps, SignOps, Expects
<1>4. CASE (\E o \in Matches(try[1], try[2]) : calls' = [calls EXCEPT ![c] = [k EXCEPT !.h = o.h, !.pc = "readPublic"]])
           /\ returned' = returned
  <2>1. PICK o \in Matches(try[1], try[2]) : calls' = [calls EXCEPT ![c] = [k EXCEPT !.h = o.h, !.pc = "readPublic"]]
    BY <1>4
  <2>2. o \in objects /\ o.owner = o.h[1] /\ (try[1].id # NoId => Owns(try[1].id, o.owner))
    BY MatchIsOwned
  <2>3. k.uri.id # NoId => Owns(k.uri.id, o.h[1])
    <3>1. k.uri.id # NoId => k.next \in 1 .. 4
      BY <1>2
    <3>2. k.uri.id # NoId => try[1].id = k.uri.id
      BY <3>1, CandidatesHaveTheId
    <3> QED  BY <2>2, <3>2
  <2> DEFINE s == [k EXCEPT !.h = o.h, !.pc = "readPublic"]
  <2>4. /\ DOMAIN s = CallFields /\ s.pc = "readPublic" /\ s.op = k.op /\ s.cleared = k.cleared
        /\ s.asked = k.asked /\ s.uri = k.uri /\ s.h = o.h /\ s.found = k.found /\ s.key = k.key
        /\ s.kind = k.kind /\ s.form = k.form /\ s.next = k.next /\ s.temps = k.temps /\ s.read = k.read
    BY <1>2 DEF CallFields
  <2> HIDE DEF s
  <2>5. CallOK(c, s)
    BY <1>1, <1>2, <1>3, <2>3, <2>4 DEF CallOK, OpOK, ReferenceOK, TempsOK, OutcomeOK, Done, Deriving
  <2>6. Moves(c, s)
    BY <1>1, <1>2, <1>3, <2>2, <2>4, <2>5 DEF Moves, Rotates, Before, Deriving, Replaced, Done
  <2> QED  BY <1>1, <1>4, <2>1, <2>6, MoveStep, ReturnedStays DEF s
<1>5. CASE k.next < Len(Candidates(k.uri)) /\ calls' = [calls EXCEPT ![c] = [k EXCEPT !.next = k.next + 1]]
           /\ returned' = returned
  <2> DEFINE s == [k EXCEPT !.next = k.next + 1]
  <2>1. /\ DOMAIN s = CallFields /\ s.pc = "public" /\ s.op = k.op /\ s.cleared = k.cleared
        /\ s.asked = k.asked /\ s.uri = k.uri /\ s.h = k.h /\ s.found = k.found /\ s.key = k.key
        /\ s.kind = k.kind /\ s.form = k.form /\ s.next = k.next + 1 /\ s.temps = k.temps /\ s.read = k.read
    BY <1>1, <1>2 DEF CallFields
  <2>2. k.uri.id # NoId => k.next + 1 <= 4
    <3>1. k.uri.id # NoId => Len(Candidates(k.uri)) = 4
      BY CandidatesHaveTheId
    <3>2. k.uri.id # NoId => k.next < 4
      BY <1>5, <3>1
    <3>3. k.next \in Nat
      BY <1>2
    <3> HIDE DEF k
    <3> QED  BY <3>2, <3>3
  <2>3. s.next \in Nat \ {0} /\ (s.uri.id # NoId => s.next <= 4)
    <3>1. k.next \in Nat /\ s.next = k.next + 1 /\ s.uri = k.uri
      BY <1>2, <2>1
    <3> HIDE DEF k, s
    <3> QED  BY <2>2, <3>1
  <2> HIDE DEF s
  <2>4. CallOK(c, s)
    BY <1>1, <1>2, <1>3, <2>1, <2>3 DEF CallOK, OpOK, ReferenceOK, TempsOK, OutcomeOK, Done, Deriving
  <2>5. Moves(c, s)
    BY <1>1, <1>2, <1>3, <2>1, <2>4 DEF Moves, Rotates, Before, Deriving, Replaced, Done
  <2> QED  BY <1>1, <1>5, <2>5, MoveStep, ReturnedStays DEF s
<1>6. CASE WithoutPublicKey(c)
  BY <1>1, <1>6, WithoutPublicKeyStep
<1> QED
  BY <1>4, <1>5, <1>6 DEF PublicObjectFor, Set

(* The public key that is read is that of the key the URI names.           *)
LEMMA ReadPublicStep ==
  ASSUME ProviderInv, NEW c \in Calls, ReadPublic(c)
  PROVE  ProviderInv'
<1> DEFINE k == calls[c]
           r == [k EXCEPT !.key = Obj(k.h).owner]
<1>1. k.pc = "readPublic" /\ objects' = objects
  BY DEF ReadPublic
<1>2. /\ CallOK(c, k) /\ DOMAIN k = CallFields /\ k.pc \notin Done \cup Deriving
      /\ k.op \in PublicOps \cup {"getKey"}
  BY <1>1 DEF ProviderInv, CallOK, OpOK, Done, Deriving
<1>3. k.op # "rotateKey" /\ k.op \notin SignOps
  BY <1>2 DEF PublicOps, SignOps, Expects
<1>4. CASE Holds(k.h) /\ Fulfil(c, r, {})
  <2>1. Obj(k.h).owner = k.h[1] /\ k.h # <<>>
    BY <1>4, HeldObject
  <2>2. /\ r.op = k.op /\ r.asked = k.asked /\ r.uri = k.uri /\ r.h = k.h /\ r.found = k.found
        /\ r.kind = k.kind /\ r.cleared = k.cleared /\ r.key = Obj(k.h).owner /\ r.read = k.read
    BY <1>2 DEF CallFields
  <2>3. calls' = [calls EXCEPT ![c] = Settled(r, "fulfilled")] /\ returned' = returned
    BY <1>4 DEF Fulfil, Set
  <2> HIDE DEF r
  <2>4. r.read /\ r.uri.id # NoId /\ r.key # "none" => Owns(r.uri.id, r.key)
    BY <1>2, <2>1, <2>2 DEF CallOK, ReferenceOK
  <2>5. Moves(c, Settled(r, "fulfilled"))
    BY <1>2, <1>3, <2>2, <2>4, FulfilMoves
  <2> QED  BY <1>1, <2>3, <2>5, MoveStep, ReturnedStays
<1>5. CASE WithoutPublicKey(c)
  BY <1>1, <1>5, WithoutPublicKeyStep
<1> QED  BY <1>4, <1>5 DEF ReadPublic

(* generateReplacement reads what kind of key it is to replace, or takes   *)
(* it for an RSA key.                                                      *)
LEMMA DescribeForRotationStep ==
  ASSUME ProviderInv, NEW c \in Calls, DescribeForRotation(c)
  PROVE  ProviderInv'
<1> DEFINE k == calls[c]
           o == Obj(k.h)
           s == [k EXCEPT !.kind = o.kind, !.size = ReplacementSize(o),
                          !.base = RotationLabelBase(o), !.pc = "generate"]
           z == [k EXCEPT !.kind = "rsa", !.size = DefaultRsaSize, !.read = FALSE,
                          !.base = Zeroed(o.label), !.pc = "generate"]
<1>1. k.pc = "describe" /\ k.op = "rotateKey" /\ objects' = objects /\ returned' = returned
  BY DEF DescribeForRotation
<1>2. /\ CallOK(c, k) /\ DOMAIN k = CallFields /\ k.cleared = FALSE /\ k.next = 1
      /\ k.pc \notin Done \cup Deriving
  BY <1>1 DEF ProviderInv, CallOK, OutcomeOK, ReferenceOK, Done, Deriving
<1>3. CASE Holds(k.h) /\ o.kind \in DOMAIN KeyGen /\ calls' = [calls EXCEPT ![c] = s]
  <2>1. /\ DOMAIN s = CallFields /\ s.pc = "generate" /\ s.op = k.op /\ s.cleared = k.cleared
        /\ s.asked = k.asked /\ s.uri = k.uri /\ s.h = k.h /\ s.found = k.found /\ s.key = k.key
        /\ s.kind = o.kind /\ s.form = k.form /\ s.next = k.next /\ s.temps = k.temps /\ s.read = k.read
    BY <1>2 DEF CallFields
  <2>2. /\ \A d \in Calls : k.h \notin SecretHandles(d)
        /\ \A x \in objects : x.h = k.h => x.kind = o.kind
    <3>1. o \in objects /\ o.h = k.h /\ ObjectOK(o)
      BY <1>3, HeldObject
    <3>2. ASSUME NEW d \in Calls, k.h \in SecretHandles(d)
          PROVE  FALSE
      <4>1. k.h[1] = d /\ k.h \notin KeyHandles(d)
        BY <3>2 DEF SecretHandles, KeyHandles
      <4>2. o.id = NoId
        BY <3>1, <4>1 DEF ObjectOK, HasId
      <4> QED  BY <1>3, <3>1, <4>1, <4>2 DEF ObjectOK
    <3>3. \A x \in objects : x.h = k.h => x.kind = o.kind
      BY <3>1, <3>2 DEF ProviderInv, OneKindOK
    <3> QED  BY <3>2, <3>3
  <2> HIDE DEF s
  <2>3. OpOK(s) /\ TempsOK(c, s) /\ OutcomeOK(s)
    BY <1>1, <1>2, <1>3, <2>1 DEF CallOK, OpOK, TempsOK, OutcomeOK, Done, Deriving
  <2>4. ReferenceOK(s)
    BY <1>1, <1>2, <2>1 DEF CallOK, ReferenceOK
  <2>5. Moves(c, s)
    BY <1>1, <1>2, <2>1, <2>2, <2>3, <2>4 DEF Moves, CallOK, Before, Deriving, Replaced, Done
  <2> QED  BY <1>1, <1>3, <2>5, MoveStep, ReturnedStays
<1>4. CASE calls' = [calls EXCEPT ![c] = z]
  <2>1. /\ DOMAIN z = CallFields /\ z.pc = "generate" /\ z.op = k.op /\ z.cleared = k.cleared
        /\ z.asked = k.asked /\ z.uri = k.uri /\ z.h = k.h /\ z.found = k.found /\ z.key = k.key
        /\ z.kind = "rsa" /\ z.form = k.form /\ z.next = k.next /\ z.temps = k.temps /\ z.read = FALSE
    BY <1>2 DEF CallFields
  <2> HIDE DEF z
  <2>2. OpOK(z) /\ TempsOK(c, z) /\ OutcomeOK(z)
    BY <1>1, <1>2, <2>1 DEF CallOK, OpOK, TempsOK, OutcomeOK, Done, Deriving, KeyGen
  <2>3. ReferenceOK(z)
    BY <1>1, <1>2, <2>1 DEF CallOK, ReferenceOK
  <2>4. Moves(c, z)
    BY <1>1, <1>2, <2>1, <2>2, <2>3 DEF Moves, Rotates, CallOK, Before, Deriving, Replaced, Done
  <2> QED  BY <1>1, <1>4, <2>4, MoveStep, ReturnedStays
<1>5. CASE Reject(c)
  BY <1>1, <1>2, <1>5, RejectStep
<1> QED  BY <1>3, <1>4, <1>5 DEF DescribeForRotation, Set

(* The reference of a generated key has the id of that key.                *)
LEMMA NewReferenceStep ==
  ASSUME ProviderInv, NEW c \in Calls, NEW aborted,
         returned' = IF aborted THEN returned ELSE returned \cup NewRef(c)
  PROVE  ReturnedOK'
<1>1. ReturnedOK
  BY DEF ProviderInv
<1>2. \A r \in NewRef(c) : r.owner \in Calls /\ r.uri.id = r.owner /\ DOMAIN r.uri = UriFields
  BY DEF NewRef, KeyRef, UriFields
<1> QED  BY <1>1, <1>2 DEF ReturnedOK

(* Once the new public half is read back, the key is returned, or the old  *)
(* one is to be disabled first.                                            *)
LEMMA ReadBackStep ==
  ASSUME ProviderInv, NEW c \in Calls, ReadBack(c)
  PROVE  ProviderInv'
<1> DEFINE k == calls[c]
<1>1. k.pc = "readBack" /\ objects' = objects
  BY DEF ReadBack
<1>2. /\ CallOK(c, k) /\ DOMAIN k = CallFields /\ k.cleared = FALSE /\ k.next = 1
      /\ k.pc \notin Done \cup Deriving /\ k.op \in DOMAIN Generates \cup {"rotateKey"}
  BY <1>1 DEF ProviderInv, CallOK, OpOK, OutcomeOK, ReferenceOK, Done, Deriving
<1>3. k.op \notin SignOps
  BY <1>2 DEF Generates, SignOps, Expects
<1>4. CASE k.op = "rotateKey" /\ RotateDisablesPrevious /\ AfterGenerate(c)
  <2> DEFINE s == [k EXCEPT !.pc = "probe"]
  <2>1. /\ DOMAIN s = CallFields /\ s.pc = "probe" /\ s.op = k.op /\ s.cleared = k.cleared
        /\ s.asked = k.asked /\ s.uri = k.uri /\ s.h = k.h /\ s.found = k.found /\ s.key = k.key
        /\ s.kind = k.kind /\ s.form = k.form /\ s.next = k.next /\ s.temps = k.temps /\ s.read = k.read
    BY <1>2, PcFields
  <2>2. calls' = [calls EXCEPT ![c] = s] /\ returned' = returned
    BY <1>4 DEF AfterGenerate, GoTo, Set, Done
  <2> HIDE DEF s
  <2>3. CallOK(c, s)
    BY <1>1, <1>2, <1>3, <1>4, <2>1 DEF CallOK, OpOK, ReferenceOK, TempsOK, OutcomeOK, Done, Deriving
  <2>4. Moves(c, s)
    BY <1>1, <1>2, <2>1, <2>3 DEF Moves, Rotates, Before, Deriving, Replaced, Done
  <2> QED  BY <1>1, <2>2, <2>4, MoveStep, ReturnedStays
<1>5. CASE ~(k.op = "rotateKey" /\ RotateDisablesPrevious) /\ AfterGenerate(c)
  <2>1. /\ calls' = [calls EXCEPT ![c] = Settled(k, "fulfilled")]
        /\ returned' = IF k.aborted THEN returned ELSE returned \cup NewRef(c)
    BY <1>5 DEF AfterGenerate, Fulfil, Set
  <2>2. k.op = "rotateKey" => RotateDisablesPrevious = FALSE
    BY <1>5, ProviderAssumption
  <2>3. Moves(c, Settled(k, "fulfilled"))
    BY <1>1, <1>2, <1>3, <2>2, FulfilMoves DEF CallOK, ReferenceOK, Replaced
  <2>4. ReturnedOK'
    BY <2>1, NewReferenceStep
  <2> QED  BY <1>1, <2>1, <2>3, <2>4, MoveStep
<1>6. CASE Reject(c) /\ returned' = returned
  BY <1>1, <1>2, <1>6, RejectStep
<1> QED  BY <1>4, <1>5, <1>6 DEF ReadBack

(* deactivateKey goes on to destroy what could not be disabled, if it may; *)
(* a rotation is rejected.                                                 *)
LEMMA RefusedStep ==
  ASSUME ProviderInv, NEW c \in Calls, calls[c].pc \in {"probe", "clear"},
         GoTo(c, Refused(calls[c])), objects' = objects, returned' = returned
  PROVE  ProviderInv'
<1> DEFINE k == calls[c]
<1>1. /\ CallOK(c, k) /\ DOMAIN k = CallFields /\ k.cleared = FALSE /\ k.next = 1
      /\ k.pc \notin Done \cup Deriving
  BY DEF ProviderInv, CallOK, OutcomeOK, ReferenceOK, Done, Deriving
<1>2. CASE k.op = "deactivateKey" /\ DeactivateDestroys
  <2> DEFINE s == [k EXCEPT !.pc = "destroy"]
  <2>1. /\ DOMAIN s = CallFields /\ s.pc = "destroy" /\ s.op = k.op /\ s.cleared = k.cleared
        /\ s.asked = k.asked /\ s.uri = k.uri /\ s.h = k.h /\ s.found = k.found /\ s.key = k.key
        /\ s.kind = k.kind /\ s.form = k.form /\ s.next = k.next /\ s.temps = k.temps /\ s.read = k.read
    BY <1>1, PcFields
  <2>2. calls' = [calls EXCEPT ![c] = s]
    BY <1>2 DEF GoTo, Set, Done, Refused
  <2> HIDE DEF s
  <2>3. CallOK(c, s)
    BY <1>1, <1>2, <2>1 DEF CallOK, OpOK, ReferenceOK, TempsOK, OutcomeOK, Done, Deriving, SignOps, Expects
  <2>4. Moves(c, s)
    BY <1>1, <1>2, <2>1, <2>3 DEF Moves, Rotates, Before, Deriving, Replaced, Done
  <2> QED  BY <2>2, <2>4, MoveStep, ReturnedStays
<1>3. CASE ~(k.op = "deactivateKey" /\ DeactivateDestroys)
  BY <1>1, <1>3, RejectStep DEF Refused, Reject
<1> QED  BY <1>2, <1>3

(* disableObject looks at what there is to clear.                          *)
LEMMA ProbeStep ==
  ASSUME ProviderInv, NEW c \in Calls, Probe(c)
  PROVE  ProviderInv'
<1> DEFINE k == calls[c]
           s == [k EXCEPT !.pc = "clear"]
<1>1. k.pc = "probe" /\ objects' = objects /\ returned' = returned
  BY DEF Probe
<1>2. /\ CallOK(c, k) /\ DOMAIN k = CallFields /\ k.cleared = FALSE /\ k.next = 1
      /\ k.op \in {"deactivateKey", "rotateKey"}
  BY <1>1 DEF ProviderInv, CallOK, OpOK, OutcomeOK, ReferenceOK
<1>3. CASE GoTo(c, "clear")
  <2>1. /\ DOMAIN s = CallFields /\ s.pc = "clear" /\ s.op = k.op /\ s.cleared = k.cleared
        /\ s.asked = k.asked /\ s.uri = k.uri /\ s.h = k.h /\ s.found = k.found /\ s.key = k.key
        /\ s.kind = k.kind /\ s.form = k.form /\ s.next = k.next /\ s.temps = k.temps /\ s.read = k.read
    BY <1>2, PcFields
  <2>2. calls' = [calls EXCEPT ![c] = s]
    BY <1>3 DEF GoTo, Set, Done
  <2> HIDE DEF s
  <2>3. CallOK(c, s)
    BY <1>1, <1>2, <2>1 DEF CallOK, OpOK, ReferenceOK, TempsOK, OutcomeOK, Done, Deriving, SignOps, Expects
  <2>4. Moves(c, s)
    BY <1>1, <1>2, <2>1, <2>3 DEF Moves, Rotates, Before, Deriving, Replaced, Done
  <2> QED  BY <1>1, <2>2, <2>4, MoveStep, ReturnedStays
<1>4. CASE GoTo(c, Refused(k))
  BY <1>1, <1>4, RefusedStep
<1> QED  BY <1>3, <1>4 DEF Probe

(* A step of call c that changes the token: it keeps what there was, or    *)
(* takes it away, or adds objects with handles of its own.                 *)
LEMMA TokenStep ==
  ASSUME ProviderInv, NEW c \in Calls, NEW k,
         calls' = [calls EXCEPT ![c] = k], ReturnedOK',
         CallOK(c, k), calls[c].pc \notin Done, k.pc \notin Before,
         k.h = calls[c].h \/ k.h = <<>>,
         \A o \in objects' :
           /\ ObjectOK(o)
           /\ \/ \E x \in objects : /\ x.h = o.h
                                    /\ x.kind = o.kind \/ o.h \in SecretHandles(c)
                                    /\ x.enabled = {} => o.enabled = {}
                                    /\ o.kind \in Secrets => x.kind \in Secrets
              \/ o.h \in KeyHandles(c) /\ calls[c].pc \in Before /\ o.kind = k.kind
              \/ o.h \in SecretHandles(c)
           /\ o.kind \in Secrets /\ o.h[1] = c =>
                k.pc \in Deriving /\ \E i \in DOMAIN k.temps : k.temps[i] = o.h
           /\ k.op = "rotateKey" /\ k.cleared /\ o.h = k.h => o.enabled = {},
         k.kind = calls[c].kind \/ k.pc = "rejected",
         ~DeactivateDestroys => \A x \in objects : x.id # NoId => \E o \in objects' : o.h = x.h,
         k.op = "rotateKey" /\ k.pc \in Replaced => \/ calls[c].op = "rotateKey" /\ calls[c].pc \in Replaced
                                                   \/ \E o \in objects' : o.h \in KeyHandles(c),
         Rotates(k) => Rotates(calls[c]) /\ k.h = calls[c].h /\ k.kind = calls[c].kind
  PROVE  ProviderInv'
<1>1. /\ DOMAIN calls' = Calls /\ calls'[c] = k
      /\ \A d \in Calls : d # c => calls'[d] = calls[d]
  BY DEF ProviderInv
<1>2. \A d \in Calls : d # c => KeyHandles(d) \cap (KeyHandles(c) \cup SecretHandles(c)) = {}
  BY DEF KeyHandles, SecretHandles
<1>3. \A d : (\A h \in KeyHandles(d) \cup SecretHandles(d) : h[1] = d) /\ KeyHandles(d) \cap SecretHandles(d) = {}
  BY DEF KeyHandles, SecretHandles
<1>4. (\A o \in objects : ObjectOK(o))' /\ (\A d \in Calls : CallOK(d, calls[d]))'
  <2>1. (\A o \in objects : ObjectOK(o))'
    BY DEF ObjectOK
  <2>2. (\A d \in Calls : CallOK(d, calls[d]))'
    BY <1>1 DEF ProviderInv, CallOK, OpOK, ReferenceOK, TempsOK, OutcomeOK
  <2> QED  BY <2>1, <2>2
<1>5. FreshOK'
  <2> SUFFICES ASSUME NEW d \in Calls, calls'[d].pc \in Before
               PROVE  /\ \A o \in objects' : o.h \notin KeyHandles(d)
                      /\ \A x \in Calls : calls'[x].h \notin KeyHandles(d)
    BY DEF FreshOK
  <2>1. d # c /\ calls[d].pc \in Before
    BY <1>1
  <2>2. FreshOK!(d)!2
    BY <2>1 DEF ProviderInv, FreshOK
  <2>3. <<>> \notin KeyHandles(d)
    BY DEF KeyHandles
  <2>4. \A o \in objects' : o.h \notin KeyHandles(d)
    BY <1>2, <2>1, <2>2
  <2>5. \A x \in Calls : calls'[x].h \notin KeyHandles(d)
    BY <1>1, <2>2, <2>3
  <2> QED  BY <2>4, <2>5
<1>6. SecretsOK'
  <2> SUFFICES ASSUME NEW o \in objects', o.kind \in Secrets
               PROVE  /\ calls'[o.owner].pc \in Deriving
                      /\ \E i \in DOMAIN calls'[o.owner].temps : calls'[o.owner].temps[i] = o.h
    BY DEF SecretsOK
  <2>1. o.owner \in Calls /\ o.owner = o.h[1]
    BY DEF ObjectOK
  <2>2. CASE o.owner = c
    BY <1>1, <2>1, <2>2
  <2>3. CASE o.owner # c
    <3>1. PICK x \in objects : x.h = o.h /\ x.kind \in Secrets
      BY <1>3, <2>1, <2>3
    <3>2. x.owner = o.owner
      BY <2>1, <3>1 DEF ProviderInv, ObjectOK
    <3>3. /\ calls[x.owner].pc \in Deriving
          /\ \E i \in DOMAIN calls[x.owner].temps : calls[x.owner].temps[i] = x.h
      BY <3>1 DEF ProviderInv, SecretsOK
    <3> QED  BY <1>1, <2>1, <2>3, <3>1, <3>2, <3>3
  <2> QED  BY <2>2, <2>3
<1>7. KindsOK'
  <2> SUFFICES ASSUME NEW d \in Calls, calls'[d].pc # "rejected", NEW o \in objects', o.h \in KeyHandles(d)
               PROVE  o.kind = calls'[d].kind
    BY DEF KindsOK
  <2>1. CASE d # c
    <3>1. PICK x \in objects : x.h = o.h /\ x.kind = o.kind
      BY <1>2, <2>1
    <3> QED  BY <1>1, <2>1, <3>1 DEF ProviderInv, KindsOK
  <2>2. CASE d = c
    <3>1. CASE o.kind = k.kind
      BY <1>1, <2>2, <3>1
    <3>2. CASE o.kind # k.kind
      <4>1. PICK x \in objects : x.h = o.h /\ x.kind = o.kind
        BY <1>3, <2>2, <3>2
      <4>2. calls[c].pc # "rejected" /\ k.kind = calls[c].kind
        BY <1>1, <2>2 DEF Done
      <4> QED  BY <1>1, <2>2, <4>1, <4>2 DEF ProviderInv, KindsOK
    <3> QED  BY <3>1, <3>2
  <2> QED  BY <2>1, <2>2
<1>8. RotationsOK'
  <2> SUFFICES ASSUME NEW d \in Calls, calls'[d].op = "rotateKey"
               PROVE  /\ (calls'[d].cleared => \A o \in objects' : o.h = calls'[d].h => o.enabled = {})
                      /\ (calls'[d].pc \in Replaced /\ ~DeactivateDestroys => \E o \in objects' : o.h \in KeyHandles(d))
    BY DEF RotationsOK
  <2>1. ASSUME NEW x \in objects, x.h \in KeyHandles(d), ~DeactivateDestroys
        PROVE  \E o \in objects' : o.h \in KeyHandles(d)
    <3>1. x.id = d /\ d # NoId
      BY <1>3, <2>1, ProviderAssumption DEF ProviderInv, ObjectOK, HasId, NoId
    <3> QED  BY <2>1, <3>1
  <2>2. CASE d = c
    BY <1>1, <2>1, <2>2 DEF ProviderInv, RotationsOK
  <2>3. CASE d # c
    <3>1. ASSUME calls[d].cleared, NEW o \in objects', o.h = calls[d].h
          PROVE  o.enabled = {}
      <4>1. CASE o.h \in SecretHandles(c)
        BY <1>3, <4>1 DEF ObjectOK, HasId
      <4>2. CASE o.h \in KeyHandles(c) /\ calls[c].pc \in Before
        BY <3>1, <4>2 DEF ProviderInv, FreshOK
      <4>3. CASE \E x \in objects : x.h = o.h /\ (x.enabled = {} => o.enabled = {})
        BY <1>1, <2>3, <3>1, <4>3 DEF ProviderInv, RotationsOK
      <4> QED  BY <4>1, <4>2, <4>3
    <3>2. calls'[d] = calls[d]
      BY <1>1, <2>3
    <3>3. calls[d].pc \in Replaced /\ ~DeactivateDestroys => \E o \in objects' : o.h \in KeyHandles(d)
      BY <2>1, <3>2 DEF ProviderInv, RotationsOK
    <3> QED  BY <3>1, <3>2, <3>3
  <2> QED  BY <2>2, <2>3
<1>9. OneKindOK'
  <2> SUFFICES ASSUME NEW x \in objects', NEW y \in objects', x.h = y.h,
                      \A d \in Calls : x.h \notin SecretHandles(d)
               PROVE  x.kind = y.kind
    BY DEF OneKindOK
  <2>1. ASSUME NEW o \in objects', \A d \in Calls : o.h \notin SecretHandles(d)
        PROVE  \/ \E z \in objects : z.h = o.h /\ z.kind = o.kind
               \/ o.h \in KeyHandles(c) /\ calls[c].pc \in Before /\ o.kind = k.kind
    BY <2>1
  <2>2. calls[c].pc \in Before => \A z \in objects : z.h \notin KeyHandles(c)
    BY DEF ProviderInv, FreshOK
  <2>3. \A w, z \in objects : w.h = z.h /\ w.h = x.h => w.kind = z.kind
    BY DEF ProviderInv, OneKindOK
  <2> QED  BY <2>1, <2>2, <2>3
<1>10. ReplacedOK'
  <2> SUFFICES ASSUME NEW d \in Calls, Rotates(calls'[d])
               PROVE  /\ \A e \in Calls : calls'[d].h \notin SecretHandles(e)
                      /\ \A o \in objects' : o.h = calls'[d].h => o.kind = calls'[d].kind
    BY DEF ReplacedOK, Rotates
  <2>1. Rotates(calls[d]) /\ calls'[d].h = calls[d].h /\ calls'[d].kind = calls[d].kind
    BY <1>1
  <2>2. /\ \A e \in Calls : calls[d].h \notin SecretHandles(e)
        /\ \A o \in objects : o.h = calls[d].h => o.kind = calls[d].kind
    BY <2>1 DEF ProviderInv, ReplacedOK
  <2>3. calls[c].pc \in Before => calls[d].h \notin KeyHandles(c)
    BY DEF ProviderInv, FreshOK
  <2> QED  BY <2>1, <2>2, <2>3
<1> QED  BY <1>1, <1>4, <1>5, <1>6, <1>7, <1>8, <1>9, <1>10 DEF ProviderInv

(* What a call derives is an object of its own, without id and usage.      *)
LEMMA DerivedObject ==
  ASSUME NEW c \in Calls, NEW n \in {3, 4, 5}, NEW kind \in Secrets,
         kind = "extractable" => AllowSecretExtraction
  PROVE  /\ ObjectOK(Derived(c, n, kind)) /\ Derived(c, n, kind).h = <<c, n>>
         /\ Derived(c, n, kind).enabled = {} /\ <<c, n>> \in SecretHandles(c)
<1> DEFINE o == Derived(c, n, kind)
<1>1. /\ DOMAIN o = ObjectFields /\ o.h = <<c, n>> /\ o.owner = c /\ o.id = NoId /\ o.enabled = {}
      /\ o.kind = kind
  BY DEF Derived, Object, ObjectFields, NoUri
<1>2. <<c, n>> \in SecretHandles(c) /\ <<c, n>>[1] = c /\ <<c, n>> # <<>>
  BY DEF SecretHandles
<1> HIDE DEF o
<1>3. ObjectOK(o)
  <2>1. kind \notin DOMAIN KeyGen
    BY DEF Secrets, KeyGen
  <2> QED  BY <1>1, <1>2, <2>1 DEF ObjectOK, HasId
<1> QED  BY <1>1, <1>2, <1>3 DEF o

(* A derivation adds a secret to those the call has to destroy.            *)
LEMMA DerivationStep ==
  ASSUME ProviderInv, NEW c \in Calls, NEW n \in {3, 4, 5}, NEW kind \in Secrets,
         kind = "extractable" => AllowSecretExtraction,
         objects' = objects \cup {Derived(c, n, kind)}, returned' = returned,
         NEW k, calls' = [calls EXCEPT ![c] = k],
         CallOK(c, k), calls[c].pc \notin Done, k.pc \in Deriving, k.h = calls[c].h, k.kind = calls[c].kind,
         \E i \in DOMAIN k.temps : k.temps[i] = <<c, n>>,
         calls[c].pc \in Deriving => \A i \in DOMAIN calls[c].temps :
           \E j \in DOMAIN k.temps : k.temps[j] = calls[c].temps[i]
  PROVE  ProviderInv'
<1> DEFINE new == Derived(c, n, kind)
<1>1. ObjectOK(new) /\ new.h = <<c, n>> /\ new.enabled = {} /\ <<c, n>> \in SecretHandles(c)
  BY DerivedObject
<1> HIDE DEF new
<1>2. objects' = objects \cup {new}
  BY DEF new
<1>3. k.pc \notin Before /\ k.pc \notin Replaced /\ ~k.cleared /\ ~Rotates(k)
  BY DEF Deriving, Before, Replaced, Rotates, CallOK, OutcomeOK
<1>4. ASSUME NEW o \in objects'
      PROVE  /\ ObjectOK(o)
             /\ \/ \E x \in objects : /\ x.h = o.h
                                      /\ x.kind = o.kind \/ o.h \in SecretHandles(c)
                                      /\ x.enabled = {} => o.enabled = {}
                                      /\ o.kind \in Secrets => x.kind \in Secrets
                \/ o.h \in KeyHandles(c) /\ calls[c].pc \in Before /\ o.kind = k.kind
                \/ o.h \in SecretHandles(c)
             /\ o.kind \in Secrets /\ o.h[1] = c =>
                  k.pc \in Deriving /\ \E i \in DOMAIN k.temps : k.temps[i] = o.h
             /\ k.op = "rotateKey" /\ k.cleared /\ o.h = k.h => o.enabled = {}
  <2>1. CASE o = new
    BY <1>1, <1>3, <2>1
  <2>2. CASE o \in objects
    <3>1. ObjectOK(o) /\ o.owner = o.h[1]
      BY <2>2 DEF ProviderInv, ObjectOK
    <3>2. o.kind \in Secrets /\ o.h[1] = c => \E i \in DOMAIN k.temps : k.temps[i] = o.h
      BY <2>2, <3>1 DEF ProviderInv, SecretsOK
    <3> QED  BY <1>3, <2>2, <3>1, <3>2
  <2> QED  BY <1>2, <2>1, <2>2
<1>5. \A x \in objects : x.id # NoId => \E o \in objects' : o.h = x.h
  BY <1>2
<1> QED  BY <1>3, <1>4, <1>5, TokenStep, ReturnedStays

(* The places and the temporaries of a derivation.                         *)
LEMMA DerivationSteps ==
  ASSUME ProviderInv, NEW c \in Calls, DeriveInHardware(c) \/ DeriveAesKey(c) \/ DeriveExtractable(c)
  PROVE  ProviderInv'
<1> DEFINE k == calls[c]
<1>1. /\ CallOK(c, k) /\ DOMAIN k = CallFields /\ k.pc \notin Done /\ returned' = returned
      /\ k.pc \in {"derive", "deriveAes", "extract"} /\ k.cleared = FALSE /\ k.next = 1
      /\ k.op = "ecdhDecode" /\ k.op \notin SignOps
  BY DEF ProviderInv, CallOK, OpOK, OutcomeOK, ReferenceOK, DeriveInHardware, DeriveAesKey, DeriveExtractable,
         Done, Deriving, SignOps, Expects
<1>2. ASSUME NEW pc \in Deriving, NEW temps, NEW key, NEW s,
             /\ DOMAIN s = CallFields /\ s.pc = pc /\ s.op = k.op /\ s.cleared = k.cleared
             /\ s.asked = k.asked /\ s.uri = k.uri /\ s.h = k.h /\ s.found = k.found /\ s.key = key
             /\ s.kind = k.kind /\ s.form = k.form /\ s.next = k.next /\ s.temps = temps /\ s.read = k.read,
             key = k.key \/ (k.h # <<>> /\ key = k.h[1]),
             pc = "deriveAes" => temps = <<<<c, 3>>>>,
             pc = "decrypt" => temps = <<<<c, 4>>, <<c, 3>>>>,
             pc = "readSecret" => temps = <<<<c, 5>>>> /\ AllowSecretExtraction,
             pc \notin {"clean", "cleanExtracted"}
      PROVE  CallOK(c, s)
  <2>1. OpOK(s) /\ TempsOK(c, s) /\ OutcomeOK(s)
    BY <1>1, <1>2 DEF OpOK, TempsOK, OutcomeOK, Done, Deriving
  <2>2. ReferenceOK(s)
    BY <1>1, <1>2 DEF CallOK, ReferenceOK, Deriving
  <2> QED  BY <1>2, <2>1, <2>2 DEF CallOK
<1>3. ASSUME Usable(k)
      PROVE  k.h # <<>> /\ Obj(k.h).owner = k.h[1]
  BY <1>3, HeldObject DEF Usable
<1>4. ASSUME k.pc \in {"derive", "extract"}, GoTo(c, "rejected"), objects' = objects
      PROVE  ProviderInv'
  BY <1>1, <1>4, RejectStep DEF Reject, Deriving
<1>5. CASE DeriveInHardware(c)
  <2>1. CASE /\ Usable(k) /\ objects' = objects \cup {Derived(c, 3, "sensitive")}
             /\ calls' = [calls EXCEPT ![c] = [k EXCEPT !.temps = <<<<c, 3>>>>, !.key = Obj(k.h).owner, !.pc = "deriveAes"]]
    <3> DEFINE s == [k EXCEPT !.temps = <<<<c, 3>>>>, !.key = Obj(k.h).owner, !.pc = "deriveAes"]
    <3>1. /\ DOMAIN s = CallFields /\ s.pc = "deriveAes" /\ s.op = k.op /\ s.cleared = k.cleared
          /\ s.asked = k.asked /\ s.uri = k.uri /\ s.h = k.h /\ s.found = k.found /\ s.key = Obj(k.h).owner
          /\ s.kind = k.kind /\ s.form = k.form /\ s.next = k.next /\ s.temps = <<<<c, 3>>>> /\ s.read = k.read
      BY <1>1 DEF CallFields
    <3> HIDE DEF s
    <3>2. CallOK(c, s)
      BY <1>2, <1>3, <2>1, <3>1 DEF Deriving
    <3>3. k.pc \notin Deriving /\ s.pc \in Deriving /\ \E i \in DOMAIN s.temps : s.temps[i] = <<c, 3>>
      BY <1>5, <3>1 DEF DeriveInHardware, Deriving
    <3> QED  BY <1>1, <2>1, <3>1, <3>2, <3>3, DerivationStep DEF s, Secrets
  <2>2. CASE GoTo(c, ExtractOrReject) /\ objects' = objects
    <3>1. k.pc = "derive"
      BY <1>5 DEF DeriveInHardware
    <3>2. CASE AllowSecretExtraction
      <4> DEFINE s == [k EXCEPT !.pc = "extract"]
      <4>1. /\ DOMAIN s = CallFields /\ s.pc = "extract" /\ s.op = k.op /\ s.cleared = k.cleared
            /\ s.asked = k.asked /\ s.uri = k.uri /\ s.h = k.h /\ s.found = k.found /\ s.key = k.key
            /\ s.kind = k.kind /\ s.form = k.form /\ s.next = k.next /\ s.temps = k.temps /\ s.read = k.read
        BY <1>1, PcFields
      <4>2. calls' = [calls EXCEPT ![c] = s]
        BY <2>2, <3>2 DEF GoTo, Set, Done, ExtractOrReject
      <4> HIDE DEF s
      <4>3. CallOK(c, s)
        BY <1>1, <3>1, <3>2, <4>1 DEF CallOK, OpOK, ReferenceOK, TempsOK, OutcomeOK, Done, Deriving
      <4>4. Moves(c, s)
        BY <1>1, <3>1, <4>1, <4>3 DEF Moves, Rotates, Before, Deriving, Replaced, Done
      <4> QED  BY <1>1, <2>2, <4>2, <4>4, MoveStep, ReturnedStays
    <3>3. CASE ~AllowSecretExtraction
      BY <1>4, <2>2, <3>1, <3>3 DEF ExtractOrReject
    <3> QED  BY <3>2, <3>3
  <2> QED  BY <1>5, <2>1, <2>2 DEF DeriveInHardware, Set
<1>6. CASE DeriveAesKey(c)
  <2>0. k.pc = "deriveAes" /\ k.temps = <<<<c, 3>>>>
    BY <1>1, <1>6 DEF DeriveAesKey, CallOK, TempsOK
  <2>1. CASE /\ objects' = objects \cup {Derived(c, 4, "sensitive")}
             /\ calls' = [calls EXCEPT ![c] = [k EXCEPT !.temps = <<<<c, 4>>, <<c, 3>>>>, !.pc = "decrypt"]]
    <3> DEFINE s == [k EXCEPT !.temps = <<<<c, 4>>, <<c, 3>>>>, !.pc = "decrypt"]
    <3>1. /\ DOMAIN s = CallFields /\ s.pc = "decrypt" /\ s.op = k.op /\ s.cleared = k.cleared
          /\ s.asked = k.asked /\ s.uri = k.uri /\ s.h = k.h /\ s.found = k.found /\ s.key = k.key
          /\ s.kind = k.kind /\ s.form = k.form /\ s.next = k.next /\ s.temps = <<<<c, 4>>, <<c, 3>>>> /\ s.read = k.read
      BY <1>1 DEF CallFields
    <3> HIDE DEF s
    <3>2. CallOK(c, s)
      BY <1>2, <3>1 DEF Deriving
    <3>3. 1 \in DOMAIN s.temps /\ s.temps[1] = <<c, 4>> /\ 2 \in DOMAIN s.temps /\ s.temps[2] = <<c, 3>>
      BY <3>1
    <3>4. \A i \in DOMAIN k.temps : k.temps[i] = <<c, 3>>
      BY <2>0
    <3> QED  BY <1>1, <2>1, <3>1, <3>2, <3>3, <3>4, DerivationStep DEF s, Secrets, Deriving
  <2>2. CASE calls' = [calls EXCEPT ![c] = [k EXCEPT !.ok = FALSE, !.pc = "clean"]] /\ objects' = objects
    BY <1>1, <2>0, <2>2, ToCleaningSteps
  <2> QED  BY <1>6, <2>1, <2>2 DEF DeriveAesKey, Set
<1>7. CASE DeriveExtractable(c)
  <2>0. k.pc = "extract" /\ AllowSecretExtraction
    BY <1>1, <1>7 DEF DeriveExtractable, CallOK, OpOK
  <2>1. CASE /\ Usable(k) /\ objects' = objects \cup {Derived(c, 5, "extractable")}
             /\ calls' = [calls EXCEPT ![c] = [k EXCEPT !.temps = <<<<c, 5>>>>, !.key = Obj(k.h).owner, !.pc = "readSecret"]]
    <3> DEFINE s == [k EXCEPT !.temps = <<<<c, 5>>>>, !.key = Obj(k.h).owner, !.pc = "readSecret"]
    <3>1. /\ DOMAIN s = CallFields /\ s.pc = "readSecret" /\ s.op = k.op /\ s.cleared = k.cleared
          /\ s.asked = k.asked /\ s.uri = k.uri /\ s.h = k.h /\ s.found = k.found /\ s.key = Obj(k.h).owner
          /\ s.kind = k.kind /\ s.form = k.form /\ s.next = k.next /\ s.temps = <<<<c, 5>>>> /\ s.read = k.read
      BY <1>1 DEF CallFields
    <3> HIDE DEF s
    <3>2. CallOK(c, s)
      BY <1>2, <1>3, <2>0, <2>1, <3>1 DEF Deriving
    <3>3. k.pc \notin Deriving /\ s.pc \in Deriving /\ \E i \in DOMAIN s.temps : s.temps[i] = <<c, 5>>
      BY <2>0, <3>1 DEF Deriving
    <3> QED  BY <1>1, <2>0, <2>1, <3>1, <3>2, <3>3, DerivationStep DEF s, Secrets
  <2>2. CASE Reject(c) /\ objects' = objects
    BY <1>4, <2>0, <2>2 DEF Reject
  <2> QED  BY <1>7, <2>1, <2>2 DEF DeriveExtractable, Set
<1> QED  BY <1>5, <1>6, <1>7

(* A finally block destroys the secret it is about, or leaves one that the *)
(* token refused to destroy; the call goes on with the rest.               *)
LEMMA CleanStep ==
  ASSUME ProviderInv, NEW c \in Calls, Clean(c)
  PROVE  ProviderInv'
<1> DEFINE k == calls[c]
           h == Head(k.temps)
           after == IF Len(k.temps) > 1 THEN k.pc
                    ELSE IF k.ok THEN "fulfilled"
                    ELSE IF k.pc = "clean" THEN ExtractOrReject ELSE "rejected"
           s == IF after \in Done THEN Settled(k, after) ELSE [k EXCEPT !.temps = Tail(k.temps), !.pc = after]
           left == [Obj(h) EXCEPT !.kind = "undestroyed"]
<1>1. /\ k.pc \in {"clean", "cleanExtracted"} /\ returned' = returned
      /\ calls' = [calls EXCEPT ![c] = s]
      /\ \/ objects' = Without(h)
         \/ Holds(h) /\ objects' = Without(h) \cup {left}
  BY DEF Clean, Set
<1>2. /\ CallOK(c, k) /\ DOMAIN k = CallFields /\ k.cleared = FALSE /\ k.next = 1
      /\ k.op = "ecdhDecode" /\ k.pc \notin Done /\ k.pc \in Deriving /\ k.op \notin SignOps
  BY <1>1 DEF ProviderInv, CallOK, OpOK, OutcomeOK, ReferenceOK, Done, Deriving, SignOps, Expects
<1>3. /\ k.pc = "clean" => k.temps \in {<<<<c, 4>>, <<c, 3>>>>, <<<<c, 3>>>>}
      /\ k.pc = "cleanExtracted" => k.temps = <<<<c, 5>>>> /\ AllowSecretExtraction
  BY <1>2 DEF CallOK, TempsOK, OpOK
<1>4. /\ h \in SecretHandles(c)
      /\ \/ k.pc = "clean" /\ k.temps = <<<<c, 4>>, <<c, 3>>>> /\ h = <<c, 4>> /\ after = "clean"
            /\ Tail(k.temps) = <<<<c, 3>>>>
         \/ /\ \A i \in DOMAIN k.temps : k.temps[i] = h
            /\ after \in {"fulfilled", "rejected"} \/ (after = "extract" /\ AllowSecretExtraction)
  <2>1. CASE k.temps = <<<<c, 4>>, <<c, 3>>>>
    <3>1. k.pc = "clean"
      BY <1>1, <1>3, <2>1
    <3>2. h = <<c, 4>> /\ Len(k.temps) = 2 /\ Tail(k.temps) = <<<<c, 3>>>>
      BY <2>1
    <3> QED  BY <2>1, <3>1, <3>2 DEF SecretHandles
  <2>2. CASE k.temps = <<<<c, 3>>>> \/ k.temps = <<<<c, 5>>>>
    <3>1. h \in SecretHandles(c) /\ Len(k.temps) = 1 /\ \A i \in DOMAIN k.temps : k.temps[i] = h
      BY <2>2 DEF SecretHandles
    <3> QED  BY <1>1, <3>1 DEF ExtractOrReject
  <2> QED  BY <1>1, <1>3, <2>1, <2>2
<1> HIDE DEF after, h
<1>5. /\ DOMAIN s = CallFields /\ s.pc = after /\ s.op = k.op /\ s.cleared = FALSE /\ s.next = 1
      /\ after = "rejected" => /\ s.asked = NoUri /\ s.uri = NoUri /\ s.h = <<>>
                               /\ s.found = "none" /\ s.key = "none"
      /\ after # "rejected" => /\ s.asked = k.asked /\ s.uri = k.uri /\ s.h = k.h
                               /\ s.found = k.found /\ s.key = k.key /\ s.kind = k.kind /\ s.read = k.read
      /\ after \in {"clean", "extract"} => s.temps = Tail(k.temps)
  <2>1. CASE after = "rejected"
    BY <1>2, <2>1, RejectedCall DEF Done
  <2>2. CASE after = "fulfilled"
    BY <1>2, <2>2, FulfilledCall DEF Done
  <2>3. CASE after \in {"clean", "extract"}
    BY <1>2, <2>3 DEF Done, CallFields
  <2> QED  BY <1>4, <2>1, <2>2, <2>3
<1> HIDE DEF s
<1>6. CallOK(c, s)
  <2>1. OpOK(s)
    BY <1>2, <1>4, <1>5 DEF OpOK, Done, Deriving
  <2>2. TempsOK(c, s)
    BY <1>4, <1>5 DEF TempsOK
  <2>3. OutcomeOK(s)
    BY <1>2, <1>5 DEF OutcomeOK
  <2>4. ReferenceOK(s)
    <3>1. CASE after = "rejected"
      BY <1>5, <3>1, NoUriFields DEF ReferenceOK
    <3>2. CASE after # "rejected"
      BY <1>2, <1>4, <1>5, <3>2 DEF CallOK, ReferenceOK
    <3> QED  BY <3>1, <3>2
  <2> QED  BY <1>5, <2>1, <2>2, <2>3, <2>4 DEF CallOK
<1>7. ASSUME Holds(h)
      PROVE  /\ Obj(h) \in objects /\ left.h = h /\ left.kind = "undestroyed" /\ left.enabled = Obj(h).enabled
             /\ ObjectOK(left)
  <2>1. Obj(h) \in objects /\ Obj(h).h = h /\ ObjectOK(Obj(h))
    BY <1>7, HeldObject
  <2>2. /\ DOMAIN left = ObjectFields /\ left.h = h /\ left.id = Obj(h).id /\ left.owner = Obj(h).owner
        /\ left.enabled = Obj(h).enabled /\ left.kind = "undestroyed"
    BY <2>1 DEF ObjectOK, ObjectFields
  <2> HIDE DEF left
  <2>3. ObjectOK(left)
    BY <2>1, <2>2 DEF ObjectOK, Secrets, KeyGen
  <2> QED  BY <2>1, <2>2, <2>3
<1> HIDE DEF left
<1>8. ASSUME NEW o \in objects'
      PROVE  /\ ObjectOK(o)
             /\ \/ \E x \in objects : /\ x.h = o.h
                                      /\ x.kind = o.kind \/ o.h \in SecretHandles(c)
                                      /\ x.enabled = {} => o.enabled = {}
                                      /\ o.kind \in Secrets => x.kind \in Secrets
                \/ o.h \in KeyHandles(c) /\ calls[c].pc \in Before /\ o.kind = s.kind
                \/ o.h \in SecretHandles(c)
             /\ o.kind \in Secrets /\ o.h[1] = c =>
                  s.pc \in Deriving /\ \E i \in DOMAIN s.temps : s.temps[i] = o.h
             /\ s.op = "rotateKey" /\ s.cleared /\ o.h = s.h => o.enabled = {}
  <2>1. CASE Holds(h) /\ o = left
    BY <1>4, <1>5, <1>7, <2>1 DEF Secrets
  <2>2. CASE o \in objects /\ o.h # h
    <3>1. ObjectOK(o) /\ o.owner = o.h[1]
      BY <2>2 DEF ProviderInv, ObjectOK
    <3>2. ASSUME o.kind \in Secrets, o.h[1] = c
          PROVE  s.pc \in Deriving /\ \E i \in DOMAIN s.temps : s.temps[i] = o.h
      <4>1. \E i \in DOMAIN k.temps : k.temps[i] = o.h
        BY <2>2, <3>1, <3>2 DEF ProviderInv, SecretsOK
      <4>2. /\ k.temps = <<<<c, 4>>, <<c, 3>>>> /\ h = <<c, 4>> /\ after = "clean"
            /\ Tail(k.temps) = <<<<c, 3>>>>
        BY <1>4, <2>2, <4>1
      <4>3. o.h = <<c, 3>>
        BY <2>2, <4>1, <4>2
      <4>4. s.pc = "clean" /\ s.temps = <<<<c, 3>>>>
        BY <1>5, <4>2
      <4> QED  BY <4>3, <4>4 DEF Deriving
    <3> QED  BY <1>5, <2>2, <3>1, <3>2
  <2> QED  BY <1>1, <2>1, <2>2 DEF Without
<1>9. \A x \in objects : x.id # NoId => \E o \in objects' : o.h = x.h
  <2> SUFFICES ASSUME NEW x \in objects, x.id # NoId
               PROVE  x \in objects'
    OBVIOUS
  <2>1. x.h # h
    BY <1>4 DEF ProviderInv, ObjectOK, HasId, SecretHandles, KeyHandles
  <2> QED  BY <1>1, <2>1 DEF Without
<1>10. s.pc \notin Before /\ s.op # "rotateKey" /\ ~Rotates(s)
  BY <1>2, <1>4, <1>5 DEF Before, Rotates
<1> QED
  BY <1>1, <1>2, <1>5, <1>6, <1>8, <1>9, <1>10, TokenStep, ReturnedStays

(* What is rejected leaves the token as it was; the cleared object stays,  *)
(* without a usage.                                                        *)
LEMMA ClearStep ==
  ASSUME ProviderInv, NEW c \in Calls, Clear(c)
  PROVE  ProviderInv'
<1> DEFINE k == calls[c]
           r == [k EXCEPT !.cleared = TRUE]
           s == Settled(r, "fulfilled")
           new == [Obj(k.h) EXCEPT !.enabled = {}]
<1>1. k.pc = "clear"
  BY DEF Clear
<1>2. /\ CallOK(c, k) /\ DOMAIN k = CallFields /\ k.pc \notin Done \cup Deriving
      /\ k.op = "deactivateKey" \/ (k.op = "rotateKey" /\ RotateDisablesPrevious)
  BY <1>1 DEF ProviderInv, CallOK, OpOK, Done, Deriving
<1>3. CASE GoTo(c, Refused(k)) /\ UNCHANGED <<objects, returned>>
  BY <1>1, <1>3, RefusedStep
<1>4. CASE /\ Holds(k.h) /\ objects' = Without(k.h) \cup {new}
           /\ Fulfil(c, r, IF k.op = "rotateKey" THEN NewRef(c) ELSE {})
  <2>1. calls' = [calls EXCEPT ![c] = s]
    BY <1>4 DEF Fulfil, Set
  <2>2. ReturnedOK'
    <3>1. r.aborted = k.aborted
      BY <1>2 DEF CallFields
    <3>2. CASE k.op = "rotateKey"
      BY <1>4, <3>1, <3>2, NewReferenceStep DEF Fulfil
    <3>3. CASE k.op # "rotateKey"
      BY <1>4, <3>3, ReturnedStays DEF Fulfil
    <3> QED  BY <3>2, <3>3
  <2>3. /\ DOMAIN s = CallFields /\ s.pc = "fulfilled" /\ s.op = k.op /\ s.cleared = TRUE /\ s.next = 1
        /\ s.asked = k.asked /\ s.uri = k.uri /\ s.h = k.h /\ s.found = k.found /\ s.key = k.key
        /\ s.kind = k.kind /\ s.read = k.read
    <3>1. /\ r.op = k.op /\ r.cleared = TRUE /\ r.read = k.read /\ r.asked = k.asked /\ r.uri = k.uri /\ r.h = k.h
          /\ r.found = k.found /\ r.key = k.key /\ r.kind = k.kind
      BY <1>2 DEF CallFields
    <3> HIDE DEF r
    <3> QED  BY <3>1, FulfilledCall
  <2> HIDE DEF s
  <2>4. CallOK(c, s)
    <3>1. OpOK(s) /\ TempsOK(c, s)
      BY <2>3 DEF OpOK, TempsOK, Done, Deriving
    <3>2. OutcomeOK(s)
      BY <1>2, <2>3, ProviderAssumption DEF OutcomeOK, SignOps, Expects
    <3>3. ReferenceOK(s)
      BY <1>2, <2>3 DEF CallOK, ReferenceOK
    <3> QED  BY <2>3, <3>1, <3>2, <3>3 DEF CallOK
  <2>5. /\ Obj(k.h) \in objects /\ new.h = k.h /\ Obj(k.h).h = k.h /\ new.kind = Obj(k.h).kind /\ new.enabled = {}
        /\ ObjectOK(new)
    <3>1. Obj(k.h) \in objects /\ Obj(k.h).h = k.h /\ ObjectOK(Obj(k.h))
      BY <1>4, HeldObject
    <3>2. /\ DOMAIN new = ObjectFields /\ new.h = k.h /\ new.id = Obj(k.h).id /\ new.owner = Obj(k.h).owner
          /\ new.enabled = {} /\ new.kind = Obj(k.h).kind
      BY <3>1 DEF ObjectOK, ObjectFields
    <3> HIDE DEF new
    <3>3. ObjectOK(new)
      BY <3>1, <3>2 DEF ObjectOK
    <3> QED  BY <3>1, <3>2, <3>3
  <2> HIDE DEF new
  <2>6. ASSUME NEW o \in objects, o.kind \in Secrets
        PROVE  o.h[1] # c
    BY <1>2, <2>6 DEF ProviderInv, ObjectOK, SecretsOK
  <2>7. ASSUME NEW o \in objects'
        PROVE  /\ ObjectOK(o)
               /\ \/ \E x \in objects : /\ x.h = o.h
                                        /\ x.kind = o.kind \/ o.h \in SecretHandles(c)
                                        /\ x.enabled = {} => o.enabled = {}
                                        /\ o.kind \in Secrets => x.kind \in Secrets
                  \/ o.h \in KeyHandles(c) /\ calls[c].pc \in Before /\ o.kind = s.kind
                  \/ o.h \in SecretHandles(c)
               /\ o.kind \in Secrets /\ o.h[1] = c =>
                    s.pc \in Deriving /\ \E i \in DOMAIN s.temps : s.temps[i] = o.h
               /\ s.op = "rotateKey" /\ s.cleared /\ o.h = s.h => o.enabled = {}
    <3>1. CASE o = new
      BY <2>5, <2>6, <3>1
    <3>2. CASE o \in objects /\ o.h # k.h
      BY <2>3, <2>6, <3>2 DEF ProviderInv
    <3> QED  BY <1>4, <3>1, <3>2 DEF Without
  <2>8. \A x \in objects : x.id # NoId => \E o \in objects' : o.h = x.h
    BY <1>4, <2>5 DEF Without
  <2>9. s.pc \notin Before /\ (k.pc \in Replaced)
    BY <1>1, <2>3 DEF Before, Replaced
  <2> QED
    <3>1. /\ calls[c].pc \notin Done /\ s.h = calls[c].h /\ s.kind = calls[c].kind
          /\ s.op = "rotateKey" => calls[c].op = "rotateKey" /\ calls[c].pc \in Replaced
          /\ Rotates(s) => Rotates(calls[c])
      BY <1>2, <2>3, <2>9 DEF Rotates
    <3> HIDE DEF k, r
    <3> QED  BY <2>1, <2>2, <2>4, <2>7, <2>8, <2>9, <3>1, TokenStep
<1> QED  BY <1>3, <1>4 DEF Clear

(* What is destroyed is gone, and nothing else is.                         *)
LEMMA DestroyStep ==
  ASSUME ProviderInv, NEW c \in Calls, Destroy(c)
  PROVE  ProviderInv'
<1> DEFINE k == calls[c]
           s == Settled(k, "fulfilled")
<1>1. k.pc = "destroy"
  BY DEF Destroy
<1>2. /\ CallOK(c, k) /\ k.pc \notin Done \cup Deriving /\ k.op = "deactivateKey" /\ DeactivateDestroys
      /\ k.cleared = FALSE
  BY <1>1 DEF ProviderInv, CallOK, OpOK, OutcomeOK, Done, Deriving
<1>3. CASE Reject(c) /\ UNCHANGED <<objects, returned>>
  BY <1>2, <1>3, RejectStep
<1>4. CASE Holds(k.h) /\ objects' = Without(k.h) /\ Fulfil(c, k, {})
  <2>1. calls' = [calls EXCEPT ![c] = s] /\ returned' = returned
    BY <1>4 DEF Fulfil, Set
  <2>2. /\ DOMAIN s = CallFields /\ s.pc = "fulfilled" /\ s.op = k.op /\ s.cleared = FALSE
        /\ s.h = k.h /\ s.kind = k.kind
    BY <1>2, FulfilledCall
  <2>3. CallOK(c, s)
    BY <1>2, FulfilMoves, ZenonT(30) DEF Moves, CallOK, ReferenceOK, SignOps, Expects
  <2> HIDE DEF s
  <2>4. ASSUME NEW o \in objects'
        PROVE  o \in objects /\ ObjectOK(o) /\ ~(o.kind \in Secrets /\ o.h[1] = c)
    BY <1>2, <1>4, <2>4 DEF ProviderInv, ObjectOK, SecretsOK, Without
  <2>5. s.pc \notin Before /\ s.op # "rotateKey" /\ ~Rotates(s)
    BY <1>2, <2>2 DEF Before, Rotates
  <2> QED  BY <1>2, <2>1, <2>2, <2>3, <2>4, <2>5, TokenStep, ReturnedStays
<1> QED  BY <1>3, <1>4 DEF Destroy

(* A generated key has the id of its call, and handles nobody had before.  *)
LEMMA GeneratedObjects ==
  ASSUME NEW c \in Calls, NEW kind \in DOMAIN KeyGen, NEW size, NEW label, NEW first
  PROVE  /\ \A o \in Generated(c, kind, size, label, first) :
              ObjectOK(o) /\ o.h \in KeyHandles(c) /\ o.kind = kind
         /\ \E o \in Generated(c, kind, size, label, first) : o.h \in KeyHandles(c)
<1> DEFINE uri == [label |-> label, id |-> c]
<1>1. kind \notin Secrets
  BY DEF KeyGen, Secrets
<1>2. ASSUME NEW n \in {1, 2}, NEW class, NEW enabled
      PROVE  LET o == Object(<<c, n>>, class, uri, kind, size, enabled)
             IN  ObjectOK(o) /\ o.h \in KeyHandles(c) /\ o.kind = kind
  <2> DEFINE o == Object(<<c, n>>, class, uri, kind, size, enabled)
  <2>1. DOMAIN o = ObjectFields /\ o.h = <<c, n>> /\ o.owner = c /\ o.id = c /\ o.kind = kind
    BY DEF Object, ObjectFields
  <2>2. <<c, n>> \in KeyHandles(c) /\ <<c, n>>[1] = c /\ <<c, n>> # <<>>
    BY DEF KeyHandles
  <2>3. c # NoId
    BY ProviderAssumption DEF NoId
  <2> HIDE DEF o
  <2>4. ObjectOK(o)
    BY <1>1, <2>1, <2>2, <2>3 DEF ObjectOK, HasId, Owns, Secrets
  <2> QED  BY <2>1, <2>2, <2>4 DEF o
<1>3. \A o \in Generated(c, kind, size, label, first) :
        ObjectOK(o) /\ o.h \in KeyHandles(c) /\ o.kind = kind
  BY <1>2 DEF Generated
<1>4. \E o \in Generated(c, kind, size, label, first) : TRUE
  BY DEF Generated
<1> QED  BY <1>3, <1>4

(* A generation puts the key on the token, whatever becomes of the call.   *)
LEMMA GenerateStep ==
  ASSUME ProviderInv, NEW c \in Calls, Generate(c)
  PROVE  ProviderInv'
<1> DEFINE k == calls[c]
           G == Generated(c, k.kind, k.size, NewLabel(k), k.op # "rotateKey")
<1>1. k.pc = "generate"
  BY DEF Generate
<1>2. /\ CallOK(c, k) /\ DOMAIN k = CallFields /\ k.cleared = FALSE /\ k.next = 1
      /\ k.pc \notin Done \cup Deriving /\ k.pc \in Before
      /\ k.op \in DOMAIN Generates \cup {"rotateKey"} /\ k.kind \in DOMAIN KeyGen
  BY <1>1 DEF ProviderInv, CallOK, OpOK, OutcomeOK, ReferenceOK, Done, Deriving, Before
<1>3. k.op \notin SignOps
  BY <1>2 DEF Generates, SignOps, Expects
<1>4. CASE Reject(c) /\ UNCHANGED <<objects, returned>>
  BY <1>2, <1>4, RejectStep
<1>5. /\ \A o \in G : ObjectOK(o) /\ o.h \in KeyHandles(c) /\ o.kind = k.kind
      /\ \E o \in G : o.h \in KeyHandles(c)
  BY <1>2, GeneratedObjects
<1> HIDE DEF G
<1>6. ASSUME objects' = objects \cup G, ReturnedOK', NEW s, calls' = [calls EXCEPT ![c] = s],
             CallOK(c, s), s.pc \notin Before \cup Deriving, s.h = k.h, s.kind = k.kind, s.cleared = FALSE,
             s.op = k.op, s.read = k.read
      PROVE  ProviderInv'
  <2>1. ASSUME NEW o \in objects'
        PROVE  /\ ObjectOK(o)
               /\ \/ \E x \in objects : /\ x.h = o.h
                                        /\ x.kind = o.kind \/ o.h \in SecretHandles(c)
                                        /\ x.enabled = {} => o.enabled = {}
                                        /\ o.kind \in Secrets => x.kind \in Secrets
                  \/ o.h \in KeyHandles(c) /\ calls[c].pc \in Before /\ o.kind = s.kind
                  \/ o.h \in SecretHandles(c)
               /\ o.kind \in Secrets /\ o.h[1] = c =>
                    s.pc \in Deriving /\ \E i \in DOMAIN s.temps : s.temps[i] = o.h
               /\ s.op = "rotateKey" /\ s.cleared /\ o.h = s.h => o.enabled = {}
    <3>1. CASE o \in G
      <4>1. o.kind \notin Secrets
        BY <1>2, <1>5, <3>1 DEF KeyGen, Secrets
      <4> QED  BY <1>2, <1>5, <1>6, <3>1, <4>1
    <3>2. CASE o \in objects
      <4>1. ObjectOK(o) /\ ~(o.kind \in Secrets /\ o.h[1] = c)
        BY <1>2, <3>2 DEF ProviderInv, ObjectOK, SecretsOK
      <4> QED  BY <1>6, <3>2, <4>1
    <3> QED  BY <1>6, <3>1, <3>2
  <2>2. \A x \in objects : x.id # NoId => \E o \in objects' : o.h = x.h
    BY <1>6
  <2>3. \E o \in objects' : o.h \in KeyHandles(c)
    BY <1>5, <1>6
  <2> HIDE DEF k
  <2>4. /\ calls[c].pc \notin Done /\ s.h = calls[c].h /\ s.kind = calls[c].kind
        /\ Rotates(s) => Rotates(calls[c])
    BY <1>1, <1>2, <1>6 DEF k, Rotates
  <2> QED  BY <1>6, <2>1, <2>2, <2>3, <2>4, TokenStep
<1>7. ASSUME NEW pc \in {"readBack", "probe"}, pc = "probe" => k.op = "rotateKey" /\ RotateDisablesPrevious,
             GoTo(c, pc), objects' = objects \cup G, returned' = returned
      PROVE  ProviderInv'
  <2> DEFINE s == [k EXCEPT !.pc = pc]
  <2>1. /\ DOMAIN s = CallFields /\ s.pc = pc /\ s.op = k.op /\ s.cleared = k.cleared
        /\ s.asked = k.asked /\ s.uri = k.uri /\ s.h = k.h /\ s.found = k.found /\ s.key = k.key
        /\ s.kind = k.kind /\ s.form = k.form /\ s.next = k.next /\ s.temps = k.temps /\ s.read = k.read
    BY <1>2, PcFields
  <2>2. calls' = [calls EXCEPT ![c] = s]
    BY <1>7 DEF GoTo, Set, Done
  <2> HIDE DEF s
  <2>3. CallOK(c, s)
    BY <1>1, <1>2, <1>3, <1>7, <2>1 DEF CallOK, OpOK, ReferenceOK, TempsOK, OutcomeOK, Done, Deriving
  <2>4. s.pc \notin Before \cup Deriving
    BY <1>7, <2>1 DEF Before, Deriving
  <2> QED  BY <1>2, <1>6, <1>7, <2>1, <2>2, <2>3, <2>4, ReturnedStays
<1>8. ASSUME ~(k.op = "rotateKey" /\ RotateDisablesPrevious), Fulfil(c, k, NewRef(c)), objects' = objects \cup G
      PROVE  ProviderInv'
  <2> DEFINE s == Settled(k, "fulfilled")
  <2>1. calls' = [calls EXCEPT ![c] = s] /\ ReturnedOK'
    BY <1>8, NewReferenceStep DEF Fulfil, Set
  <2>2. /\ DOMAIN s = CallFields /\ s.pc = "fulfilled" /\ s.op = k.op /\ s.cleared = FALSE
        /\ s.asked = k.asked /\ s.uri = k.uri /\ s.h = k.h /\ s.found = k.found /\ s.key = k.key
        /\ s.kind = k.kind /\ s.form = k.form /\ s.next = 1 /\ s.read = k.read
    BY <1>2, FulfilledCall
  <2> HIDE DEF s
  <2>3. CallOK(c, s)
    <3>1. OpOK(s) /\ TempsOK(c, s)
      BY <2>2 DEF OpOK, TempsOK, Done, Deriving
    <3>2. OutcomeOK(s)
      BY <1>3, <1>8, <2>2, ProviderAssumption DEF OutcomeOK
    <3>3. ReferenceOK(s)
      BY <1>2, <2>2 DEF CallOK, ReferenceOK
    <3> QED  BY <2>2, <3>1, <3>2, <3>3 DEF CallOK
  <2>4. s.pc \notin Before \cup Deriving
    BY <2>2 DEF Before, Deriving
  <2> QED  BY <1>6, <1>8, <2>1, <2>2, <2>3, <2>4
<1>9. CASE objects' = objects \cup G /\ k.kind = "aes" /\ AfterGenerate(c)
  BY <1>7, <1>8, <1>9 DEF AfterGenerate
<1>10. CASE objects' = objects \cup G /\ k.kind # "aes" /\ GoTo(c, "readBack") /\ returned' = returned
  BY <1>7, <1>10
<1> QED  BY <1>4, <1>9, <1>10 DEF Generate, G

(***************************************************************************)
(* Every step of the provider preserves ProviderInv.                       *)
(***************************************************************************)
LEMMA ProviderInvNext == ProviderInv /\ [Next]_vars => ProviderInv'
<1> SUFFICES ASSUME ProviderInv, [Next]_vars PROVE ProviderInv'
  OBVIOUS
<1>1. ASSUME NEW c \in Calls,
             \/ \E op \in Ops, uri \in Known, suffix \in Suffixes, size \in Sizes : Start(c, op, uri, suffix, size)
             \/ \E op \in Ops, uri \in Known : StartRejected(c, op, uri)
             \/ \E op \in Ops : StartWithoutUri(c, op)
             \/ Abort(c) \/ Find(c)
      PROVE  ProviderInv'
  <2>1. CASE \E op \in Ops, uri \in Known, suffix \in Suffixes, size \in Sizes : Start(c, op, uri, suffix, size)
    BY <2>1, StartStep
  <2>2. CASE \E op \in Ops, uri \in Known : StartRejected(c, op, uri)
    BY <2>2, StartOtherwiseStep
  <2>3. CASE \E op \in Ops : StartWithoutUri(c, op)
    BY <2>3, StartOtherwiseStep
  <2> QED  BY <1>1, <2>1, <2>2, <2>3, AbortStep, FindStep
<1>2. ASSUME NEW c \in Calls, Use(c) \/ Sign(c)
      PROVE  ProviderInv'
  BY <1>2, UseAndSignSteps
<1>3. ASSUME NEW c \in Calls, DeriveInHardware(c) \/ DeriveAesKey(c) \/ DeriveExtractable(c)
      PROVE  ProviderInv'
  BY <1>3, DerivationSteps
<1>4. ASSUME NEW c \in Calls, DecryptInHardware(c) \/ ReadSecret(c)
      PROVE  ProviderInv'
  BY <1>4, ToCleaningSteps DEF DecryptInHardware, ReadSecret, Set
<1>5. ASSUME NEW c \in Calls, DescribeForGet(c) \/ PublicObjectFor(c) \/ ReadPublic(c)
      PROVE  ProviderInv'
  BY <1>5, DescribeForGetStep, PublicObjectForStep, ReadPublicStep
<1>6. ASSUME NEW c \in Calls, DescribeForRotation(c) \/ Generate(c) \/ ReadBack(c)
      PROVE  ProviderInv'
  BY <1>6, DescribeForRotationStep, GenerateStep, ReadBackStep
<1>7. ASSUME NEW c \in Calls, Clean(c) \/ Probe(c) \/ Clear(c) \/ Destroy(c)
      PROVE  ProviderInv'
  BY <1>7, CleanStep, ProbeStep, ClearStep, DestroyStep
<1>8. CASE ProviderNext
  BY <1>1, <1>2, <1>3, <1>4, <1>5, <1>6, <1>7, <1>8 DEF ProviderNext
<1>9. CASE UNCHANGED providerVars
  <2>1. objects' = objects /\ calls' = calls /\ returned' = returned
    BY <1>9 DEF providerVars
  <2>2. (\A o \in objects : ObjectOK(o))' /\ (\A c \in Calls : CallOK(c, calls[c]))'
    BY <2>1 DEF ProviderInv, ObjectOK, CallOK, OpOK, ReferenceOK, TempsOK, OutcomeOK
  <2> QED
    BY <2>1, <2>2
       DEF ProviderInv, FreshOK, SecretsOK, KindsOK, RotationsOK, OneKindOK, ReplacedOK, Rotates, ReturnedOK
<1> QED  BY <1>8, <1>9 DEF Next, vars

(* The invariant holds at first.                                           *)
LEMMA ProviderInvAtFirst == Init => ProviderInv
BY ProviderInvInit DEF Init

(***************************************************************************)
(* What ECDH derives on the token never outlives its call, along every     *)
(* path of the nested finally blocks of decryptEcdhInHardware and the      *)
(* fallback to extraction, however the calls interleave.                   *)
(***************************************************************************)
THEOREM SecretsAreContained == Spec => []DerivedSecretsContained
<1>1. ProviderInv => DerivedSecretsContained
  <2> SUFFICES ASSUME ProviderInv, NEW o \in objects
               PROVE  /\ o.kind \in {"sensitive", "extractable"} => calls[o.owner].pc \notin Done
                      /\ o.kind = "extractable" => AllowSecretExtraction
    BY DEF DerivedSecretsContained
  <2>1. Deriving \cap Done = {}
    BY DEF Deriving, Done
  <2> QED  BY <2>1 DEF ProviderInv, SecretsOK, Secrets, ObjectOK
<1> QED  BY <1>1, ProviderInvAtFirst, ProviderInvNext, PTL DEF Spec

(***************************************************************************)
(* rotateKey is all or nothing whichever of its awaits fails, whatever     *)
(* other calls generate, rotate, disable and destroy meanwhile.  That the  *)
(* replacement is of the kind of the key it replaces holds of a rotation   *)
(* that has read that key; where the second C_GetAttributeValue failed     *)
(* unnoticed, the theorem says nothing of the kind.                        *)
(***************************************************************************)
THEOREM RotationIsAllOrNothing == Spec => []RotationAllOrNothing
<1>1. ProviderInv => RotationAllOrNothing
  <2> SUFFICES ASSUME ProviderInv, NEW c \in Calls, calls[c].op = "rotateKey"
               PROVE  /\ calls[c].cleared => calls[c].pc = "fulfilled" /\ RotateDisablesPrevious
                      /\ calls[c].pc = "fulfilled" =>
                           /\ calls[c].cleared = RotateDisablesPrevious
                           /\ calls[c].cleared /\ Holds(calls[c].h) => Obj(calls[c].h).enabled = {}
                           /\ calls[c].read /\ Holds(calls[c].h) =>
                                \A o \in KeysOf(c) : o.kind = Obj(calls[c].h).kind
                           /\ ~DeactivateDestroys => KeysOf(c) # {}
    BY DEF RotationAllOrNothing
  <2>1. /\ calls[c].cleared \in BOOLEAN
        /\ calls[c].cleared => calls[c].pc = "fulfilled"
        /\ calls[c].pc = "fulfilled" => calls[c].cleared = RotateDisablesPrevious
    BY DEF ProviderInv, CallOK, OutcomeOK
  <2>2. calls[c].cleared /\ Holds(calls[c].h) => Obj(calls[c].h).enabled = {}
    BY HeldObject DEF ProviderInv, RotationsOK
  <2>3. ASSUME NEW o \in KeysOf(c)
        PROVE  o \in objects /\ o.h \in KeyHandles(c)
    BY <2>3 DEF KeysOf, ProviderInv, ObjectOK, HasId
  <2>4. calls[c].pc = "fulfilled" /\ calls[c].read /\ Holds(calls[c].h) =>
          \A o \in KeysOf(c) : o.kind = Obj(calls[c].h).kind
    <3>1. calls[c].pc = "fulfilled" => \A o \in KeysOf(c) : o.kind = calls[c].kind
      BY <2>3 DEF ProviderInv, KindsOK
    <3>2. calls[c].pc = "fulfilled" /\ calls[c].read => Rotates(calls[c])
      BY DEF Rotates, Replaced
    <3>3. Holds(calls[c].h) => Obj(calls[c].h) \in objects /\ Obj(calls[c].h).h = calls[c].h
      BY HeldObject
    <3> QED  BY <3>1, <3>2, <3>3 DEF ProviderInv, ReplacedOK
  <2>5. ASSUME NEW o \in objects, o.h \in KeyHandles(c)
        PROVE  o \in KeysOf(c)
    <3>1. o.h[1] = c /\ o.h \notin SecretHandles(c) /\ c # NoId
      BY <2>5, ProviderAssumption DEF KeyHandles, SecretHandles, NoId
    <3> QED  BY <3>1 DEF KeysOf, ProviderInv, ObjectOK, HasId
  <2>6. calls[c].pc = "fulfilled" /\ ~DeactivateDestroys => KeysOf(c) # {}
    BY <2>5 DEF ProviderInv, RotationsOK, Replaced
  <2> QED  BY <2>1, <2>2, <2>4, <2>6
<1> QED  BY <1>1, ProviderInvAtFirst, ProviderInvNext, PTL DEF Spec

(***************************************************************************)
(* A reference returned by a generation or a rotation means one key for    *)
(* good, for any number of calls, keys and names; getKey's two halves are  *)
(* of one key, unless the first was read as zeroed bytes, and what is      *)
(* signed is what local verification expects.                              *)
(***************************************************************************)
THEOREM OneKeyPerReference == Spec => []ReferenceMeansOneKey
<1>1. ProviderInv => ReferenceMeansOneKey
  <2> SUFFICES ASSUME ProviderInv, NEW c \in Calls
               PROVE  /\ \A r \in returned : calls[c].asked = r.uri =>
                           /\ calls[c].found \in {"none", r.owner}
                           /\ calls[c].read => calls[c].key \in {"none", r.owner}
                      /\ calls[c].read /\ calls[c].uri.id # NoId /\ "none" \notin {calls[c].key, calls[c].found} =>
                           calls[c].key = calls[c].found
                      /\ calls[c].pc = "fulfilled" /\ calls[c].op \in DOMAIN Expects =>
                           calls[c].form = Expects[calls[c].op]
    BY DEF ReferenceMeansOneKey
  <2>1. ReferenceOK(calls[c]) /\ OutcomeOK(calls[c])
    BY DEF ProviderInv, CallOK
  <2>2. ASSUME NEW r \in returned, calls[c].asked = r.uri
        PROVE  /\ calls[c].found \in {"none", r.owner}
               /\ calls[c].read => calls[c].key \in {"none", r.owner}
    <3>1. r.uri.id = r.owner /\ r.owner \in Calls /\ r.owner # NoId
      BY <2>2, ProviderAssumption DEF ProviderInv, ReturnedOK, NoId
    <3>2. calls[c].asked.id = r.owner /\ (calls[c].read => calls[c].uri.id = r.owner)
      BY <2>1, <2>2, <3>1 DEF ReferenceOK
    <3> QED  BY <2>1, <3>1, <3>2 DEF ReferenceOK, Owns
  <2>3. calls[c].read /\ calls[c].uri.id # NoId /\ "none" \notin {calls[c].key, calls[c].found} =>
          calls[c].key = calls[c].found
    BY <2>1, OwnsIsUnique DEF ReferenceOK
  <2> QED  BY <2>1, <2>2, <2>3 DEF OutcomeOK, SignOps
<1> QED  BY <1>1, ProviderInvAtFirst, ProviderInvNext, PTL DEF Spec
=============================================================================
