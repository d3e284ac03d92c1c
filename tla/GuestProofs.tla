----------------------------- MODULE GuestProofs -----------------------------
(***************************************************************************)
(* Proofs about Guest for any manifests, file contents, deployments,       *)
(* instances and adapters: only verified code runs, only qualified         *)
(* adapters are routed to, and close() reaches every adapter; and about    *)
(* the native operations for any lengths, texts and limits: what one       *)
(* accepts the next does not refuse.                                       *)
(***************************************************************************)
EXTENDS Guest, SequenceTheorems, FiniteSetTheorems, WellFoundedInduction, TLAPS

-----------------------------------------------------------------------------
(* The bundle.                                                             *)

\* The verifier has compared a prefix of the descriptors, and has the rest
\* before it.
VerifierOK ==
  LET D == Descriptors(trusted)
      k == Len(verifier.verified)
  IN  /\ DOMAIN verifier = {"pc", "left", "verified"}
      /\ verifier.pc \in {"pending", "reading", "verified", "failed"}
      /\ verifier.pc = "reading" =>
           /\ verifier.left \in Seq(Artifacts) /\ verifier.left # <<>>
           /\ verifier.verified \in Seq(Contents)
           /\ k + Len(verifier.left) = Len(D)
           /\ \A n \in 1 .. Len(verifier.left) : verifier.left[n] = D[k + n]
           /\ \A n \in 1 .. k : verifier.verified[n] = D[n].sha256

\* A verified bundle has the bytes the trusted manifest has the digests of.
BundleOK ==
  IF Verified
  THEN /\ bundle.glue = trusted.glue.sha256
       /\ bundle.cores = [n \in 1 .. Len(trusted.cores) |-> trusted.cores[n].sha256]
  ELSE bundle.glue = Missing

\* Both caches are filled from a verified bundle only.
CachesOK ==
  /\ glueCache \in {Missing, Pending, Failed, trusted.glue.sha256}
  /\ \A n \in DOMAIN moduleCache : moduleCache[n] = trusted.cores[n].sha256

\* An instance that waits for the import of the glue waits for one that was
\* started from a verified bundle.
InstancesOK ==
  /\ DOMAIN instance = Instances
  /\ \A i \in Instances : DOMAIN instance[i] = {"pc", "glue", "cores"}
  /\ \A i \in Instances : instance[i].pc = "importing" =>
       Verified /\ glueCache \in {Pending, Failed, trusted.glue.sha256}

BundleInv ==
  /\ trusted \in Manifests
  /\ VerifierOK /\ BundleOK /\ CachesOK /\ InstancesOK
  /\ ExecutesOnlyVerified

(* The descriptors of a manifest are its source, its glue and its modules. *)
LEMMA DescriptorsOf ==
  ASSUME NEW m \in Manifests
  PROVE  /\ m.cores \in Seq(Artifacts) /\ Len(m.cores) \in Nat
         /\ Descriptors(m) \in Seq(Artifacts)
         /\ Len(Descriptors(m)) = Len(m.cores) + 2
         /\ Descriptors(m)[2] = m.glue
         /\ \A n \in 1 .. Len(m.cores) : Descriptors(m)[n + 2] = m.cores[n]
<1>1. m.cores \in Seq(Artifacts) /\ <<m.source, m.glue>> \in Seq(Artifacts)
  BY BundleAssumption
<1>2. Len(m.cores) \in Nat /\ Len(<<m.source, m.glue>>) = 2
  BY <1>1, LenProperties
<1> QED  BY <1>1, <1>2, ConcatProperties DEF Descriptors

(* It holds at first.                                                      *)
LEMMA BundleInvInit == BundleInit => BundleInv
BY DEF BundleInit, BundleInv, VerifierOK, BundleOK, CachesOK, InstancesOK,
       ExecutesOnlyVerified, Verified, NoBundle, NoInstance

(* Reading the manifest starts the comparison at its first descriptor.     *)
LEMMA ReadManifestStep ==
  ASSUME BundleInv, ReadManifest
  PROVE  BundleInv'
<1>1. trusted' = trusted /\ bundle' = bundle /\ glueCache' = glueCache
      /\ moduleCache' = moduleCache /\ instance' = instance
  BY DEF ReadManifest
<1>2. /\ verifier.pc = "pending"
      /\ \/ verifier' = [pc |-> "reading", left |-> Descriptors(trusted), verified |-> <<>>]
         \/ verifier' = [verifier EXCEPT !.pc = "failed"]
  BY DEF ReadManifest
<1>3. ~Verified /\ ~Verified'
  BY <1>2 DEF Verified, BundleInv, VerifierOK
<1>4. VerifierOK'
  <2>1. CASE verifier' = [pc |-> "reading", left |-> Descriptors(trusted), verified |-> <<>>]
    <3>1. /\ Descriptors(trusted) \in Seq(Artifacts) /\ Len(Descriptors(trusted)) \in Nat \ {0}
          /\ <<>> \in Seq(Contents) /\ Len(<<>>) = 0
      BY DescriptorsOf, EmptySeq DEF BundleInv
    <3>2. Descriptors(trusted) # <<>>
      BY <3>1, EmptySeq
    <3> QED  BY <1>1, <2>1, <3>1, <3>2 DEF VerifierOK
  <2>2. CASE verifier' = [verifier EXCEPT !.pc = "failed"]
    BY <2>2 DEF BundleInv, VerifierOK
  <2> QED  BY <1>2, <2>1, <2>2
<1> QED
  BY <1>1, <1>3, <1>4 DEF BundleInv, BundleOK, CachesOK, InstancesOK, ExecutesOnlyVerified

(* Reading an artifact adds its digest to those compared; the bundle comes *)
(* to hold what was compared with the manifest.                            *)
LEMMA ReadArtifactStep ==
  ASSUME BundleInv, ReadArtifact
  PROVE  BundleInv'
<1> DEFINE D == Descriptors(trusted)
           k == Len(verifier.verified)
           d == Head(verifier.left)
           rest == Tail(verifier.left)
           bytes == disk[d.path]
           all == Append(verifier.verified, bytes)
<1>1. trusted' = trusted /\ glueCache' = glueCache
      /\ moduleCache' = moduleCache /\ instance' = instance
  BY DEF ReadArtifact
<1>2. verifier.pc = "reading" /\ ~Verified
  BY DEF ReadArtifact, Verified
<1>3. /\ verifier.left \in Seq(Artifacts) /\ verifier.left # <<>>
      /\ verifier.verified \in Seq(Contents) /\ k \in Nat
      /\ k + Len(verifier.left) = Len(D)
      /\ \A n \in 1 .. Len(verifier.left) : verifier.left[n] = D[k + n]
      /\ \A n \in 1 .. k : verifier.verified[n] = D[n].sha256
  BY <1>2, LenProperties DEF BundleInv, VerifierOK
<1>4. /\ d = D[k + 1] /\ Len(verifier.left) \in Nat \ {0} /\ d \in Artifacts
      /\ rest \in Seq(Artifacts) /\ Len(rest) = Len(verifier.left) - 1
      /\ \A n \in 1 .. Len(rest) : rest[n] = verifier.left[n + 1]
  <2>1. Len(verifier.left) \in Nat \ {0}
    BY <1>3, EmptySeq
  <2>2. d = verifier.left[1]
    BY <1>3, <2>1
  <2>3. /\ d \in Artifacts
        /\ rest \in Seq(Artifacts) /\ Len(rest) = Len(verifier.left) - 1
        /\ \A n \in 1 .. Len(rest) : rest[n] = verifier.left[n + 1]
    BY <1>3, HeadTailProperties
  <2>4. d = D[k + 1]
    <3> HIDE DEF D, k, d
    <3> QED  BY <1>3, <2>1, <2>2
  <2> QED  BY <2>1, <2>3, <2>4
<1>5. CASE bytes # d.sha256
  <2>1. verifier' = [verifier EXCEPT !.pc = "failed"] /\ bundle' = bundle
    BY <1>5 DEF ReadArtifact
  <2>2. VerifierOK' /\ ~Verified'
    BY <2>1 DEF BundleInv, VerifierOK, Verified
  <2> QED
    BY <1>1, <1>2, <2>1, <2>2 DEF BundleInv, BundleOK, CachesOK, InstancesOK, ExecutesOnlyVerified
<1>6. CASE bytes = d.sha256
  <2>1. /\ verifier' = [pc |-> IF rest = <<>> THEN "verified" ELSE "reading",
                        left |-> rest, verified |-> all]
        /\ bundle' = IF rest # <<>> THEN bundle
                     ELSE [source |-> all[1], glue |-> all[2],
                           cores |-> [n \in 1 .. Len(trusted.cores) |-> all[n + 2]]]
    BY <1>6 DEF ReadArtifact
  <2>2. /\ all \in Seq(Contents) /\ Len(all) = k + 1
        /\ \A n \in 1 .. k : all[n] = verifier.verified[n]
        /\ all[k + 1] = bytes
    BY <1>3, <1>4, <1>6, AppendProperties DEF Artifacts
  <2>3. \A n \in 1 .. (k + 1) : all[n] = D[n].sha256
    <3> HIDE DEF D, k, d, bytes, all
    <3>1. \A n \in 1 .. (k + 1) : n \in 1 .. k \/ n = k + 1
      BY <1>3
    <3> QED  BY <1>3, <1>4, <1>6, <2>2, <3>1
  <2>4. (k + 1) + Len(rest) = Len(D) /\ \A n \in 1 .. Len(rest) : rest[n] = D[(k + 1) + n]
    <3> HIDE DEF D, k, d, rest
    <3>1. Len(verifier.left) \in Nat /\ Len(rest) = Len(verifier.left) - 1
      BY <1>4
    <3>2. (k + 1) + Len(rest) = Len(D)
      <4>1. k \in Nat /\ k + Len(verifier.left) = Len(D)
        BY <1>3
      <4>2. \A a, b \in Nat : (a + 1) + (b - 1) = a + b
        OBVIOUS
      <4> QED  BY <3>1, <4>1, <4>2
    <3>3. ASSUME NEW n \in 1 .. Len(rest) PROVE rest[n] = D[(k + 1) + n]
      <4>1. n + 1 \in 1 .. Len(verifier.left) /\ k + (n + 1) = (k + 1) + n
        BY <1>3, <3>1
      <4> QED  BY <1>3, <1>4, <4>1
    <3> QED  BY <3>2, <3>3
  <2>5. VerifierOK'
    BY <1>1, <1>4, <2>1, <2>2, <2>3, <2>4 DEF VerifierOK
  <2>6. BundleOK'
    <3>1. CASE rest = <<>>
      <4>1. Len(rest) = 0
        BY <3>1, EmptySeq
      <4>2. k + 1 = Len(trusted.cores) + 2 /\ Len(trusted.cores) \in Nat
        <5>1. Len(D) = Len(trusted.cores) + 2 /\ Len(trusted.cores) \in Nat
          BY DescriptorsOf DEF BundleInv
        <5> HIDE DEF D, k, rest
        <5> QED  BY <1>3, <2>4, <4>1, <5>1
      <4>3. /\ D[2] = trusted.glue
            /\ \A n \in 1 .. Len(trusted.cores) : D[n + 2] = trusted.cores[n]
        BY DescriptorsOf DEF BundleInv
      <4>4. /\ all[2] = trusted.glue.sha256
            /\ \A n \in 1 .. Len(trusted.cores) : all[n + 2] = trusted.cores[n].sha256
        <5> HIDE DEF D, k, all
        <5>1. 2 \in 1 .. (k + 1) /\ \A n \in 1 .. Len(trusted.cores) : n + 2 \in 1 .. (k + 1)
          BY <1>3, <4>2
        <5> QED  BY <2>3, <4>3, <5>1
      <4> HIDE DEF all, rest
      <4> QED  BY <1>1, <2>1, <3>1, <4>4 DEF BundleOK, Verified
    <3>2. CASE rest # <<>>
      BY <1>1, <1>2, <2>1, <3>2 DEF BundleInv, BundleOK, Verified
    <3> QED  BY <3>1, <3>2
  <2> QED
    BY <1>1, <1>2, <2>5, <2>6 DEF BundleInv, CachesOK, InstancesOK, ExecutesOnlyVerified
<1> QED  BY <1>5, <1>6

(* An instance gets the verified glue, and each core module from the       *)
(* verified bytes or from a cache that was filled from them.               *)
LEMMA InstantiateStep ==
  ASSUME BundleInv, NEW i \in Instances, Instantiate(i)
  PROVE  BundleInv'
<1>1. /\ trusted' = trusted /\ verifier' = verifier /\ bundle' = bundle
      /\ glueCache' = glueCache
      /\ instance[i].pc = "importing" /\ glueCache # Pending
  BY DEF Instantiate
<1>2. Verified /\ glueCache \in {Failed, trusted.glue.sha256}
  BY <1>1 DEF BundleInv, InstancesOK
<1>3. Verified' /\ VerifierOK' /\ BundleOK'
  BY <1>1, <1>2 DEF BundleInv, VerifierOK, BundleOK, Verified
<1>4. CASE instance' = [instance EXCEPT ![i] = NoInstance] /\ moduleCache' = moduleCache
  BY <1>1, <1>3, <1>4, <1>2 DEF BundleInv, CachesOK, InstancesOK, ExecutesOnlyVerified, NoInstance
<1>5. CASE /\ glueCache # Failed /\ ~(Requests[glueCache] > Len(bundle.cores))
           /\ moduleCache' = CoreModules(glueCache)
           /\ \E next \in {NoInstance, [pc |-> "checking", glue |-> glueCache,
                                        cores |-> CoreModules(glueCache)]} :
                instance' = [instance EXCEPT ![i] = next]
  <2>1. glueCache = trusted.glue.sha256
    BY <1>2, <1>5
  <2>2. /\ bundle.cores = [n \in 1 .. Len(trusted.cores) |-> trusted.cores[n].sha256]
        /\ Len(trusted.cores) \in Nat
    BY <1>2, DescriptorsOf DEF BundleInv, BundleOK
  <2>3. Len(bundle.cores) = Len(trusted.cores)
    BY <2>2
  <2>4. Requests[glueCache] \in Nat
    BY <2>1, BundleAssumption DEF BundleInv, Artifacts
  <2>5. Requests[glueCache] <= Len(trusted.cores)
    BY <1>5, <2>2, <2>3, <2>4
  <2>6. \A n \in DOMAIN CoreModules(glueCache) :
          CoreModules(glueCache)[n] = trusted.cores[n].sha256
    BY <2>2, <2>4, <2>5 DEF CoreModules, BundleInv, CachesOK
  <2>7. CachesOK'
    BY <1>1, <1>5, <2>6 DEF BundleInv, CachesOK
  <2>8. PICK next \in {NoInstance, [pc |-> "checking", glue |-> glueCache,
                                    cores |-> CoreModules(glueCache)]} :
          instance' = [instance EXCEPT ![i] = next]
    BY <1>5
  <2>9. InstancesOK'
    BY <1>1, <1>3, <2>8 DEF BundleInv, InstancesOK, NoInstance
  <2>10. ExecutesOnlyVerified'
    BY <1>1, <2>1, <2>6, <2>8 DEF BundleInv, InstancesOK, ExecutesOnlyVerified, NoInstance
  <2> QED  BY <1>1, <1>3, <2>7, <2>9, <2>10 DEF BundleInv
<1> QED
  <2>1. CASE glueCache = Failed \/ Requests[glueCache] > Len(bundle.cores)
    BY <1>4, <2>1 DEF Instantiate
  <2>2. CASE ~(glueCache = Failed \/ Requests[glueCache] > Len(bundle.cores))
    BY <1>5, <2>2 DEF Instantiate
  <2> QED  BY <2>1, <2>2

(* The other steps of the bundle.                                          *)
LEMMA BundleStep ==
  ASSUME BundleInv, BundleNext
  PROVE  BundleInv'
<1>1. CASE Deploy
  BY <1>1 DEF Deploy, BundleInv, VerifierOK, BundleOK, CachesOK, InstancesOK,
              ExecutesOnlyVerified, Verified
<1>2. CASE ReadManifest
  BY <1>2, ReadManifestStep
<1>3. CASE ReadArtifact
  BY <1>3, ReadArtifactStep
<1>4. CASE ImportGlue
  <2>1. /\ trusted' = trusted /\ verifier' = verifier /\ bundle' = bundle
        /\ moduleCache' = moduleCache /\ instance' = instance
        /\ glueCache' \in {bundle.glue, Failed}
    BY <1>4 DEF ImportGlue
  <2>2. Verified' = Verified /\ VerifierOK' /\ BundleOK' /\ ExecutesOnlyVerified'
    BY <2>1 DEF BundleInv, VerifierOK, BundleOK, ExecutesOnlyVerified, Verified
  <2>3. CachesOK'
    BY <2>1 DEF BundleInv, BundleOK, CachesOK
  <2>4. InstancesOK'
    BY <2>1, <2>2 DEF BundleInv, BundleOK, InstancesOK
  <2> QED  BY <2>1, <2>2, <2>3, <2>4 DEF BundleInv
<1>5. ASSUME NEW i \in Instances, Create(i) PROVE BundleInv'
  <2>1. /\ trusted' = trusted /\ verifier' = verifier /\ bundle' = bundle
        /\ moduleCache' = moduleCache /\ instance' = [instance EXCEPT ![i].pc = "importing"]
        /\ glueCache' = IF glueCache = Missing THEN Pending ELSE glueCache
        /\ Verified
    BY <1>5 DEF Create
  <2>2. Verified' /\ VerifierOK' /\ BundleOK'
    BY <2>1 DEF BundleInv, VerifierOK, BundleOK, Verified
  <2>3. CachesOK'
    BY <2>1 DEF BundleInv, CachesOK
  <2>4. InstancesOK'
    BY <2>1, <2>2, <2>3 DEF BundleInv, InstancesOK, CachesOK
  <2>5. ExecutesOnlyVerified'
    BY <2>1 DEF BundleInv, InstancesOK, ExecutesOnlyVerified
  <2> QED  BY <2>1, <2>2, <2>3, <2>4, <2>5 DEF BundleInv
<1>6. ASSUME NEW i \in Instances, Instantiate(i) PROVE BundleInv'
  BY <1>6, InstantiateStep
<1>7. ASSUME NEW i \in Instances, CheckInstance(i) \/ CloseInstance(i) PROVE BundleInv'
  <2>1. /\ trusted' = trusted /\ verifier' = verifier /\ bundle' = bundle
        /\ moduleCache' = moduleCache /\ glueCache' = glueCache
        /\ instance[i].pc \in {"checking", "ready"}
        /\ \E pc \in {"ready", "closed"} : instance' = [instance EXCEPT ![i].pc = pc]
    BY <1>7 DEF CheckInstance, CloseInstance
  <2>2. Verified' = Verified /\ VerifierOK' /\ BundleOK' /\ CachesOK'
    BY <2>1 DEF BundleInv, VerifierOK, BundleOK, CachesOK, Verified
  <2>3. InstancesOK'
    BY <2>1, <2>2 DEF BundleInv, InstancesOK
  <2>4. ExecutesOnlyVerified'
    BY <2>1 DEF BundleInv, InstancesOK, ExecutesOnlyVerified
  <2> QED  BY <2>1, <2>2, <2>3, <2>4 DEF BundleInv
<1> QED  BY <1>1, <1>2, <1>3, <1>4, <1>5, <1>6, <1>7 DEF BundleNext

-----------------------------------------------------------------------------
(* The adapters.                                                           *)

Originals == {"native", "written"}

\* What an application wrote, and the objects made here.
Arrays  == Literals \cup {PortableOps, {}}
Objects == [made : Kinds \cup {"not"}, name : Names \cup {0}, origin : Adapters \cup {NoAdapter},
            operations : Arrays, parityQualified : BOOLEAN, faithful : Functions \cup {{}}]

\* A copy goes back to an object that is no copy.
Sound(a, o) ==
  /\ o \in Objects /\ o.made \in Kinds /\ o.name \in Names /\ o.origin \in Adapters
  /\ \/ o.made \in Originals /\ o.origin = a
     \/ o.made = "copy" /\ object[o.origin].made \in Originals /\ o.origin # a

ObjectsOK ==
  /\ object \in [Adapters -> Objects]
  /\ \A a \in Adapters : Made(a) => Sound(a, object[a])

\* A run whose adapter was not tampered with has covered operations that the
\* adapter does reproduce.
RunsOK ==
  /\ qualifying \in [Adapters -> [of : Adapters \cup {NoAdapter}, covered : SUBSET PortableOps, failed : BOOLEAN]]
  /\ \A b \in Adapters : qualifying[b] # NoRun =>
       /\ qualifying[b].of \in Adapters /\ Made(qualifying[b].of) /\ ~Made(b)
       /\ b \notin vouched => qualifying[b].covered \subseteq Reproduces(qualifying[b].of)

\* An adapter in the ledger for which nobody but the vectors vouches agrees
\* with the portable core on every operation it claims.
LedgerOK ==
  \A a \in ledger :
    /\ a \in Adapters /\ Made(a)
    /\ a \notin vouched => object[a].made = "copy" /\ Claims(a) \subseteq Reproduces(a)

\* An adapter is registered under its own name.
RegistryOK ==
  /\ registry \in [Names -> Adapters \cup {NoAdapter}]
  /\ \A n \in Names : registry[n] # NoAdapter =>
       registry[n] \in Adapters /\ Made(registry[n]) /\ object[registry[n]].name = n

RoutedOK ==
  \A r \in routed :
    /\ r[1] \in ledger /\ r[2] \in Claims(r[1])
    /\ object[r[1]].name \in Allowlist[r[2]]

\* close() owes the adapters it has released and those still before it.
CloseOK ==
  /\ closing \in {"open", "closing", "closed"}
  /\ closing = "open" => released = {}
  /\ closing = "closing" => /\ left \subseteq Names
                            /\ owed = released \cup {registry[n] : n \in left}
  /\ closing = "closed" => owed = released /\ Registered = {}

ObjectInv  == ObjectsOK /\ RunsOK /\ LedgerOK
AdapterInv == ObjectInv /\ RegistryOK /\ RoutedOK /\ CloseOK

(* It holds at first.                                                      *)
LEMMA AdapterInvInit == AdapterInit => AdapterInv
<1> SUFFICES ASSUME AdapterInit PROVE AdapterInv
  OBVIOUS
<1>1. NoObject \in Objects /\ NoRun \in [of : Adapters \cup {NoAdapter}, covered : SUBSET PortableOps, failed : BOOLEAN]
  BY DEF NoObject, NoRun, Objects, Arrays
<1>2. object = [a \in Adapters |-> NoObject] /\ qualifying = [a \in Adapters |-> NoRun]
  BY DEF AdapterInit
<1>3. ObjectsOK
  BY <1>1, <1>2 DEF ObjectsOK, Made
<1>4. RunsOK
  BY <1>1, <1>2 DEF RunsOK
<1> QED
  BY <1>3, <1>4 DEF AdapterInit, AdapterInv, ObjectInv, LedgerOK, RegistryOK, RoutedOK, CloseOK

(* Making an object leaves the others and what they stand for as they      *)
(* were.                                                                   *)
LEMMA MakeStep ==
  ASSUME ObjectsOK, RegistryOK, NEW a \in Adapters, ~Made(a), NEW o, Sound(a, o),
         object' = [object EXCEPT ![a] = o], registry' = registry
  PROVE  /\ ObjectsOK' /\ RegistryOK' /\ Made(a)'
         /\ \A b \in Adapters : Made(b) => /\ b # a /\ Made(b)' /\ object'[b] = object[b]
                                           /\ Claims(b)' = Claims(b) /\ Reproduces(b)' = Reproduces(b)
<1>1. object'[a] = o /\ \A b \in Adapters \ {a} : object'[b] = object[b]
  BY DEF ObjectsOK
<1>2. object[a].made \notin Kinds
  BY DEF Made, NoObject, Kinds
<1>3. object' \in [Adapters -> Objects]
  BY DEF ObjectsOK, Sound
<1>4. ASSUME NEW b \in Adapters, Made(b)
      PROVE  b # a /\ object[b].origin \in Adapters \ {a} /\ Sound(b, object[b])' /\ Made(b)' /\ object'[b] = object[b]
  <2>1. b # a /\ object'[b] = object[b]
    BY <1>1, <1>4
  <2>2. Sound(b, object[b])
    BY <1>4 DEF ObjectsOK
  <2>3. object[b].origin \in Adapters \ {a}
    BY <1>2, <2>1, <2>2 DEF Sound, Originals, Kinds
  <2> QED  BY <1>1, <1>4, <2>1, <2>2, <2>3 DEF Sound, Made
<1>5. Sound(a, o)'
  <2>1. CASE o.made \in Originals /\ o.origin = a
    BY <2>1 DEF Sound
  <2>2. CASE o.made = "copy" /\ object[o.origin].made \in Originals /\ o.origin # a
    BY <1>1, <2>2 DEF Sound
  <2> QED  BY <2>1, <2>2 DEF Sound
<1>6. \A b \in Adapters : Made(b)' => Sound(b, object[b])'
  <2> SUFFICES ASSUME NEW b \in Adapters, Made(b)' PROVE Sound(b, object[b])'
    OBVIOUS
  <2>1. CASE b = a
    BY <1>1, <1>5, <2>1 DEF Sound
  <2>2. CASE b # a
    BY <1>1, <1>4, <2>2 DEF Made
  <2> QED  BY <2>1, <2>2
<1>7. ObjectsOK'
  BY <1>3, <1>6 DEF ObjectsOK
<1>8. Made(a)'
  BY <1>1 DEF Made, Sound, NoObject, Kinds
<1>9. \A b \in Adapters : Made(b) => Claims(b)' = Claims(b) /\ Reproduces(b)' = Reproduces(b)
  BY <1>1, <1>4 DEF Claims, Reproduces
<1>10. RegistryOK'
  BY <1>4 DEF RegistryOK
<1> QED  BY <1>4, <1>7, <1>8, <1>9, <1>10

(* Changing an object leaves alone what goes back to another one.          *)
LEMMA ChangeStep ==
  ASSUME ObjectsOK, RegistryOK, NEW a \in Adapters, Made(a), NEW o \in Objects,
         o.made = object[a].made, o.name = object[a].name, o.origin = object[a].origin,
         object' = [object EXCEPT ![a] = o], registry' = registry
  PROVE  /\ ObjectsOK' /\ RegistryOK'
         /\ \A b \in Adapters : /\ Made(b) <=> Made(b)'
                                /\ object'[b].made = object[b].made /\ object'[b].origin = object[b].origin
         /\ \A b \in Adapters : Made(b) /\ object[b].origin # a =>
                                  Claims(b)' = Claims(b) /\ Reproduces(b)' = Reproduces(b)
<1>1. object'[a] = o /\ \A b \in Adapters \ {a} : object'[b] = object[b]
  BY DEF ObjectsOK
<1>2. Sound(a, object[a]) /\ o.made # "not"
  BY DEF ObjectsOK, Sound, Kinds
<1>3. \A b \in Adapters : /\ Made(b) <=> Made(b)'
                          /\ object'[b].made = object[b].made /\ object'[b].origin = object[b].origin
                          /\ object'[b].name = object[b].name
  BY <1>1, <1>2 DEF Made, NoObject
<1>4. object' \in [Adapters -> Objects]
  BY DEF ObjectsOK
<1>5. ASSUME NEW b \in Adapters, Made(b)' PROVE Sound(b, object[b])'
  <2>1. Sound(b, object[b])
    BY <1>3, <1>5 DEF ObjectsOK
  <2>2. object[b].origin \in Adapters /\ object'[b] \in Objects
    BY <1>4, <2>1 DEF Sound
  <2> QED  BY <1>3, <2>1, <2>2 DEF Sound
<1>6. ObjectsOK'
  BY <1>4, <1>5 DEF ObjectsOK
<1>7. \A b \in Adapters : Made(b) /\ object[b].origin # a =>
        Claims(b)' = Claims(b) /\ Reproduces(b)' = Reproduces(b)
  <2> SUFFICES ASSUME NEW b \in Adapters, Made(b), object[b].origin # a
               PROVE  Claims(b)' = Claims(b) /\ Reproduces(b)' = Reproduces(b)
    OBVIOUS
  <2>1. object[b].origin \in Adapters \ {a}
    BY DEF ObjectsOK, Sound
  <2> QED  BY <1>1, <1>3, <2>1 DEF Claims, Reproduces
<1>8. RegistryOK'
  BY <1>3 DEF RegistryOK
<1> QED  BY <1>3, <1>6, <1>7, <1>8

(* Steps that make or change the objects, or qualify them.                 *)
LEMMA ObjectStep ==
  ASSUME ObjectInv, RegistryOK, NEW a \in Adapters,
         \/ CreateNative(a) \/ Declare(a) \/ ChangeOperations(a) \/ ChangeInvoke(a) \/ ChangeFlag(a)
         \/ RunVector(a) \/ EndQualify(a) \/ Record(a)
         \/ \E b \in Adapters : BeginQualify(a, b)
  PROVE  ObjectInv' /\ RegistryOK' /\ UNCHANGED registryVars
<1> USE DEF ObjectInv
<1>1. CASE CreateNative(a) \/ Declare(a)
  <2>1. PICK o : /\ object' = [object EXCEPT ![a] = o] /\ o \in Objects
                 /\ o.made \in Originals /\ o.origin = a /\ o.name \in Names
    <3>1. ASSUME NEW made \in Originals, NEW n \in Names, NEW ops \in Arrays, NEW q \in BOOLEAN, NEW f \in Functions
          PROVE  /\ Original(a, made, n, ops, q, f) \in Objects
                 /\ Original(a, made, n, ops, q, f).made \in Originals
                 /\ Original(a, made, n, ops, q, f).origin = a /\ Original(a, made, n, ops, q, f).name \in Names
      BY DEF Original, Originals, Objects, Kinds
    <3> HIDE DEF Original
    <3>2. CASE CreateNative(a)
      <4>1. PICK n \in Names, f \in Functions :
              object' = [object EXCEPT ![a] = Original(a, "native", n, PortableOps, FALSE, f)]
        BY <3>2 DEF CreateNative
      <4>2. PortableOps \in Arrays /\ "native" \in Originals
        BY DEF Arrays, Originals
      <4> QED  BY <3>1, <4>1, <4>2
    <3>3. CASE Declare(a)
      <4>1. PICK n \in Names, ops \in Literals, q \in BOOLEAN, f \in Functions :
              object' = [object EXCEPT ![a] = Original(a, "written", n, ops, q, f)]
        BY <3>3 DEF Declare
      <4>2. ops \in Arrays /\ "written" \in Originals
        BY DEF Arrays, Originals
      <4> QED  BY <3>1, <4>1, <4>2
    <3> QED  BY <1>1, <3>2, <3>3
  <2>2. ~Made(a) /\ qualifying[a] = NoRun
        /\ UNCHANGED <<qualifying, ledger, vouched, registryVars>> /\ registry' = registry
    BY <1>1 DEF CreateNative, Declare, Free, registryVars
  <2>3. Sound(a, o)
    BY <2>1 DEF Sound, Originals, Kinds
  <2>4. /\ ObjectsOK' /\ RegistryOK'
        /\ \A b \in Adapters : Made(b) => /\ b # a /\ Made(b)' /\ object'[b] = object[b]
                                          /\ Claims(b)' = Claims(b) /\ Reproduces(b)' = Reproduces(b)
    BY <2>1, <2>2, <2>3, MakeStep
  <2>5. LedgerOK'
    BY <2>2, <2>4 DEF LedgerOK
  <2>6. \A b \in Adapters \ {a} : ~Made(b) => ~Made(b)'
    BY <2>1 DEF Made, ObjectsOK
  <2>7. RunsOK'
    BY <2>2, <2>4, <2>6 DEF RunsOK
  <2> QED  BY <2>2, <2>4, <2>5, <2>7
<1>2. CASE ChangeOperations(a) \/ ChangeInvoke(a) \/ ChangeFlag(a)
  <2>1. Made(a) /\ object[a] \in Objects /\ object[a].made = "written"
    BY <1>2 DEF ChangeOperations, ChangeInvoke, ChangeFlag, Made, NoObject, ObjectsOK
  <2>2. PICK o \in Objects :
          /\ o.made = object[a].made /\ o.name = object[a].name /\ o.origin = object[a].origin
          /\ object' = [object EXCEPT ![a] = o]
          /\ ChangeInvoke(a) \/ o.faithful = object[a].faithful
          /\ ChangeOperations(a) \/ o.operations = object[a].operations
    <3>1. CASE ChangeOperations(a)
      <4>1. PICK ops \in Literals : object' = [object EXCEPT ![a].operations = ops]
        BY <3>1 DEF ChangeOperations
      <4>2. object' = [object EXCEPT ![a] = [object[a] EXCEPT !.operations = ops]]
        BY <4>1
      <4>3. [object[a] EXCEPT !.operations = ops] \in Objects
        BY <2>1 DEF Objects, Arrays
      <4> QED  BY <2>1, <3>1, <4>2, <4>3 DEF Objects
    <3>2. CASE ChangeInvoke(a)
      <4>1. PICK f \in Functions : object' = [object EXCEPT ![a].faithful = f]
        BY <3>2 DEF ChangeInvoke
      <4>2. object' = [object EXCEPT ![a] = [object[a] EXCEPT !.faithful = f]]
        BY <4>1
      <4>3. [object[a] EXCEPT !.faithful = f] \in Objects
        BY <2>1 DEF Objects
      <4> QED  BY <2>1, <3>2, <4>2, <4>3 DEF Objects
    <3>3. CASE ChangeFlag(a)
      <4>1. object' = [object EXCEPT ![a] = [object[a] EXCEPT !.parityQualified = ~@]]
        BY <3>3 DEF ChangeFlag
      <4>2. [object[a] EXCEPT !.parityQualified = ~@] \in Objects
        BY <2>1 DEF Objects
      <4> QED  BY <2>1, <4>1, <4>2 DEF Objects
    <3> QED  BY <1>2, <3>1, <3>2, <3>3
  <2>3. /\ qualifying' = qualifying /\ ledger' = ledger /\ vouched \subseteq vouched'
        /\ UNCHANGED registryVars /\ registry' = registry
        /\ ChangeOperations(a) \/ ChangeInvoke(a) => CopiesOf(a) \subseteq vouched'
        /\ ChangeInvoke(a) => RunsOn(a) \subseteq vouched'
    BY <1>2 DEF ChangeOperations, ChangeInvoke, ChangeFlag, registryVars
  <2>4. /\ ObjectsOK' /\ RegistryOK'
        /\ \A b \in Adapters : /\ Made(b) <=> Made(b)'
                               /\ object'[b].made = object[b].made /\ object'[b].origin = object[b].origin
        /\ \A b \in Adapters : Made(b) /\ object[b].origin # a =>
                                 Claims(b)' = Claims(b) /\ Reproduces(b)' = Reproduces(b)
    BY <2>1, <2>2, <2>3, ChangeStep
  <2>5. object'[a] = o
    BY <2>2 DEF ObjectsOK
  <2>6. ASSUME NEW b \in Adapters, Made(b), object[b].origin = a
        PROVE  /\ ChangeInvoke(a) \/ Reproduces(b)' = Reproduces(b)
               /\ ChangeOperations(a) \/ Claims(b)' = Claims(b)
    BY <2>2, <2>4, <2>5, <2>6 DEF Claims, Reproduces
  <2>7. LedgerOK'
    <3> SUFFICES ASSUME NEW b \in ledger, b \notin vouched'
                 PROVE  Claims(b)' \subseteq Reproduces(b)'
      BY <2>3, <2>4 DEF LedgerOK
    <3>1. b \in Adapters /\ Made(b) /\ object[b].made = "copy" /\ Claims(b) \subseteq Reproduces(b)
      BY <2>3 DEF LedgerOK
    <3>2. object[b].origin = a => ~ChangeOperations(a) /\ ~ChangeInvoke(a)
      BY <2>3, <3>1 DEF CopiesOf
    <3> QED  BY <2>4, <2>6, <3>1, <3>2
  <2>8. RunsOK'
    <3> SUFFICES ASSUME NEW b \in Adapters, qualifying[b] # NoRun, b \notin vouched'
                 PROVE  Reproduces(qualifying[b].of)' = Reproduces(qualifying[b].of)
      BY <2>3, <2>4 DEF RunsOK
    <3>1. PICK x \in Adapters : x = qualifying[b].of /\ Made(x)
      BY DEF RunsOK
    <3>2. object[x].origin = a => ~ChangeInvoke(a)
      BY <2>3, <3>1 DEF RunsOn
    <3>3. Reproduces(x)' = Reproduces(x)
      BY <2>4, <2>6, <3>1, <3>2
    <3> QED  BY <2>3, <3>1, <3>3 DEF Reproduces
  <2> QED  BY <2>3, <2>4, <2>7, <2>8
<1>3. CASE RunVector(a)
  <2>1. PICK op \in PortableOps :
          qualifying' = [qualifying EXCEPT ![a] =
            IF op \in Reproduces(qualifying[a].of) THEN [qualifying[a] EXCEPT !.covered = @ \cup {op}]
            ELSE [qualifying[a] EXCEPT !.failed = TRUE]]
    BY <1>3 DEF RunVector
  <2>2. qualifying[a] # NoRun /\ UNCHANGED <<object, ledger, vouched, registryVars>> /\ registry' = registry
    BY <1>3 DEF RunVector, registryVars
  <2>3. ObjectsOK' /\ LedgerOK' /\ RegistryOK'
    BY <2>2 DEF ObjectsOK, LedgerOK, RegistryOK, Sound, Made, Claims, Reproduces
  <2>4. RunsOK'
    <3> DEFINE run == qualifying[a]
    <3>1. /\ run \in [of : Adapters \cup {NoAdapter}, covered : SUBSET PortableOps, failed : BOOLEAN]
          /\ run.of \in Adapters /\ Made(run.of) /\ ~Made(a)
          /\ a \notin vouched => run.covered \subseteq Reproduces(run.of)
      BY <2>2 DEF RunsOK
    <3>2. /\ qualifying'[a] \in [of : Adapters \cup {NoAdapter}, covered : SUBSET PortableOps, failed : BOOLEAN]
          /\ qualifying'[a].of = run.of
          /\ a \notin vouched => qualifying'[a].covered \subseteq Reproduces(run.of)
          /\ \A b \in Adapters \ {a} : qualifying'[b] = qualifying[b]
          /\ qualifying' \in [Adapters -> [of : Adapters \cup {NoAdapter}, covered : SUBSET PortableOps, failed : BOOLEAN]]
      <4>1. CASE op \in Reproduces(run.of)
        <5>1. qualifying' = [qualifying EXCEPT ![a] = [run EXCEPT !.covered = @ \cup {op}]]
          BY <2>1, <4>1
        <5> QED  BY <3>1, <4>1, <5>1 DEF RunsOK
      <4>2. CASE op \notin Reproduces(run.of)
        <5>1. qualifying' = [qualifying EXCEPT ![a] = [run EXCEPT !.failed = TRUE]]
          BY <2>1, <4>2
        <5> QED  BY <3>1, <4>2, <5>1 DEF RunsOK
      <4> QED  BY <4>1, <4>2
    <3>3. \A b \in Adapters : (Made(b) <=> Made(b)') /\ Reproduces(b)' = Reproduces(b)
      BY <2>2 DEF Made, Reproduces
    <3> QED  BY <2>2, <3>1, <3>2, <3>3 DEF RunsOK
  <2> QED  BY <2>2, <2>3, <2>4
<1>4. CASE EndQualify(a)
  <2> DEFINE run == qualifying[a]
             copy == [NoObject EXCEPT !.made = "copy", !.parityQualified = TRUE,
                                      !.name = object[run.of].name, !.origin = object[run.of].origin]
  <2>1. /\ run.of \in Adapters /\ Made(run.of) /\ ~Made(a)
        /\ a \notin vouched => run.covered \subseteq Reproduces(run.of)
        /\ Sound(run.of, object[run.of])
    BY <1>4 DEF EndQualify, RunsOK, ObjectsOK
  <2>2. qualifying' = [qualifying EXCEPT ![a] = NoRun] /\ UNCHANGED registryVars /\ registry' = registry
    BY <1>4 DEF EndQualify, registryVars
  <2>3. /\ qualifying' \in [Adapters -> [of : Adapters \cup {NoAdapter}, covered : SUBSET PortableOps, failed : BOOLEAN]]
        /\ qualifying'[a] = NoRun /\ \A b \in Adapters \ {a} : qualifying'[b] = qualifying[b]
    BY <2>2 DEF RunsOK, NoRun
  <2>4. CASE Passes(run)
    <3>1. object' = [object EXCEPT ![a] = copy] /\ ledger' = ledger \cup {a} /\ vouched' = vouched
      BY <1>4, <2>4 DEF EndQualify
    <3>2. object[run.of].origin \in Adapters /\ object[object[run.of].origin].made \in Originals
      BY <2>1 DEF Sound, Originals, Kinds
    <3>3. object[run.of].origin # a
      BY <2>1, <3>2 DEF Made, NoObject, Originals
    <3>4. Sound(a, copy)
      BY <2>1, <3>2, <3>3 DEF Sound, NoObject, Objects, Arrays, Kinds, Originals
    <3>5. copy.origin = object[run.of].origin /\ copy.made = "copy"
      BY DEF NoObject
    <3> HIDE DEF copy
    <3>6. /\ ObjectsOK' /\ RegistryOK' /\ Made(a)'
          /\ \A b \in Adapters : Made(b) => /\ b # a /\ Made(b)' /\ object'[b] = object[b]
                                            /\ Claims(b)' = Claims(b) /\ Reproduces(b)' = Reproduces(b)
      BY <2>1, <2>2, <3>1, <3>4, MakeStep
    <3>7. object'[a] = copy
      BY <3>1 DEF ObjectsOK
    <3>8. Claims(a)' = Claims(run.of) /\ Reproduces(a)' = Reproduces(run.of)
      <4>1. object'[copy.origin] = object[copy.origin]
        BY <3>1, <3>2, <3>3, <3>5 DEF ObjectsOK
      <4> QED  BY <3>5, <3>7, <4>1 DEF Claims, Reproduces
    <3>9. a \notin vouched => Claims(a)' \subseteq Reproduces(a)'
      BY <2>1, <2>4, <3>8 DEF Passes
    <3>10. LedgerOK'
      BY <3>1, <3>5, <3>6, <3>7, <3>9 DEF LedgerOK
    <3>11. \A b \in Adapters \ {a} : ~Made(b) => ~Made(b)'
      BY <3>1 DEF Made, ObjectsOK
    <3>12. RunsOK'
      BY <2>3, <3>1, <3>6, <3>11 DEF RunsOK
    <3> QED  BY <2>2, <3>6, <3>10, <3>12
  <2>5. CASE ~Passes(run)
    <3>1. object' = object /\ ledger' = ledger /\ vouched' = vouched \ {a}
      BY <1>4, <2>5 DEF EndQualify
    <3>2. a \notin ledger
      BY <2>1 DEF LedgerOK
    <3>3. \A b : Made(b)' = Made(b) /\ Claims(b)' = Claims(b) /\ Reproduces(b)' = Reproduces(b)
      BY <3>1 DEF Made, Claims, Reproduces
    <3>4. ObjectsOK' /\ RegistryOK'
      BY <2>2, <3>1 DEF ObjectsOK, RegistryOK, Sound, Made
    <3>5. LedgerOK'
      BY <3>1, <3>2, <3>3 DEF LedgerOK
    <3>6. RunsOK'
      BY <2>3, <3>1, <3>3 DEF RunsOK
    <3> QED  BY <2>2, <3>4, <3>5, <3>6
  <2> QED  BY <2>4, <2>5
<1>5. CASE Record(a)
  <2>1. /\ Made(a) /\ ledger' = ledger \cup {a} /\ object' = object /\ qualifying' = qualifying
        /\ vouched \subseteq vouched' /\ (a \notin ledger => a \in vouched')
        /\ UNCHANGED registryVars /\ registry' = registry
    BY <1>5 DEF Record, registryVars
  <2>2. \A b : Made(b)' = Made(b) /\ Claims(b)' = Claims(b) /\ Reproduces(b)' = Reproduces(b)
    BY <2>1 DEF Made, Claims, Reproduces
  <2>3. ObjectsOK' /\ RegistryOK'
    BY <2>1 DEF ObjectsOK, RegistryOK, Sound, Made
  <2>4. LedgerOK'
    BY <2>1, <2>2 DEF LedgerOK
  <2>5. RunsOK'
    BY <2>1, <2>2 DEF RunsOK
  <2> QED  BY <2>1, <2>3, <2>4, <2>5
<1>6. ASSUME NEW b \in Adapters, BeginQualify(a, b) PROVE ObjectInv' /\ RegistryOK' /\ UNCHANGED registryVars
  <2>1. /\ Made(a) /\ ~Made(b) /\ qualifying' = [qualifying EXCEPT ![b] = [NoRun EXCEPT !.of = a]]
        /\ UNCHANGED <<object, ledger, vouched, registryVars>> /\ registry' = registry
    BY <1>6 DEF BeginQualify, Free, registryVars
  <2>2. ObjectsOK' /\ LedgerOK' /\ RegistryOK'
    BY <2>1 DEF ObjectsOK, LedgerOK, RegistryOK, Sound, Made, Claims, Reproduces
  <2>3. /\ qualifying' \in [Adapters -> [of : Adapters \cup {NoAdapter}, covered : SUBSET PortableOps, failed : BOOLEAN]]
        /\ qualifying'[b].of = a /\ qualifying'[b].covered = {}
        /\ \A x \in Adapters \ {b} : qualifying'[x] = qualifying[x]
    BY <2>1 DEF RunsOK, NoRun
  <2>4. \A x : Made(x)' = Made(x) /\ Reproduces(x)' = Reproduces(x)
    BY <2>1 DEF Made, Reproduces
  <2>5. RunsOK'
    BY <2>1, <2>3, <2>4 DEF RunsOK
  <2> QED  BY <2>1, <2>2, <2>5
<1> QED  BY <1>1, <1>2, <1>3, <1>4, <1>5, <1>6

(* A step of the registry leaves the objects as they are.                  *)
LEMMA ObjectsRest == ObjectInv /\ UNCHANGED objectVars => ObjectInv'
BY DEF ObjectInv, objectVars, ObjectsOK, RunsOK, LedgerOK, Sound, Made, Claims, Reproduces

(* The steps of the adapters and of routing.                               *)
LEMMA AdapterStep ==
  ASSUME AdapterInv, AdapterNext \/ Route
  PROVE  AdapterInv'
<1>1. ASSUME NEW a \in Adapters, routed' = {},
             \/ CreateNative(a) \/ Declare(a) \/ ChangeOperations(a) \/ ChangeInvoke(a) \/ ChangeFlag(a)
             \/ RunVector(a) \/ EndQualify(a) \/ Record(a)
             \/ \E b \in Adapters : BeginQualify(a, b)
      PROVE  AdapterInv'
  <2>1. ObjectInv' /\ RegistryOK' /\ UNCHANGED registryVars
    BY <1>1, ObjectStep DEF AdapterInv
  <2>2. CloseOK'
    BY <2>1 DEF AdapterInv, CloseOK, Registered, registryVars
  <2> QED  BY <1>1, <2>1, <2>2 DEF AdapterInv, RoutedOK
<1>2. ASSUME NEW a \in Adapters, Register(a), routed' = {} PROVE AdapterInv'
  <2>1. /\ Made(a) /\ object[a].name \in Names
        /\ registry' = [registry EXCEPT ![object[a].name] = a]
        /\ closing = "open" /\ closing' = closing /\ released' = released /\ owed' = owed
        /\ object' = object /\ UNCHANGED objectVars
    BY <1>2 DEF Register, RegistryOpen, AdapterInv, ObjectInv, ObjectsOK, Sound, objectVars
  <2>2. RegistryOK'
    BY <2>1 DEF AdapterInv, RegistryOK, Made
  <2> QED  BY <1>2, <2>1, <2>2, ObjectsRest DEF AdapterInv, RoutedOK, CloseOK
<1>3. ASSUME NEW n \in Names, Unregister(n), routed' = {} PROVE AdapterInv'
  <2>1. /\ registry' = [registry EXCEPT ![n] = NoAdapter]
        /\ closing = "open" /\ closing' = closing /\ released' = released /\ owed' = owed
        /\ object' = object /\ UNCHANGED objectVars
    BY <1>3 DEF Unregister, RegistryOpen, objectVars
  <2>2. RegistryOK'
    BY <2>1 DEF AdapterInv, RegistryOK, Made
  <2> QED  BY <1>3, <2>1, <2>2, ObjectsRest DEF AdapterInv, RoutedOK, CloseOK
<1>4. CASE Close /\ routed' = {}
  <2>1. /\ registry' = registry /\ object' = object /\ UNCHANGED objectVars
        /\ closing = "open" /\ closing' = "closing" /\ released' = released
        /\ owed' = Registered /\ left' = {n \in Names : registry[n] # NoAdapter}
    BY <1>4 DEF Close, RegistryOpen, objectVars
  <2>2. owed' = {registry[n] : n \in left'}
    BY <2>1 DEF Registered
  <2>3. CloseOK'
    BY <2>1, <2>2 DEF AdapterInv, CloseOK
  <2> QED  BY <1>4, <2>1, <2>3, ObjectsRest DEF AdapterInv, RegistryOK, RoutedOK, Made
<1>5. CASE CloseNext /\ routed' = {}
  <2>1. /\ registry' = registry /\ object' = object /\ UNCHANGED objectVars
        /\ closing = "closing" /\ closing' = closing /\ owed' = owed
    BY <1>5 DEF CloseNext, objectVars
  <2>2. PICK n \in left : released' = released \cup {registry[n]} /\ left' = left \ {n}
    BY <1>5 DEF CloseNext, AfterFailure
  <2>3. CloseOK'
    BY <2>1, <2>2 DEF AdapterInv, CloseOK
  <2> QED  BY <1>5, <2>1, <2>3, ObjectsRest DEF AdapterInv, RegistryOK, RoutedOK, Made
<1>6. CASE CloseEnds /\ routed' = {}
  <2>1. /\ object' = object /\ UNCHANGED objectVars
        /\ closing = "closing" /\ closing' = "closed" /\ left = {} /\ owed' = owed
        /\ released' = released /\ registry' = [n \in Names |-> NoAdapter]
    BY <1>6 DEF CloseEnds, objectVars
  <2>2. Registered' = {} /\ RegistryOK'
    BY <2>1 DEF Registered, RegistryOK
  <2>3. CloseOK'
    BY <2>1, <2>2 DEF AdapterInv, CloseOK
  <2> QED  BY <1>6, <2>1, <2>2, <2>3, ObjectsRest DEF AdapterInv, RoutedOK
<1>7. CASE Route
  <2>1. PICK n \in Names, op \in PortableOps : Resolve(n, op)
    BY <1>7 DEF Route
  <2>2. /\ UNCHANGED objectVars /\ object' = object /\ ledger' = ledger
        /\ registry' = registry /\ closing' = closing
        /\ left' = left /\ released' = released /\ owed' = owed
        /\ registry[n] # NoAdapter /\ n \in Allowlist[op]
        /\ op \in Claims(registry[n]) /\ registry[n] \in ledger
        /\ routed' = {<<registry[n], op>>}
    BY <2>1 DEF Resolve, IsParityQualified, objectVars, registryVars
  <2>3. RoutedOK'
    BY <2>2 DEF AdapterInv, RegistryOK, RoutedOK, Claims
  <2>4. CloseOK'
    BY <2>2 DEF AdapterInv, CloseOK, Registered
  <2>5. RegistryOK'
    BY <2>2 DEF AdapterInv, RegistryOK, Made
  <2> QED  BY <2>2, <2>3, <2>4, <2>5, ObjectsRest DEF AdapterInv
<1> QED
  BY <1>1, <1>2, <1>3, <1>4, <1>5, <1>6, <1>7 DEF AdapterNext

-----------------------------------------------------------------------------
(* Both together.                                                          *)

\* The inductive invariant of the two targets.
GuestInv == BundleInv /\ AdapterInv

(* A step of one target leaves the other as it is.                         *)
LEMMA GuestStep == GuestInv /\ [GuestNext]_guestVars => GuestInv'
<1> SUFFICES ASSUME GuestInv, [GuestNext]_guestVars PROVE GuestInv'
  OBVIOUS
<1>1. ASSUME UNCHANGED bundleVars PROVE BundleInv'
  BY <1>1 DEF GuestInv, BundleInv, bundleVars, VerifierOK, BundleOK, CachesOK, InstancesOK,
              ExecutesOnlyVerified, Verified
<1>2. ASSUME UNCHANGED adapterVars PROVE AdapterInv'
  <2>1. UNCHANGED objectVars /\ UNCHANGED registryVars /\ routed' = routed
    BY <1>2 DEF adapterVars
  <2> QED
    BY <2>1, ObjectsRest DEF GuestInv, AdapterInv, objectVars, registryVars, RegistryOK, RoutedOK,
                             CloseOK, Registered, Made, Claims
<1>3. CASE UNCHANGED guestVars
  BY <1>1, <1>2, <1>3 DEF GuestInv, guestVars
<1>4. CASE BundleNext /\ UNCHANGED adapterVars
  BY <1>2, <1>4, BundleStep DEF GuestInv
<1>5. CASE (AdapterNext \/ Route) /\ UNCHANGED bundleVars
  BY <1>1, <1>5, AdapterStep DEF GuestInv
<1> QED  BY <1>3, <1>4, <1>5 DEF GuestNext

(* It holds in every state.                                                *)
LEMMA GuestAlways == GuestSpec => []GuestInv
<1>1. GuestInit => GuestInv
  BY BundleInvInit, AdapterInvInit DEF GuestInit, GuestInv
<1> QED  BY <1>1, GuestStep, PTL DEF GuestSpec

(* Whatever the release process puts on the disk and whenever it does so,  *)
(* for any manifests and any number of core modules and instances: no      *)
(* instance runs glue or a core module other than those whose digests are  *)
(* in the manifest the locator trusts.                                     *)
THEOREM OnlyVerifiedCodeRuns == GuestSpec => []ExecutesOnlyVerified
<1>1. GuestInv => ExecutesOnlyVerified
  BY DEF GuestInv, BundleInv
<1> QED  BY <1>1, GuestAlways, PTL

(* For any adapters, written by the application or not, copied, qualified  *)
(* side by side and changed between two vectors: resolve returns an        *)
(* adapter only under a name the manifest approves, and only for an        *)
(* operation on which it agrees with the portable core, unless the         *)
(* application itself recorded it as qualified or changed what it does, or *)
(* the array it shares, after the vectors had run.                         *)
THEOREM OnlyQualifiedAdaptersAreRouted == GuestSpec => []RoutedMeansQualified
<1>1. GuestInv => RoutedMeansQualified
  BY DEF GuestInv, AdapterInv, ObjectInv, RoutedOK, LedgerOK, RoutedMeansQualified
<1> QED  BY <1>1, GuestAlways, PTL

(* close() of the registry has closed every adapter registered when it     *)
(* began, in spite of failures, and leaves the registry empty.             *)
THEOREM CloseIsComplete == GuestSpec => []CloseReachesEveryAdapter
<1>1. GuestInv => CloseReachesEveryAdapter
  BY DEF GuestInv, AdapterInv, CloseOK, CloseReachesEveryAdapter
<1> QED  BY <1>1, GuestAlways, PTL

-----------------------------------------------------------------------------
(* Decoding a request.                                                     *)

(* An object with the required fields, and no others, is decoded: the      *)
(* payload of a request, or an object within it.                           *)
LEMMA ObjectDecoded ==
  ASSUME NEW p, NEW fields, NEW required, NEW optional,
         p.type = "object", p.fields = fields,
         \A i \in DOMAIN required :
           required[i] \in DOMAIN fields /\ fields[required[i]].type # "null",
         DOMAIN fields \subseteq ToSet(required) \cup optional
  PROVE  Object(p, required, optional) = Ok(fields)
BY DEF Object, Check, Ok

LEMMA ObjectHolds ==
  ASSUME NEW fields, NEW required, NEW optional,
         \A i \in DOMAIN required :
           required[i] \in DOMAIN fields /\ fields[required[i]].type # "null",
         DOMAIN fields \subseteq ToSet(required) \cup optional
  PROVE  Object(Payload(fields), required, optional) = Ok(fields)
<1>1. Payload(fields).type = "object" /\ Payload(fields).fields = fields
  BY DEF Payload
<1> QED  BY <1>1, ObjectDecoded

(* What Call returns is what the operation returned, where that is no       *)
(* failure and the payload is not too deep.                                *)
LEMMA CallReturns ==
  ASSUME NEW op, NEW fields
  PROVE  LET r == Execute(op, Payload(fields))
         IN  /\ Call(op, Payload(fields)).ok => Call(op, Payload(fields)) = r /\ 1 <= MaxDepth
             /\ (r.ok /\ 1 <= MaxDepth) => Call(op, Payload(fields)) = r
BY DEF Call, Dispatch, Plain, Payload, Accepted

(* A field that is a string is read as it is.                              *)
LEMMA TextRead ==
  ASSUME NEW f, NEW k, NEW s, f[k] = String(s)
  PROVE  Text(f, k) = Ok(String(s)) /\ Ok(String(s)).result.text = s /\ Ok(String(s)).ok = TRUE
BY DEF Text, String, Check, Ok

-----------------------------------------------------------------------------
(* Encryption.                                                             *)

(* A longer input has no shorter encoding.                                 *)
LEMMA EncodedLengthMonotone ==
  ASSUME NEW m \in Int, NEW n \in Int, m <= n
  PROVE  EncodedLength(m) <= EncodedLength(n)
BY DEF EncodedLength

(* Bytes that are within the limit are decoded to themselves.              *)
LEMMA BinaryFits ==
  ASSUME NEW f, NEW k, NEW n \in Int, NEW o, NEW max \in Int,
         f[k] = Encoded([bytes |-> n, origin |-> o]), n <= max
  PROVE  Binary(f, k, max) = Ok([bytes |-> n, origin |-> o])
<1>1. EncodedLength(n) <= EncodedLength(max)
  BY EncodedLengthMonotone
<1>2. Text(f, k) = Ok(f[k])
  BY DEF Text, Encoded, Check
<1>3. f[k].bytes = n /\ f[k].canonical = TRUE /\ f[k].origin = o
  BY DEF Encoded
<1>4. Text(f, k).ok = TRUE /\ Text(f, k).result = f[k]
  BY <1>2 DEF Ok
<1> QED  BY <1>1, <1>3, <1>4 DEF Binary, Then, Check

(* What was decoded was within the limit.                                  *)
LEMMA BinaryWithin ==
  ASSUME NEW f, NEW k, NEW n \in Int, NEW o, NEW max \in Int,
         f[k] = Encoded([bytes |-> n, origin |-> o]), Binary(f, k, max).ok
  PROVE  n <= max
<1>1. Text(f, k) = Ok(f[k])
  BY DEF Text, Encoded, Check
<1> QED  BY <1>1 DEF Binary, Then, Check, Ok, Encoded, Fail

(* The lengths an encryption was possible for, and what it gave.           *)
LEMMA EncryptGives ==
  ASSUME NEW key \in Int, NEW nonce \in Int, NEW aad \in Int, NEW n \in Int,
         NEW f, f = [key |-> Raw(key), nonce |-> Raw(nonce), aad |-> Raw(aad), plaintext |-> Raw(n)],
         AesGcmEncrypt(Payload(f)).ok
  PROVE  /\ key <= MaxBinaryBytes /\ key \in KeyBytes
         /\ nonce <= MaxBinaryBytes /\ nonce = NonceBytes
         /\ aad <= MaxBinaryBytes /\ n <= PlaintextLimit
         /\ AesGcmEncrypt(Payload(f)).result.ciphertext
              = Encoded([bytes  |-> n + TagBytes,
                         origin |-> <<"gcm", [bytes |-> key, origin |-> <<"raw", key>>],
                                             [bytes |-> nonce, origin |-> <<"raw", nonce>>],
                                             [bytes |-> aad, origin |-> <<"raw", aad>>],
                                             [bytes |-> n, origin |-> <<"raw", n>>]>>])
<1> DEFINE raw(i) == [bytes |-> i, origin |-> <<"raw", i>>]
           K == Binary(f, "key", MaxBinaryBytes)
           N == Binary(f, "nonce", MaxBinaryBytes)
           A == Binary(f, "aad", MaxBinaryBytes)
           P == Binary(f, "plaintext", PlaintextLimit)
           c(k, m, a, p) == Ok([ciphertext |-> Encoded([bytes |-> p.bytes + TagBytes,
                                                        origin |-> <<"gcm", k, m, a, p>>])])
<1>1. /\ f["key"] = Encoded(raw(key)) /\ f["nonce"] = Encoded(raw(nonce))
      /\ f["aad"] = Encoded(raw(aad)) /\ f["plaintext"] = Encoded(raw(n))
  BY DEF Raw
<1>2. MaxBinaryBytes \in Int /\ PlaintextLimit \in Int /\ TagBytes \in Int
  BY LimitAssumption DEF PlaintextLimit
<1>3. Object(Payload(f), <<"key", "nonce", "aad", "plaintext">>, {}) = Ok(f)
  <2> DEFINE R == <<"key", "nonce", "aad", "plaintext">>
  <2>1. DOMAIN R = 1 .. 4 /\ R[1] = "key" /\ R[2] = "nonce" /\ R[3] = "aad" /\ R[4] = "plaintext"
    OBVIOUS
  <2>2. DOMAIN f = {"key", "nonce", "aad", "plaintext"}
    OBVIOUS
  <2>3. \A k \in DOMAIN f : f[k].type # "null"
    BY <1>1, <2>2 DEF Encoded
  <2> HIDE DEF R
  <2>4. \A i \in DOMAIN R : R[i] \in DOMAIN f /\ f[R[i]].type # "null"
    BY <2>1, <2>2, <2>3
  <2>5. DOMAIN f \subseteq ToSet(R) \cup {}
    BY <2>1, <2>2 DEF ToSet
  <2>6. Object(Payload(f), R, {}) = Ok(f)
    BY <2>4, <2>5, ObjectHolds
  <2> QED  BY <2>6 DEF R
<1>4. AesGcmEncrypt(Payload(f)) =
        IF ~K.ok THEN K
        ELSE IF K.result.bytes \notin KeyBytes THEN Fail("invalid_key", "key")
        ELSE IF ~N.ok THEN N
        ELSE IF N.result.bytes # NonceBytes THEN Fail("invalid_nonce", "nonce")
        ELSE IF ~A.ok THEN A
        ELSE IF ~P.ok THEN P
        ELSE c(K.result, N.result, A.result, P.result)
  <2>1. Ok(f).ok = TRUE /\ Ok(f).result = f
    BY DEF Ok
  <2> QED  BY <1>3, <2>1 DEF AesGcmEncrypt, Then, AesInputs, Check
<1>5. /\ K.ok /\ K.result.bytes \in KeyBytes /\ N.ok /\ N.result.bytes = NonceBytes /\ A.ok /\ P.ok
      /\ AesGcmEncrypt(Payload(f)) = c(K.result, N.result, A.result, P.result)
  BY <1>4 DEF Fail
<1>6. key <= MaxBinaryBytes /\ nonce <= MaxBinaryBytes /\ aad <= MaxBinaryBytes /\ n <= PlaintextLimit
  BY <1>1, <1>2, <1>5, BinaryWithin
<1>7. K = Ok(raw(key)) /\ N = Ok(raw(nonce)) /\ A = Ok(raw(aad)) /\ P = Ok(raw(n))
  BY <1>1, <1>2, <1>6, BinaryFits, SMTT(60)
<1>8. K.result = raw(key) /\ N.result = raw(nonce) /\ A.result = raw(aad) /\ P.result = raw(n)
  BY <1>7 DEF Ok
<1> QED  BY <1>5, <1>6, <1>8 DEF Ok

(* The middle of a tuple of five.                                          *)
LEMMA MiddleOfFive ==
  ASSUME NEW a, NEW b, NEW c, NEW d, NEW e
  PROVE  /\ Head(<<a, b, c, d, e>>) = a
         /\ SubSeq(<<a, b, c, d, e>>, 2, 4) = <<b, c, d>>
         /\ <<a, b, c, d, e>>[5] = e
<1> DEFINE t == <<a, b, c, d, e>>
           m == SubSeq(t, 2, 4)
<1>1. /\ t \in Seq({a, b, c, d, e}) /\ Len(t) = 5
      /\ t[1] = a /\ t[2] = b /\ t[3] = c /\ t[4] = d /\ t[5] = e
  OBVIOUS
<1>2. m = [i \in 1 .. 3 |-> t[i + 1]]
  BY <1>1 
<1>3. m = <<b, c, d>>
  <2> HIDE DEF t, m
  <2>1. DOMAIN m = 1 .. 3 /\ m[1] = b /\ m[2] = c /\ m[3] = d
    BY <1>1, <1>2
  <2>2. <<b, c, d>> = [i \in 1 .. 3 |-> m[i]]
    BY <2>1
  <2> QED  BY <1>2, <2>1, <2>2
<1> QED  BY <1>1, <1>3

(* Whatever was encrypted within the limits is decrypted again.            *)
LEMMA DecryptGives ==
  ASSUME NEW key \in KeyBytes, NEW aad \in Int, NEW n \in Int, NEW c, NEW f,
         key <= MaxBinaryBytes, NonceBytes <= MaxBinaryBytes, aad <= MaxBinaryBytes,
         n >= TagBytes, n <= MaxBinaryBytes, NEW p,
         c = Encoded([bytes  |-> n,
                      origin |-> <<"gcm", [bytes |-> key, origin |-> <<"raw", key>>],
                                          [bytes |-> NonceBytes, origin |-> <<"raw", NonceBytes>>],
                                          [bytes |-> aad, origin |-> <<"raw", aad>>], p>>]),
         f = [key |-> Raw(key), nonce |-> Raw(NonceBytes), aad |-> Raw(aad), ciphertext |-> c]
  PROVE  AesGcmDecrypt(Payload(f)) = Ok([plaintext |-> Encoded(p)])
<1> DEFINE raw(i) == [bytes |-> i, origin |-> <<"raw", i>>]
           o == <<"gcm", raw(key), raw(NonceBytes), raw(aad), p>>
           K == Binary(f, "key", MaxBinaryBytes)
           N == Binary(f, "nonce", MaxBinaryBytes)
           A == Binary(f, "aad", MaxBinaryBytes)
           V == Binary(f, "ciphertext", MaxBinaryBytes)
           opened(k, m, a, v) ==
             IF ~(v.bytes >= TagBytes) THEN Fail("authentication_failed", "ciphertext")
             ELSE IF ~(Head(v.origin) = "gcm" /\ SubSeq(v.origin, 2, 4) = <<k, m, a>>)
             THEN Fail("authentication_failed", "ciphertext")
             ELSE Ok([plaintext |-> Encoded(v.origin[5])])
<1>1. /\ f["key"] = Encoded(raw(key)) /\ f["nonce"] = Encoded(raw(NonceBytes))
      /\ f["aad"] = Encoded(raw(aad)) /\ f["ciphertext"] = Encoded([bytes |-> n, origin |-> o])
  BY DEF Raw
<1>2. MaxBinaryBytes \in Int /\ NonceBytes \in Int /\ TagBytes \in Int /\ key \in Int
  BY LimitAssumption
<1>3. Object(Payload(f), <<"key", "nonce", "aad", "ciphertext">>, {}) = Ok(f)
  <2> DEFINE R == <<"key", "nonce", "aad", "ciphertext">>
  <2>1. DOMAIN R = 1 .. 4 /\ R[1] = "key" /\ R[2] = "nonce" /\ R[3] = "aad" /\ R[4] = "ciphertext"
    OBVIOUS
  <2>2. DOMAIN f = {"key", "nonce", "aad", "ciphertext"}
    OBVIOUS
  <2>3. \A k \in DOMAIN f : f[k].type # "null"
    BY <1>1, <2>2 DEF Encoded
  <2> HIDE DEF R
  <2>4. \A i \in DOMAIN R : R[i] \in DOMAIN f /\ f[R[i]].type # "null"
    BY <2>1, <2>2, <2>3
  <2>5. DOMAIN f \subseteq ToSet(R) \cup {}
    BY <2>1, <2>2 DEF ToSet
  <2>6. Object(Payload(f), R, {}) = Ok(f)
    BY <2>4, <2>5, ObjectHolds
  <2> QED  BY <2>6 DEF R
<1>4. AesGcmDecrypt(Payload(f)) =
        IF ~K.ok THEN K
        ELSE IF K.result.bytes \notin KeyBytes THEN Fail("invalid_key", "key")
        ELSE IF ~N.ok THEN N
        ELSE IF N.result.bytes # NonceBytes THEN Fail("invalid_nonce", "nonce")
        ELSE IF ~A.ok THEN A
        ELSE IF ~V.ok THEN V
        ELSE opened(K.result, N.result, A.result, V.result)
  <2>1. Ok(f).ok = TRUE /\ Ok(f).result = f
    BY DEF Ok
  <2> QED  BY <1>3, <2>1 DEF AesGcmDecrypt, Then, AesInputs, Check
<1>5. K = Ok(raw(key)) /\ N = Ok(raw(NonceBytes)) /\ A = Ok(raw(aad)) /\ V = Ok([bytes |-> n, origin |-> o])
  <2> HIDE DEF o
  <2> QED  BY <1>1, <1>2, BinaryFits
<1>6. /\ K.ok /\ K.result = raw(key) /\ N.ok /\ N.result = raw(NonceBytes)
      /\ A.ok /\ A.result = raw(aad) /\ V.ok /\ V.result = [bytes |-> n, origin |-> o]
  <2> HIDE DEF o
  <2> QED  BY <1>5 DEF Ok
<1>7. AesGcmDecrypt(Payload(f)) = opened(raw(key), raw(NonceBytes), raw(aad), [bytes |-> n, origin |-> o])
  <2> HIDE DEF o, opened
  <2> QED  BY <1>4, <1>6
<1>8. Head(o) = "gcm" /\ SubSeq(o, 2, 4) = <<raw(key), raw(NonceBytes), raw(aad)>> /\ o[5] = p
  <2> HIDE DEF raw
  <2> QED  BY MiddleOfFive
<1> HIDE DEF o
<1> QED  BY <1>7, <1>8

(* One required field of binary data is enough to hash.                    *)
LEMMA HashGives ==
  ASSUME NEW n \in Int, NEW o, n <= MaxBinaryBytes
  PROVE  Sha256(Payload([data |-> Encoded([bytes |-> n, origin |-> o])])).ok
<1> DEFINE f == [data |-> Encoded([bytes |-> n, origin |-> o])]
           R == <<"data">>
<1>1. MaxBinaryBytes \in Int
  BY LimitAssumption
<1>2. Object(Payload(f), R, {}) = Ok(f)
  <2>1. DOMAIN R = 1 .. 1 /\ R[1] = "data"
    OBVIOUS
  <2>2. DOMAIN f = {"data"} /\ f["data"].type # "null"
    BY DEF Encoded
  <2> HIDE DEF R, f
  <2>3. ToSet(R) = {"data"}
    BY <2>1 DEF ToSet
  <2> QED  BY <2>1, <2>2, <2>3, ObjectHolds
<1>3. Binary(f, "data", MaxBinaryBytes) = Ok([bytes |-> n, origin |-> o])
  BY <1>1, BinaryFits
<1> HIDE DEF f
<1> QED  BY <1>2, <1>3 DEF Sha256, Then, Ok, f

(* So are a key long enough, and data, to authenticate.                    *)
LEMMA HmacGives ==
  ASSUME NEW key \in Int, NEW n \in Int, NEW o, n <= MaxBinaryBytes,
         key <= MaxBinaryBytes, key >= MinHmacKeyBytes
  PROVE  HmacSha256(Payload([key |-> Raw(key), data |-> Encoded([bytes |-> n, origin |-> o])])).ok
<1> DEFINE f == [key |-> Raw(key), data |-> Encoded([bytes |-> n, origin |-> o])]
           R == <<"key", "data">>
<1>1. MaxBinaryBytes \in Int
  BY LimitAssumption
<1>2. Object(Payload(f), R, {}) = Ok(f)
  <2>1. DOMAIN R = 1 .. 2 /\ R[1] = "key" /\ R[2] = "data"
    OBVIOUS
  <2>2. DOMAIN f = {"key", "data"} /\ f["data"].type # "null" /\ f["key"].type # "null"
    BY DEF Encoded, Raw
  <2> HIDE DEF R, f
  <2>3. ToSet(R) = {"key", "data"}
    BY <2>1 DEF ToSet
  <2> QED  BY <2>1, <2>2, <2>3, ObjectHolds
<1>3. /\ Binary(f, "data", MaxBinaryBytes) = Ok([bytes |-> n, origin |-> o])
      /\ Binary(f, "key", MaxBinaryBytes) = Ok([bytes |-> key, origin |-> <<"raw", key>>])
  <2>1. f["key"] = Encoded([bytes |-> key, origin |-> <<"raw", key>>])
    BY DEF Raw
  <2>2. f["data"] = Encoded([bytes |-> n, origin |-> o])
    OBVIOUS
  <2> QED  BY <1>1, <2>1, <2>2, BinaryFits
<1>4. HmacSha256(Payload(f)).ok
  <2> HIDE DEF f, R
  <2>1. Object(Payload(f), <<"key", "data">>, {}) = Ok(f)
    BY <1>2 DEF R
  <2> QED  BY <2>1, <1>3 DEF HmacSha256, Then, Ok, Check
<1> QED  BY <1>4

(***************************************************************************)
(* Whatever lengths the key, the nonce, the associated data and the        *)
(* plaintext have: what could be encrypted is decrypted to the plaintext,  *)
(* and its ciphertext can be hashed and authenticated with the same key    *)
(* (PlaintextLimit leaves room for the tag).                               *)
(***************************************************************************)
THEOREM CiphertextLimitsFit ==
  ASSUME NEW key \in Nat, NEW nonce \in Nat, NEW aad \in Nat, NEW n \in Nat
  PROVE  CiphertextFits(key, nonce, aad, n)
<1> DEFINE f == [key |-> Raw(key), nonce |-> Raw(nonce), aad |-> Raw(aad), plaintext |-> Raw(n)]
           E == Call("crypto.aes-gcm.encrypt", Payload(f))
           c == E.result.ciphertext
           g == [key |-> Raw(key), nonce |-> Raw(nonce), aad |-> Raw(aad), ciphertext |-> c]
           raw(i) == [bytes |-> i, origin |-> <<"raw", i>>]
           o == <<"gcm", raw(key), raw(nonce), raw(aad), raw(n)>>
<1> SUFFICES ASSUME E.ok
             PROVE  /\ Call("crypto.aes-gcm.decrypt", Payload(g)).ok
                    /\ Call("crypto.aes-gcm.decrypt", Payload(g)).result.plaintext = Raw(n)
                    /\ Call("crypto.sha256", Payload([data |-> c])).ok
                    /\ Call("crypto.hmac-sha256", Payload([key |-> Raw(key), data |-> c])).ok
  BY DEF CiphertextFits
<1> HIDE DEF f, g, E, c, o
<1>1. E = AesGcmEncrypt(Payload(f)) /\ 1 <= MaxDepth
  <2>1. E = Execute("crypto.aes-gcm.encrypt", Payload(f)) /\ 1 <= MaxDepth
    BY CallReturns DEF E
  <2>2. Execute("crypto.aes-gcm.encrypt", Payload(f)) = AesGcmEncrypt(Payload(f))
    BY DEF Execute
  <2> QED  BY <2>1, <2>2
<1>2. /\ key <= MaxBinaryBytes /\ key \in KeyBytes
      /\ nonce <= MaxBinaryBytes /\ nonce = NonceBytes
      /\ aad <= MaxBinaryBytes /\ n <= PlaintextLimit
      /\ c = Encoded([bytes |-> n + TagBytes, origin |-> o])
  BY <1>1, EncryptGives, SMTT(60) DEF f, c, o
<1>3. TagBytes \in Nat /\ MaxBinaryBytes \in Nat /\ n + TagBytes \in Int /\ n + TagBytes <= MaxBinaryBytes
  BY <1>2, LimitAssumption DEF PlaintextLimit
<1>4. AesGcmDecrypt(Payload(g)) = Ok([plaintext |-> Encoded(raw(n))])
  <2>1. g = [key |-> Raw(key), nonce |-> Raw(NonceBytes), aad |-> Raw(aad), ciphertext |-> c]
    BY <1>2 DEF g
  <2>2. c = Encoded([bytes  |-> n + TagBytes,
                     origin |-> <<"gcm", raw(key), raw(NonceBytes), raw(aad), raw(n)>>])
    BY <1>2 DEF o
  <2>3. n + TagBytes >= TagBytes /\ NonceBytes <= MaxBinaryBytes
    BY <1>2, <1>3
  <2> QED  BY <1>2, <1>3, <2>1, <2>2, <2>3, DecryptGives
<1>5. /\ Call("crypto.aes-gcm.decrypt", Payload(g)).ok
      /\ Call("crypto.aes-gcm.decrypt", Payload(g)).result.plaintext = Raw(n)
  <2> DEFINE r == Ok([plaintext |-> Encoded(raw(n))])
  <2>1. Execute("crypto.aes-gcm.decrypt", Payload(g)) = r
    BY <1>4 DEF Execute
  <2>2. r.ok = TRUE /\ r.result.plaintext = Raw(n)
    BY DEF Ok, Raw
  <2> HIDE DEF r
  <2>3. Call("crypto.aes-gcm.decrypt", Payload(g)) = r
    BY <1>1, <2>1, <2>2, CallReturns
  <2> QED  BY <2>2, <2>3
<1>6. Call("crypto.sha256", Payload([data |-> c])).ok
  <2> DEFINE h == [data |-> c]
  <2>1. Sha256(Payload(h)).ok
    BY <1>2, <1>3, HashGives
  <2>2. Execute("crypto.sha256", Payload(h)) = Sha256(Payload(h))
    BY DEF Execute
  <2> HIDE DEF h
  <2>3. Call("crypto.sha256", Payload(h)).ok
    BY <1>1, <2>1, <2>2, CallReturns
  <2> QED  BY <2>3 DEF h
<1>7. Call("crypto.hmac-sha256", Payload([key |-> Raw(key), data |-> c])).ok
  <2> DEFINE h == [key |-> Raw(key), data |-> c]
  <2>1. HmacSha256(Payload(h)).ok
    <3>1. key >= MinHmacKeyBytes /\ key \in Int
      BY <1>2, LimitAssumption
    <3>2. HmacSha256(Payload([key |-> Raw(key),
            data |-> Encoded([bytes |-> n + TagBytes, origin |-> o])])).ok
      BY <1>2, <1>3, <3>1, HmacGives, Zenon
    <3> QED  BY <1>2, <3>2
  <2>2. Execute("crypto.hmac-sha256", Payload(h)) = HmacSha256(Payload(h))
    BY DEF Execute
  <2> HIDE DEF h
  <2>3. Call("crypto.hmac-sha256", Payload(h)).ok
    BY <1>1, <2>1, <2>2, CallReturns
  <2> QED  BY <2>3 DEF h
<1> QED  BY <1>5, <1>6, <1>7

-----------------------------------------------------------------------------
(* Texts.                                                                  *)

(* The positions of a text, and any of them, are finitely many.            *)
LEMMA TextPositions ==
  ASSUME NEW s \in Seq(Classes)
  PROVE  /\ Len(s) \in Nat /\ DOMAIN s = 1 .. Len(s)
         /\ IsFiniteSet(DOMAIN s) /\ Cardinality(DOMAIN s) = Len(s)
         /\ \A P \in SUBSET (DOMAIN s) : IsFiniteSet(P) /\ Cardinality(P) \in Nat
         /\ ByteLength(s) \in Nat
<1>1. Len(s) \in Nat /\ DOMAIN s = 1 .. Len(s)
  BY LenProperties
<1>2. IsFiniteSet(1 .. Len(s)) /\ Cardinality(1 .. Len(s)) = Len(s)
  BY <1>1, FS_Interval, SMTT(60)
<1>3. \A P \in SUBSET (DOMAIN s) : IsFiniteSet(P) /\ Cardinality(P) \in Nat
  BY <1>1, <1>2, FS_Subset, FS_CardinalityType
<1>4. ByteLength(s) \in Nat
  <2>1. /\ Cardinality({i \in DOMAIN s : Width(s[i]) > 1}) \in Nat
        /\ Cardinality({i \in DOMAIN s : Width(s[i]) > 2}) \in Nat
    BY <1>3
  <2> QED  BY <1>1, <2>1 DEF ByteLength
<1> QED  BY <1>1, <1>2, <1>3, <1>4

(* A text whose characters are, one by one, no wider than different        *)
(* characters of another is no longer than that.                           *)
LEMMA NarrowerText ==
  ASSUME NEW s \in Seq(Classes), NEW t \in Seq(Classes),
         NEW h \in [DOMAIN t -> DOMAIN s],
         \A i, j \in DOMAIN t : h[i] = h[j] => i = j,
         \A i \in DOMAIN t : Width(t[i]) <= Width(s[h[i]])
  PROVE  ByteLength(t) <= ByteLength(s)
<1> DEFINE wider(u, m) == {i \in DOMAIN u : Width(u[i]) > m}
<1>1. ASSUME NEW c \in Classes PROVE Width(c) \in Nat
  BY DEF Width
<1>2. /\ \A i \in DOMAIN t : Width(t[i]) \in Nat
      /\ \A i \in DOMAIN s : Width(s[i]) \in Nat
  BY <1>1, ElementOfSeq, LenProperties
<1>3. ASSUME NEW m \in Int
      PROVE  Cardinality(wider(t, m)) <= Cardinality(wider(s, m))
  <2> DEFINE A == wider(t, m)
             B == wider(s, m)
             g == [i \in A |-> h[i]]
  <2>1. ASSUME NEW i \in A PROVE h[i] \in B
    BY <1>2
  <2>2. g \in Injection(A, B)
    BY <2>1 DEF Injection, IsInjective
  <2>3. IsFiniteSet(B)
    BY TextPositions
  <2> HIDE DEF A, B, g
  <2>4. Cardinality(A) <= Cardinality(B)
    BY <2>2, <2>3, FS_Injection
  <2> QED  BY <2>4 DEF A, B
<1>4. Len(t) <= Len(s)
  <2>1. h \in Injection(DOMAIN t, DOMAIN s)
    BY DEF Injection, IsInjective
  <2>2. Cardinality(DOMAIN t) <= Cardinality(DOMAIN s)
    BY <2>1, TextPositions, FS_Injection
  <2> QED  BY <2>2, TextPositions
<1>5. /\ Len(s) \in Nat /\ Len(t) \in Nat
      /\ Cardinality(wider(s, 1)) \in Nat
      /\ Cardinality(wider(s, 2)) \in Nat
      /\ Cardinality(wider(t, 1)) \in Nat
      /\ Cardinality(wider(t, 2)) \in Nat
  BY TextPositions
<1>6. /\ Cardinality(wider(t, 1)) <= Cardinality(wider(s, 1))
      /\ Cardinality(wider(t, 2)) <= Cardinality(wider(s, 2))
  <2> HIDE DEF wider
  <2> QED  BY <1>3
<1> QED  BY <1>4, <1>5, <1>6 DEF ByteLength

(* Every set of positions is counted off by Nth, in order.                 *)
LEMMA NthCounts ==
  ASSUME NEW m \in Nat, NEW K \in SUBSET (1 .. m)
  PROVE  /\ IsFiniteSet(K) /\ Cardinality(K) \in Nat
         /\ \A n \in 1 .. Cardinality(K) : Nth(K, n) \in K /\ Rank(K, Nth(K, n)) = n
         /\ \A i \in K : Rank(K, i) \in 1 .. Cardinality(K) /\ Nth(K, Rank(K, i)) = i
         /\ \A i, j \in K : i < j <=> Rank(K, i) < Rank(K, j)
<1> DEFINE upto(i) == {k \in K : k <= i}
           N == Cardinality(K)
<1>1. IsFiniteSet(K) /\ N \in Nat
  <2>1. IsFiniteSet(1 .. m)
    BY FS_Interval
  <2> QED  BY <2>1, FS_Subset, FS_CardinalityType
<1>2. ASSUME NEW i \in K
      PROVE  IsFiniteSet(upto(i)) /\ Cardinality(upto(i)) \in 1 .. N
  <2>1. IsFiniteSet(upto(i)) /\ Cardinality(upto(i)) \in Nat /\ Cardinality(upto(i)) <= N
    BY <1>1, FS_Subset, FS_CardinalityType
  <2>2. upto(i) # {}
    OBVIOUS
  <2>3. Cardinality(upto(i)) # 0
    BY <2>1, <2>2, FS_EmptySet
  <2> QED  BY <1>1, <2>1, <2>3
<1>3. ASSUME NEW i \in K, NEW j \in K, i < j
      PROVE  Rank(K, i) < Rank(K, j)
  <2>1. upto(i) \in SUBSET upto(j) /\ j \in upto(j) /\ j \notin upto(i)
    <3>1. \A k \in K : k \in Int
      OBVIOUS
    <3>2. \A k \in K : (k <= i => k <= j) /\ k <= k
      BY <1>3, <3>1
    <3>3. ~(j <= i)
      BY <1>3, <3>1
    <3> QED  BY <3>2, <3>3
  <2>2. Cardinality(upto(i)) <= Cardinality(upto(j)) /\ Cardinality(upto(i)) # Cardinality(upto(j))
    BY <1>2, <2>1, FS_Subset
  <2> QED  BY <1>2, <2>2 DEF Rank
<1>4. \A i \in K : Rank(K, i) \in 1 .. N
  BY <1>2 DEF Rank
<1>5. ASSUME NEW i \in K, NEW j \in K
      PROVE  /\ i < j <=> Rank(K, i) < Rank(K, j)
             /\ Rank(K, i) = Rank(K, j) => i = j
  <2>1. i \in Int /\ j \in Int /\ Rank(K, i) \in Int /\ Rank(K, j) \in Int
    BY <1>1, <1>4
  <2> QED  BY <1>3, <2>1
<1> DEFINE r == [i \in K |-> Rank(K, i)]
<1>6. r \in Surjection(K, 1 .. N)
  <2>1. r \in Injection(K, 1 .. N)
    BY <1>4, <1>5 DEF Injection, IsInjective
  <2>2. IsFiniteSet(1 .. N) /\ Cardinality(1 .. N) = N
    BY <1>1, FS_Interval
  <2> QED  BY <1>1, <2>1, <2>2, FS_Injection
<1>7. ASSUME NEW n \in 1 .. N
      PROVE  Nth(K, n) \in K /\ Rank(K, Nth(K, n)) = n
  <2>1. \E i \in K : Rank(K, i) = n
    BY <1>6 DEF Surjection
  <2> QED  BY <2>1 DEF Nth
<1>8. ASSUME NEW i \in K PROVE Nth(K, Rank(K, i)) = i
  BY <1>4, <1>5, <1>7
<1> QED  BY <1>1, <1>4, <1>5, <1>7, <1>8

(* Every set of natural numbers has a least one.                           *)
LEMMA LeastNumber ==
  ASSUME NEW T \in SUBSET Nat, T # {}
  PROVE  \E x \in T : \A y \in T : x <= y
<1> DEFINE R == {ss \in Nat \X Nat : ss[1] < ss[2]}
<1>1. IsWellFoundedOn(R, Nat)
  BY NatLessThanWellFounded DEF OpToRel
<1>2. \A x, y \in Nat : y < x => <<y, x>> \in R
  OBVIOUS
<1> HIDE DEF R
<1>3. \E x \in T : \A y \in T : ~(<<y, x>> \in R)
  BY <1>1, WFMin
<1>4. PICK x \in T : \A y \in T : ~(<<y, x>> \in R)
  BY <1>3
<1>5. ASSUME NEW y \in T PROVE x <= y
  <2>1. x \in Nat /\ y \in Nat /\ ~(y < x)
    BY <1>2, <1>4
  <2> QED  BY <2>1
<1> QED  BY <1>5


-----------------------------------------------------------------------------
\* What the three normalizations leave behind.
TrimmedText(s)   == s # <<>> => ~IsGoSpace(s[1]) /\ ~IsGoSpace(s[Len(s)])
CollapsedText(s) ==
  \A i \in DOMAIN s : IsGoSpace(s[i]) => s[i] = "blank" /\ (i = 1 \/ ~IsGoSpace(s[i - 1]))
LowercaseText(s) == \A i \in DOMAIN s : s[i] # "upper"

\* t is a text no longer, and no less well-formed, than s.
Shortens(s, t) ==
  t \in Seq(Classes) /\ ByteLength(t) <= ByteLength(s) /\ (IsUtf8(s) => IsUtf8(t))

(* A text made of different characters of another, each as it is or made   *)
(* narrower and well-formed, shortens it.                                  *)
LEMMA PickingShortens ==
  ASSUME NEW s \in Seq(Classes), NEW t \in Seq(Classes),
         NEW h \in [DOMAIN t -> DOMAIN s],
         \A i, j \in DOMAIN t : h[i] = h[j] => i = j,
         \A i \in DOMAIN t : t[i] = s[h[i]] \/ t[i] \in {"blank", "lower"}
  PROVE  Shortens(s, t)
<1>1. \A i \in DOMAIN t : Width(t[i]) <= Width(s[h[i]])
  <2>1. ASSUME NEW c \in Classes PROVE Width(c) \in Nat /\ Width(c) >= 1
    BY DEF Width
  <2>2. Width("blank") = 1 /\ Width("lower") = 1
    BY DEF Width
  <2>3. \A i \in DOMAIN s : s[i] \in Classes
    BY ElementOfSeq, LenProperties
  <2> SUFFICES ASSUME NEW i \in DOMAIN t PROVE Width(t[i]) <= Width(s[h[i]])
    OBVIOUS
  <2>4. s[h[i]] \in Classes
    BY <2>3
  <2>5. Width(s[h[i]]) \in Nat /\ Width(s[h[i]]) >= 1
    BY <2>1, <2>4
  <2>6. t[i] = s[h[i]] \/ Width(t[i]) = 1
    BY <2>2
  <2> HIDE DEF Width
  <2> QED  BY <2>5, <2>6
<1>2. ByteLength(t) <= ByteLength(s)
  BY <1>1, NarrowerText
<1>3. IsUtf8(s) => IsUtf8(t)
  BY DEF IsUtf8, ToSet
<1> QED  BY <1>2, <1>3 DEF Shortens

(* The least and the greatest of a set of positions.                       *)
LEMMA FirstAndLast ==
  ASSUME NEW m \in Nat, NEW K \in SUBSET (1 .. m), K # {}
  PROVE  /\ Min(K) \in K /\ Max(K) \in K
         /\ \A k \in K : Min(K) <= k /\ k <= Max(K)
<1>1. \E x \in K : \A y \in K : x <= y
  BY LeastNumber
<1>2. Min(K) \in K /\ \A k \in K : Min(K) <= k
  BY <1>1 DEF Min
<1> DEFINE R == {m - k : k \in K}
<1>3. \A k \in K : k \in Int /\ k <= m /\ m - k \in Nat
  OBVIOUS
<1>4. R \in SUBSET Nat /\ R # {}
  BY <1>3
<1>5. PICK x \in R : \A y \in R : x <= y
  BY <1>4, LeastNumber
<1>6. PICK z \in K : x = m - z
  BY <1>5
<1>7. \A y \in K : z >= y
  <2> TAKE y \in K
  <2>1. m - z <= m - y
    BY <1>5, <1>6
  <2> QED  BY <2>1
<1>8. Max(K) \in K /\ \A k \in K : Max(K) >= k
  BY <1>7 DEF Max
<1>9. \A k \in K : Max(K) \in Int /\ k \in Int
  <2> HIDE DEF R
  <2> QED  BY <1>3, <1>8
<1> QED  BY <1>2, <1>8, <1>9

(* TrimGoSpace.                                                            *)
LEMMA TrimTrims ==
  ASSUME NEW s \in Seq(Classes)
  PROVE  Shortens(s, TrimGoSpace(s)) /\ TrimmedText(TrimGoSpace(s))
<1> DEFINE K == {i \in DOMAIN s : ~IsGoSpace(s[i])}
           a == Min(K)
           b == Max(K)
           t == TrimGoSpace(s)
<1>1. Len(s) \in Nat /\ DOMAIN s = 1 .. Len(s) /\ \A i \in DOMAIN s : s[i] \in Classes
  BY TextPositions, ElementOfSeq
<1>2. CASE K = {}
  <2>1. t = <<>>
    BY <1>2 DEF TrimGoSpace
  <2>2. Shortens(s, <<>>)
    <3> DEFINE h == [i \in DOMAIN <<>> |-> i]
    <3>1. <<>> \in Seq(Classes) /\ DOMAIN <<>> = {}
      BY EmptySeq
    <3>2. h \in [DOMAIN <<>> -> DOMAIN s]
      BY <3>1
    <3> QED  BY <3>1, <3>2, PickingShortens
  <2> QED  BY <2>1, <2>2 DEF TrimmedText
<1>3. CASE K # {}
  <2>1. a \in K /\ b \in K /\ a <= b
    BY <1>1, <1>3, FirstAndLast
  <2>2. a \in 1 .. Len(s) /\ b \in 1 .. Len(s) /\ ~IsGoSpace(s[a]) /\ ~IsGoSpace(s[b])
    BY <1>1, <2>1
  <2>3. t = SubSeq(s, a, b)
    BY <1>3 DEF TrimGoSpace
  <2> HIDE DEF K, a, b, t
  <2>4. /\ t \in Seq(Classes) /\ Len(t) = b - a + 1
        /\ \A i \in 1 .. b - a + 1 : t[i] = s[a + i - 1]
    <3>1. \A i \in a .. b : s[i] \in Classes
      BY <1>1, <2>2
    <3> QED  BY <2>1, <2>2, <2>3, <3>1, SubSeqProperties
  <2>5. DOMAIN t = 1 .. b - a + 1 /\ b - a + 1 \in Nat /\ 1 \in DOMAIN t /\ Len(t) \in DOMAIN t
    BY <2>1, <2>2, <2>4, LenProperties
  <2> DEFINE h == [i \in DOMAIN t |-> a + i - 1]
  <2>6. \A i \in DOMAIN t : a + i - 1 \in DOMAIN s
    BY <1>1, <2>2, <2>5
  <2>7. Shortens(s, t)
    <3>1. h \in [DOMAIN t -> DOMAIN s]
      BY <2>6
    <3>2. \A i, j \in DOMAIN t : h[i] = h[j] => i = j
      BY <2>2, <2>5
    <3>3. \A i \in DOMAIN t : t[i] = s[h[i]]
      BY <2>4, <2>5
    <3> HIDE DEF h
    <3> QED  BY <2>4, <3>1, <3>2, <3>3, PickingShortens
  <2>8. t[1] = s[a] /\ t[Len(t)] = s[b]
    <3>1. a + 1 - 1 = a /\ a + Len(t) - 1 = b
      BY <2>2, <2>4
    <3> QED  BY <2>4, <2>5, <3>1
  <2> QED  BY <2>2, <2>7, <2>8 DEF TrimmedText, t
<1> QED  BY <1>2, <1>3

LEMMA TrimKeeps ==
  ASSUME NEW s \in Seq(Classes), TrimmedText(s)
  PROVE  TrimGoSpace(s) = s
<1> DEFINE K == {i \in DOMAIN s : ~IsGoSpace(s[i])}
<1>1. Len(s) \in Nat /\ DOMAIN s = 1 .. Len(s)
  BY TextPositions
<1>2. CASE s = <<>>
  <2>1. K = {}
    BY <1>1, <1>2, EmptySeq
  <2> QED  BY <1>2, <2>1 DEF TrimGoSpace
<1>3. CASE s # <<>>
  <2>1. 1 \in K /\ Len(s) \in K
    <3>1. Len(s) # 0
      BY <1>3, EmptySeq
    <3> QED  BY <1>1, <1>3, <3>1 DEF TrimmedText
  <2>2. /\ Min(K) \in K /\ Max(K) \in K /\ Min(K) <= 1 /\ Len(s) <= Max(K)
    BY <1>1, <2>1, FirstAndLast
  <2>3. Min(K) = 1 /\ Max(K) = Len(s)
    BY <1>1, <2>2
  <2>4. TrimGoSpace(s) = SubSeq(s, 1, Len(s))
    BY <2>1, <2>3 DEF TrimGoSpace
  <2>5. SubSeq(s, 1, Len(s)) = s
    BY <1>1
  <2> QED  BY <2>4, <2>5
<1> QED  BY <1>2, <1>3

(* CollapseWhitespace.  The kept positions are counted off in order; the   *)
(* first of them is the first position, and no kept white space follows    *)
(* white space, for the position before it would have been kept.           *)
LEMMA CollapseCollapses ==
  ASSUME NEW s \in Seq(Classes)
  PROVE  /\ Shortens(s, CollapseWhitespace(s)) /\ CollapsedText(CollapseWhitespace(s))
         /\ TrimmedText(s) => TrimmedText(CollapseWhitespace(s))
<1> DEFINE K == Kept(s)
           N == Cardinality(K)
           h(n) == Nth(K, n)
           t == CollapseWhitespace(s)
<1>1. Len(s) \in Nat /\ DOMAIN s = 1 .. Len(s) /\ \A i \in DOMAIN s : s[i] \in Classes
  BY TextPositions, ElementOfSeq
<1>2. K \in SUBSET (1 .. Len(s))
  BY <1>1 DEF Kept
<1>3. /\ N \in Nat
      /\ \A n \in 1 .. N : h(n) \in K /\ Rank(K, h(n)) = n
      /\ \A i \in K : Rank(K, i) \in 1 .. N /\ h(Rank(K, i)) = i
      /\ \A i, j \in K : i < j <=> Rank(K, i) < Rank(K, j)
  BY <1>1, <1>2, NthCounts
<1>4. /\ \A n \in 1 .. N : h(n) \in 1 .. Len(s) /\ h(n) \in Int /\ h(n) \in DOMAIN s
      /\ \A n, o \in 1 .. N : n < o <=> h(n) < h(o)
  BY <1>1, <1>2, <1>3
<1>5. t = [n \in 1 .. N |-> IF IsGoSpace(s[h(n)]) THEN "blank" ELSE s[h(n)]]
  BY DEF CollapseWhitespace
<1>6. \A i \in DOMAIN s : i \in K <=> (IsGoSpace(s[i]) => i = 1 \/ ~IsGoSpace(s[i - 1]))
  BY DEF Kept
<1> HIDE DEF K, N, h, t
<1>7. /\ DOMAIN t = 1 .. N
      /\ \A n \in 1 .. N : /\ t[n] = s[h(n)] \/ t[n] = "blank"
                           /\ IsGoSpace(t[n]) <=> IsGoSpace(s[h(n)])
                           /\ IsGoSpace(t[n]) => t[n] = "blank"
                           /\ t[n] \in Classes
  <2>1. DOMAIN t = 1 .. N /\ \A n \in 1 .. N : t[n] = IF IsGoSpace(s[h(n)]) THEN "blank" ELSE s[h(n)]
    BY <1>5
  <2>2. IsGoSpace("blank") /\ "blank" \in Classes
    BY DEF IsGoSpace, Classes
  <2> QED  BY <1>1, <1>4, <2>1, <2>2
<1>8. t \in Seq(Classes) /\ Len(t) = N
  <2>1. t = [n \in 1 .. N |-> t[n]]
    BY <1>5, <1>7
  <2>2. t \in Seq(Classes)
    BY <1>3, <1>7, <2>1
  <2> QED  BY <1>3, <1>7, <2>2, LenProperties
<1>9. Shortens(s, t)
  <2> DEFINE g == [n \in DOMAIN t |-> h(n)]
  <2>1. g \in [DOMAIN t -> DOMAIN s]
    BY <1>4, <1>7
  <2>2. \A i, j \in DOMAIN t : g[i] = g[j] => i = j
    BY <1>3, <1>4, <1>7
  <2>3. \A i \in DOMAIN t : t[i] = s[g[i]] \/ t[i] \in {"blank", "lower"}
    BY <1>7
  <2> HIDE DEF g
  <2> QED  BY <1>8, <2>1, <2>2, <2>3, PickingShortens
<1>10. CollapsedText(t)
  <2> SUFFICES ASSUME NEW n \in 1 .. N, IsGoSpace(t[n]), n # 1, IsGoSpace(t[n - 1])
               PROVE  FALSE
    BY <1>7 DEF CollapsedText
  <2>1. n - 1 \in 1 .. N /\ n - 1 < n /\ n \in Int
    BY <1>3
  <2>2. h(n - 1) < h(n) /\ h(n) \in DOMAIN s /\ h(n) \in K /\ h(n - 1) >= 1 /\ h(n - 1) \in Int /\ h(n) \in Int
    BY <1>3, <1>4, <2>1
  <2>3. h(n) # 1 /\ IsGoSpace(s[h(n)]) /\ IsGoSpace(s[h(n - 1)])
    BY <1>7, <2>1, <2>2
  <2>4. ~IsGoSpace(s[h(n) - 1])
    BY <1>6, <2>2, <2>3
  <2>5. h(n) - 1 \in DOMAIN s
    BY <1>1, <2>2, <2>3
  <2>6. h(n) - 1 \in K
    BY <1>6, <2>4, <2>5
  <2> DEFINE r == Rank(K, h(n) - 1)
  <2>7. r \in 1 .. N /\ h(r) = h(n) - 1
    BY <1>3, <2>6
  <2> HIDE DEF r
  <2>8. r < n
    BY <1>4, <2>2, <2>7
  <2>9. ~(n - 1 < r)
    BY <1>3, <2>1, <2>7, <2>8
  <2>10. ~(h(n - 1) < h(r))
    BY <1>4, <2>1, <2>7, <2>9
  <2>11. h(n) - 1 = h(n - 1)
    BY <2>2, <2>7, <2>10
  <2> QED  BY <2>3, <2>4, <2>11
<1>11. ASSUME TrimmedText(s), t # <<>> PROVE ~IsGoSpace(t[1]) /\ ~IsGoSpace(t[N])
  <2>1. N >= 1 /\ 1 \in 1 .. N /\ N \in 1 .. N
    BY <1>3, <1>8, <1>11, EmptySeq
  <2>2. Len(s) >= 1 /\ s # <<>>
    BY <1>1, <1>4, <2>1, EmptySeq
  <2>3. ~IsGoSpace(s[1]) /\ ~IsGoSpace(s[Len(s)])
    BY <1>11, <2>2 DEF TrimmedText
  <2>4. 1 \in K /\ Len(s) \in K
    BY <1>1, <1>6, <2>2, <2>3
  <2>5. h(1) = 1
    <3> DEFINE r == Rank(K, 1)
    <3>1. r \in 1 .. N /\ h(r) = 1
      BY <1>3, <2>4
    <3> HIDE DEF r
    <3>2. ~(1 < r)
      BY <1>4, <2>1, <3>1
    <3>3. r = 1
      BY <1>3, <3>1, <3>2
    <3> QED  BY <3>1, <3>3
  <2>6. h(N) = Len(s)
    <3> DEFINE r == Rank(K, Len(s))
    <3>1. r \in 1 .. N /\ h(r) = Len(s)
      BY <1>3, <2>4
    <3> HIDE DEF r
    <3>2. ~(r < N)
      BY <1>1, <1>4, <2>1, <3>1
    <3>3. r = N
      BY <1>3, <3>1, <3>2
    <3> QED  BY <3>1, <3>3
  <2> QED  BY <1>7, <2>1, <2>3, <2>5, <2>6
<1> QED  BY <1>8, <1>9, <1>10, <1>11 DEF TrimmedText, t

LEMMA CollapseKeeps ==
  ASSUME NEW s \in Seq(Classes), CollapsedText(s)
  PROVE  CollapseWhitespace(s) = s
<1> DEFINE m == Len(s)
<1>1. m \in Nat /\ DOMAIN s = 1 .. m
  BY TextPositions
<1>2. Kept(s) = 1 .. m
  BY <1>1 DEF Kept, CollapsedText
<1>3. Cardinality(1 .. m) = m
  BY <1>1, FS_Interval, SMTT(60)
<1>4. ASSUME NEW n \in 1 .. m PROVE Nth(1 .. m, n) = n
  <2>1. {k \in 1 .. m : k <= n} = 1 .. n
    BY <1>1
  <2>2. n \in Nat /\ Cardinality(1 .. n) = n
    BY <1>1, FS_Interval
  <2>3. Rank(1 .. m, n) = n
    BY <2>1, <2>2 DEF Rank
  <2> QED  BY <1>1, <2>3, NthCounts
<1>5. CollapseWhitespace(s) = [n \in 1 .. m |-> IF IsGoSpace(s[n]) THEN "blank" ELSE s[n]]
  <2> HIDE DEF m
  <2>1. CollapseWhitespace(s) =
          [n \in 1 .. m |-> IF IsGoSpace(s[Nth(1 .. m, n)]) THEN "blank" ELSE s[Nth(1 .. m, n)]]
    BY <1>2, <1>3 DEF CollapseWhitespace
  <2> QED  BY <1>4, <2>1
<1>6. \A n \in 1 .. m : (IF IsGoSpace(s[n]) THEN "blank" ELSE s[n]) = s[n]
  BY <1>1 DEF CollapsedText
<1>7. s = [n \in 1 .. m |-> s[n]]
  BY <1>1
<1> QED  BY <1>5, <1>6, <1>7

(* LowercaseAscii.                                                         *)
LEMMA LowercaseLowers ==
  ASSUME NEW s \in Seq(Classes)
  PROVE  /\ Shortens(s, LowercaseAscii(s)) /\ LowercaseText(LowercaseAscii(s))
         /\ TrimmedText(s) => TrimmedText(LowercaseAscii(s))
         /\ CollapsedText(s) => CollapsedText(LowercaseAscii(s))
<1> DEFINE t == LowercaseAscii(s)
<1>1. Len(s) \in Nat /\ DOMAIN s = 1 .. Len(s) /\ \A i \in DOMAIN s : s[i] \in Classes
  BY TextPositions, ElementOfSeq
<1>2. /\ DOMAIN t = DOMAIN s
      /\ \A i \in DOMAIN s : t[i] = IF s[i] = "upper" THEN "lower" ELSE s[i]
  BY DEF LowercaseAscii
<1>3. t \in Seq(Classes) /\ Len(t) = Len(s)
  <2>1. \A i \in 1 .. Len(s) : t[i] \in Classes
    BY <1>1, <1>2 DEF Classes
  <2>2. t = [i \in 1 .. Len(s) |-> t[i]]
    BY <1>1 DEF LowercaseAscii
  <2> HIDE DEF t
  <2>3. t \in Seq(Classes)
    BY <1>1, <2>1, <2>2
  <2> QED  BY <1>1, <1>2, <2>3, LenProperties
<1> HIDE DEF t
<1>4. \A i \in DOMAIN s : /\ IsGoSpace(t[i]) <=> IsGoSpace(s[i])
                          /\ IsGoSpace(t[i]) => t[i] = s[i]
                          /\ t[i] # "upper"
  BY <1>2 DEF IsGoSpace
<1>5. Shortens(s, t)
  <2> DEFINE h == [i \in DOMAIN t |-> i]
  <2>1. h \in [DOMAIN t -> DOMAIN s]
    BY <1>2
  <2>2. \A i \in DOMAIN t : t[i] = s[h[i]] \/ t[i] \in {"blank", "lower"}
    BY <1>2
  <2>3. \A i, j \in DOMAIN t : h[i] = h[j] => i = j
    OBVIOUS
  <2> HIDE DEF h
  <2> QED  BY <1>3, <2>1, <2>2, <2>3, PickingShortens
<1>6. TrimmedText(s) => TrimmedText(t)
  <2> SUFFICES ASSUME TrimmedText(s), t # <<>> PROVE ~IsGoSpace(t[1]) /\ ~IsGoSpace(t[Len(t)])
    BY DEF TrimmedText
  <2>1. Len(s) >= 1 /\ s # <<>>
    BY <1>1, <1>3, EmptySeq
  <2> QED  BY <1>1, <1>3, <1>4, <2>1 DEF TrimmedText
<1>7. CollapsedText(s) => CollapsedText(t)
  <2> SUFFICES ASSUME CollapsedText(s), NEW i \in DOMAIN s, IsGoSpace(t[i])
               PROVE  t[i] = "blank" /\ (i = 1 \/ ~IsGoSpace(t[i - 1]))
    BY <1>2 DEF CollapsedText
  <2>1. i = 1 \/ i - 1 \in DOMAIN s
    BY <1>1
  <2> QED  BY <1>4, <2>1 DEF CollapsedText
<1>8. LowercaseText(t)
  BY <1>2, <1>4 DEF LowercaseText
<1> QED  BY <1>5, <1>6, <1>7, <1>8 DEF t

LEMMA LowercaseKeeps ==
  ASSUME NEW s \in Seq(Classes), LowercaseText(s)
  PROVE  LowercaseAscii(s) = s
<1>1. s = [i \in DOMAIN s |-> s[i]]
  BY TextPositions
<1>2. \A i \in DOMAIN s : (IF s[i] = "upper" THEN "lower" ELSE s[i]) = s[i]
  BY DEF LowercaseText
<1> QED  BY <1>1, <1>2 DEF LowercaseAscii

-----------------------------------------------------------------------------
\* The normalizations of a text that are asked for, in the order of the code.
NormalText(s, trim, collapse, lowercase) ==
  Applied(lowercase, LowercaseAscii, Applied(collapse, CollapseWhitespace, Applied(trim, TrimGoSpace, s)))

(* Shortening twice shortens.                                              *)
LEMMA ShortensTwice ==
  ASSUME NEW s \in Seq(Classes), NEW t, NEW u, Shortens(s, t), Shortens(t, u)
  PROVE  Shortens(s, u)
<1>1. t \in Seq(Classes) /\ u \in Seq(Classes)
  BY DEF Shortens
<1>2. ByteLength(s) \in Nat /\ ByteLength(t) \in Nat /\ ByteLength(u) \in Nat
  BY <1>1, TextPositions
<1> QED  BY <1>2 DEF Shortens

LEMMA ShortensItself == ASSUME NEW s \in Seq(Classes) PROVE Shortens(s, s)
BY TextPositions DEF Shortens

(* A normalized text is no longer than the text, as well-formed, and       *)
(* normalized again it stays as it is: each normalization keeps what the   *)
(* earlier ones established.                                               *)
LEMMA NormalIsNormal ==
  ASSUME NEW s \in Seq(Classes), NEW trim \in BOOLEAN, NEW collapse \in BOOLEAN, NEW lowercase \in BOOLEAN
  PROVE  LET w == NormalText(s, trim, collapse, lowercase)
         IN  Shortens(s, w) /\ NormalText(w, trim, collapse, lowercase) = w
<1> DEFINE u == Applied(trim, TrimGoSpace, s)
           v == Applied(collapse, CollapseWhitespace, u)
           w == Applied(lowercase, LowercaseAscii, v)
<1>1. Shortens(s, u) /\ u \in Seq(Classes) /\ (trim => TrimmedText(u))
  BY TrimTrims, ShortensItself DEF Applied, Shortens
<1> HIDE DEF u
<1>2. /\ Shortens(u, v) /\ v \in Seq(Classes)
      /\ trim => TrimmedText(v)
      /\ collapse => CollapsedText(v)
  BY <1>1, CollapseCollapses, ShortensItself DEF Applied, Shortens
<1> HIDE DEF v
<1>3. /\ Shortens(v, w) /\ w \in Seq(Classes)
      /\ trim => TrimmedText(w)
      /\ collapse => CollapsedText(w)
      /\ lowercase => LowercaseText(w)
  BY <1>2, LowercaseLowers, ShortensItself DEF Applied, Shortens
<1>4. NormalText(s, trim, collapse, lowercase) = w
  BY DEF NormalText, w, v, u
<1> HIDE DEF w
<1>5. Shortens(s, w)
  BY <1>1, <1>2, <1>3, ShortensTwice
<1>6. /\ Applied(trim, TrimGoSpace, w) = w
      /\ Applied(collapse, CollapseWhitespace, w) = w
      /\ Applied(lowercase, LowercaseAscii, w) = w
  BY <1>3, TrimKeeps, CollapseKeeps, LowercaseKeeps DEF Applied
<1>7. NormalText(w, trim, collapse, lowercase) = w
  BY <1>6 DEF NormalText
<1> QED  BY <1>4, <1>5, <1>7

\* The request of a normalization.
NormalizeFields(s, trim, collapse, lowercase) ==
  [value |-> String(s), trim |-> Boolean(trim),
   collapse_whitespace |-> Boolean(collapse), lowercase_ascii |-> Boolean(lowercase)]

(* Normalize fails on a text that is malformed or too long, and returns    *)
(* the normal text otherwise.                                              *)
LEMMA NormalizeGives ==
  ASSUME NEW s, NEW trim, NEW collapse, NEW lowercase
  PROVE  Normalize(Payload(NormalizeFields(s, trim, collapse, lowercase))) =
           IF ~IsUtf8(s) THEN Fail("invalid_utf8", "value")
           ELSE IF ~(ByteLength(s) <= MaxStringBytes) THEN Fail("input_too_large", "value")
           ELSE Ok([text |-> NormalText(s, trim, collapse, lowercase)])
<1> DEFINE f == NormalizeFields(s, trim, collapse, lowercase)
           O == {"trim", "collapse_whitespace", "lowercase_ascii"}
<1>1. /\ DOMAIN f = {"value", "trim", "collapse_whitespace", "lowercase_ascii"}
      /\ f["value"] = String(s) /\ f["trim"] = Boolean(trim)
      /\ f["collapse_whitespace"] = Boolean(collapse) /\ f["lowercase_ascii"] = Boolean(lowercase)
  BY DEF NormalizeFields
<1> HIDE DEF f
<1>2. Object(Payload(f), <<"value">>, O) = Ok(f)
  <2> DEFINE R == <<"value">>
  <2>1. DOMAIN R = 1 .. 1 /\ R[1] = "value"
    OBVIOUS
  <2>2. f["value"].type # "null"
    BY <1>1 DEF String
  <2> HIDE DEF R
  <2>3. ToSet(R) = {"value"}
    BY <2>1 DEF ToSet
  <2>4. Object(Payload(f), R, O) = Ok(f)
    BY <1>1, <2>1, <2>2, <2>3, ObjectHolds
  <2> QED  BY <2>4 DEF R
<1>3. Text(f, "value") = Ok(String(s)) /\ Ok(String(s)).result.text = s /\ Ok(String(s)).ok = TRUE
  BY <1>1, TextRead, ZenonT(60)
<1>4. ASSUME NEW k \in DOMAIN f, NEW b, f[k] = Boolean(b)
      PROVE  Optional(f, k, "boolean", FALSE) = Ok(b)
  BY <1>4 DEF Optional, Boolean, Check
<1>5. /\ Optional(f, "trim", "boolean", FALSE) = Ok(trim)
      /\ Optional(f, "collapse_whitespace", "boolean", FALSE) = Ok(collapse)
      /\ Optional(f, "lowercase_ascii", "boolean", FALSE) = Ok(lowercase)
  BY <1>1, <1>4
<1>6. \A x : Ok(x).ok = TRUE /\ Ok(x).result = x
  BY DEF Ok
<1>7. Normalize(Payload(f)) =
        IF ~IsUtf8(s) THEN Fail("invalid_utf8", "value")
        ELSE IF ~(ByteLength(s) <= MaxStringBytes) THEN Fail("input_too_large", "value")
        ELSE Ok([text |-> Applied(lowercase, LowercaseAscii,
                     Applied(collapse, CollapseWhitespace, Applied(trim, TrimGoSpace, s)))])
  BY <1>2, <1>3, <1>5, <1>6 DEF Normalize, Then, Check
<1> QED  BY <1>7 DEF f, NormalText

(* The empty text is short, well-formed and a prefix and suffix of any.    *)
LEMMA EmptyText ==
  ASSUME NEW s \in Seq(Classes)
  PROVE  /\ ByteLength(<<>>) = 0 /\ IsUtf8(<<>>)
         /\ IsPrefix(<<>>, s) /\ IsSuffix(<<>>, s)
<1>1. ByteLength(<<>>) = 0
  <2>1. DOMAIN <<>> = {} /\ Len(<<>>) = 0
    OBVIOUS
  <2>2. /\ {i \in DOMAIN <<>> : Width((<<>>)[i]) > 1} = {}
        /\ {i \in DOMAIN <<>> : Width((<<>>)[i]) > 2} = {}
    BY <2>1
  <2> QED  BY <2>1, <2>2, FS_EmptySet DEF ByteLength
<1>2. IsUtf8(<<>>)
  BY DEF IsUtf8, ToSet
<1>3. ASSUME NEW n \in Nat, NEW t PROVE SubSeq(t, 1, 0) = <<>>
  BY SubSeqEmpty
<1>4. IsPrefix(<<>>, s)
  <2>1. Len(<<>>) = 0 /\ Len(s) \in Nat
    BY TextPositions
  <2> QED  BY <1>3, <2>1 DEF IsPrefix
<1>5. IsSuffix(<<>>, s)
  <2>1. Reverse(<<>>) = <<>>
    BY DEF Reverse
  <2>2. Len(Reverse(s)) = Len(s) /\ Len(s) \in Nat
    <3>1. Reverse(s) = [i \in 1 .. Len(s) |-> s[(Len(s) - i) + 1]] /\ Len(s) \in Nat
      BY TextPositions DEF Reverse
    <3>2. DOMAIN Reverse(s) = 1 .. Len(s)
      BY <3>1
    <3>3. Reverse(s) \in Seq(Classes)
      <4>1. \A i \in 1 .. Len(s) : s[(Len(s) - i) + 1] \in Classes
        BY <3>1, ElementOfSeq
      <4> QED  BY <3>1, <4>1
    <3> QED  BY <3>1, <3>2, <3>3, LenProperties
  <2>3. SubSeq(<<>>, 1, 0) = <<>> /\ SubSeq(Reverse(s), 1, 0) = <<>> /\ Len(<<>>) = 0
    BY <1>3
  <2> QED  BY <2>1, <2>2, <2>3 DEF IsSuffix, IsPrefix
<1> QED  BY <1>1, <1>2, <1>4, <1>5

(* A well-formed text within a rule's bytes has no violations.             *)
LEMMA ValidateGives ==
  ASSUME NEW w \in Seq(Classes), IsUtf8(w), NEW n \in 0 .. MaxStringBytes, ByteLength(w) <= n
  PROVE  LET limit == [type |-> "number", value |-> n]
             rules == [type |-> "object", fields |-> [max_bytes |-> limit]]
         IN  Validate(Payload([value |-> String(w), rules |-> rules])) = Ok([violations |-> <<>>])
<1> DEFINE limit == [type |-> "number", value |-> n]
           q == [max_bytes |-> limit]
           rules == [type |-> "object", fields |-> q]
           f == [value |-> String(w), rules |-> rules]
<1>1. /\ DOMAIN q = {"max_bytes"} /\ q["max_bytes"].type = "number" /\ q["max_bytes"].value = n
      /\ rules.type = "object" /\ rules.fields = q
      /\ DOMAIN f = {"value", "rules"} /\ f["value"] = String(w) /\ f["rules"] = rules /\ f.rules = rules
  OBVIOUS
<1> HIDE DEF limit, q, f
<1>2. Object(Payload(f), <<"value", "rules">>, {}) = Ok(f)
  <2> DEFINE R == <<"value", "rules">>
  <2>1. DOMAIN R = 1 .. 2 /\ R[1] = "value" /\ R[2] = "rules"
    OBVIOUS
  <2>2. f["value"].type # "null" /\ f["rules"].type # "null"
    BY <1>1 DEF String
  <2> HIDE DEF R, rules
  <2>3. ToSet(R) = {"value", "rules"}
    BY <2>1 DEF ToSet
  <2>4. Object(Payload(f), R, {}) = Ok(f)
    BY <1>1, <2>1, <2>2, <2>3, ObjectHolds
  <2> QED  BY <2>4 DEF R
<1>3. Object(f.rules, <<>>, TextRules \cup CountRules \cup FlagRules) = Ok(q)
  <2> HIDE DEF rules
  <2>1. "max_bytes" \in TextRules \cup CountRules \cup FlagRules
    BY DEF CountRules
  <2>2. DOMAIN <<>> = {}
    OBVIOUS
  <2> QED  BY <1>1, <2>1, <2>2, ObjectDecoded
<1> HIDE DEF rules
<1>4. Text(f, "value") = Ok(String(w)) /\ Ok(String(w)).result.text = w /\ Ok(String(w)).ok = TRUE
  <2>1. f["value"] = String(w)
    BY <1>1
  <2> QED  BY <2>1, TextRead, ZenonT(60)
<1>5. Typed(q, TextRules, "string") /\ Typed(q, CountRules, "number") /\ Typed(q, FlagRules, "boolean")
  BY <1>1 DEF Typed, TextRules, FlagRules
<1>6. /\ Rule(q, "prefix", <<>>) = <<>> /\ Rule(q, "suffix", <<>>) = <<>>
      /\ Rule(q, "max_bytes", 0) = n /\ Rule(q, "min_bytes", 0) = 0
      /\ Rule(q, "max_runes", 0) = 0 /\ Rule(q, "min_runes", 0) = 0
      /\ Rule(q, "required", FALSE) = FALSE /\ Rule(q, "ascii", FALSE) = FALSE
      /\ Rule(q, "forbid_control", FALSE) = FALSE /\ Rule(q, "forbid_whitespace", FALSE) = FALSE
  BY <1>1 DEF Rule
<1>7. /\ ByteLength(w) \in Nat /\ Len(w) \in Nat /\ MaxStringBytes \in Nat /\ n \in Nat
      /\ ByteLength(w) <= MaxStringBytes /\ n <= MaxStringBytes
  BY TextPositions, LimitAssumption
<1>8. \A t \in {w, Rule(q, "prefix", <<>>), Rule(q, "suffix", <<>>)} :
        IsUtf8(t) /\ ByteLength(t) <= MaxStringBytes
  BY <1>6, <1>7, EmptyText
<1>9. /\ \A k \in CountRules : Rule(q, k, 0) \in 0 .. MaxStringBytes
      /\ Rule(q, "max_bytes", 0) > 0 => Rule(q, "min_bytes", 0) <= Rule(q, "max_bytes", 0)
      /\ Rule(q, "max_runes", 0) > 0 => Rule(q, "min_runes", 0) <= Rule(q, "max_runes", 0)
  BY <1>6, <1>7 DEF CountRules
<1>10. Violations(w, q) = <<>>
  <2>1. /\ ~(ByteLength(w) < 0) /\ ~(n > 0 /\ ByteLength(w) > n) /\ ~(Len(w) < 0) /\ ~(0 > 0 /\ Len(w) > 0)
        /\ IsPrefix(<<>>, w) /\ IsSuffix(<<>>, w)
    BY <1>7, EmptyText
  <2>2. <<>> \o <<>> = <<>>
    BY ConcatEmptySeq
  <2>3. /\ IsPrefix(Rule(q, "prefix", <<>>), w) /\ IsSuffix(Rule(q, "suffix", <<>>), w)
    BY <1>6, <2>1
  <2> QED  BY <1>6, <2>1, <2>2, <2>3 DEF Violations
<1>11. \A x : Ok(x).ok = TRUE /\ Ok(x).result = x
  BY DEF Ok
<1>12. Validate(Payload(f)) = Ok([violations |-> Violations(w, q)])
  BY <1>2, <1>3, <1>4, <1>5, <1>8, <1>9, <1>11 DEF Validate, Then, Check
<1> QED  BY <1>10, <1>12 DEF f, rules, q, limit

(***************************************************************************)
(* Whatever text could be normalized, with any of the three options: its   *)
(* normal form is well-formed, no longer, and its own normal form          *)
(* (Normalize), and a rule for the bytes of the text accepts it (Validate).*)
(***************************************************************************)
THEOREM NormalFormsAreFixed ==
  ASSUME NEW s \in Seq(Classes), NEW trim \in BOOLEAN, NEW collapse \in BOOLEAN, NEW lowercase \in BOOLEAN
  PROVE  NormalTextIsFixed(s, trim, collapse, lowercase)
<1> DEFINE N(t) == Call("text.normalize", Payload(NormalizeFields(t, trim, collapse, lowercase)))
           w == NormalText(s, trim, collapse, lowercase)
           limit == [type |-> "number", value |-> ByteLength(s)]
           rules == [type |-> "object", fields |-> [max_bytes |-> limit]]
           V(t) == Call("text.validate", Payload([value |-> String(t), rules |-> rules]))
<1>1. NormalTextIsFixed(s, trim, collapse, lowercase)
        <=> (N(s).ok => N(N(s).result.text) = N(s) /\ V(N(s).result.text) = Ok([violations |-> <<>>]))
  BY DEF NormalTextIsFixed, NormalizeFields
<1> SUFFICES ASSUME N(s).ok
             PROVE  N(N(s).result.text) = N(s) /\ V(N(s).result.text) = Ok([violations |-> <<>>])
  BY <1>1
<1> HIDE DEF w
<1>2. \A x : Ok(x).ok = TRUE /\ Ok(x).result = x
  BY DEF Ok
<1>3. ASSUME NEW t PROVE Execute("text.normalize", Payload(NormalizeFields(t, trim, collapse, lowercase)))
                          = Normalize(Payload(NormalizeFields(t, trim, collapse, lowercase)))
  BY DEF Execute
<1>4. N(s) = Normalize(Payload(NormalizeFields(s, trim, collapse, lowercase))) /\ 1 <= MaxDepth
  BY <1>3, CallReturns
<1>5. IsUtf8(s) /\ ByteLength(s) <= MaxStringBytes /\ N(s) = Ok([text |-> w])
  <2>1. Fail("invalid_utf8", "value").ok = FALSE /\ Fail("input_too_large", "value").ok = FALSE
    BY DEF Fail
  <2> QED  BY <1>4, <2>1, NormalizeGives DEF w
<1>6. N(s).result.text = w
  BY <1>2, <1>5
<1>7. /\ w \in Seq(Classes) /\ ByteLength(w) <= ByteLength(s) /\ IsUtf8(w)
      /\ NormalText(w, trim, collapse, lowercase) = w
  BY <1>5, NormalIsNormal DEF Shortens, w
<1>8. ByteLength(s) \in Nat /\ ByteLength(w) \in Nat /\ MaxStringBytes \in Nat /\ ByteLength(w) <= MaxStringBytes
  BY <1>5, <1>7, TextPositions, LimitAssumption
<1>9. N(w) = Ok([text |-> w])
  <2>1. Normalize(Payload(NormalizeFields(w, trim, collapse, lowercase))) = Ok([text |-> w])
    BY <1>7, <1>8, NormalizeGives
  <2> QED  BY <1>2, <1>3, <1>4, <2>1, CallReturns
<1>10. V(w) = Ok([violations |-> <<>>])
  <2> DEFINE g == [value |-> String(w), rules |-> rules]
  <2>1. ByteLength(s) \in 0 .. MaxStringBytes
    BY <1>5, <1>8
  <2>2. Validate(Payload(g)) = Ok([violations |-> <<>>])
    BY <1>7, <2>1, ValidateGives
  <2> HIDE DEF g
  <2>3. Execute("text.validate", Payload(g)) = Ok([violations |-> <<>>])
    BY <2>2 DEF Execute
  <2>4. Call("text.validate", Payload(g)) = Ok([violations |-> <<>>])
    BY <1>2, <1>4, <2>3, CallReturns
  <2> QED  BY <2>4 DEF g
<1> QED  BY <1>5, <1>6, <1>9, <1>10

(***************************************************************************)
(* Whatever text could be encoded is decoded to itself, at any length,     *)
(* unless it starts with U+FEFF (Base64Encode, Base64Decode).              *)
(***************************************************************************)
THEOREM EncodingsInvert ==
  ASSUME NEW s \in Seq(Classes), ~IsPrefix(<<"bom">>, s)
  PROVE  EncodedTextFits(s)
<1> DEFINE f == [text |-> String(s)]
           E == Call("encoding.base64.encode", Payload(f))
           d == [bytes |-> ByteLength(s), origin |-> <<"utf8", s>>]
           g == [encoded |-> E.result.encoded]
<1> SUFFICES ASSUME E.ok
             PROVE  Call("encoding.base64.decode", Payload(g)) = Ok([text |-> s])
  BY DEF EncodedTextFits
<1>1. Object(Payload(f), <<"text">>, {}) = Ok(f)
  <2> DEFINE R == <<"text">>
  <2>1. DOMAIN R = 1 .. 1 /\ R[1] = "text"
    OBVIOUS
  <2>2. DOMAIN f = {"text"} /\ f["text"].type # "null"
    BY DEF String
  <2> HIDE DEF R, f
  <2>3. ToSet(R) = {"text"}
    BY <2>1 DEF ToSet
  <2>4. Object(Payload(f), R, {}) = Ok(f)
    BY <2>1, <2>2, <2>3, ObjectHolds
  <2> QED  BY <2>4 DEF R
<1>2. Text(f, "text") = Ok(String(s)) /\ Ok(String(s)).result.text = s /\ Ok(String(s)).ok = TRUE
  <2>1. f["text"] = String(s)
    OBVIOUS
  <2> HIDE DEF f
  <2> QED  BY <2>1, TextRead
<1> HIDE DEF f, E, d, g
<1>3. E = Base64Encode(Payload(f)) /\ 1 <= MaxDepth
  <2>1. E = Execute("encoding.base64.encode", Payload(f)) /\ 1 <= MaxDepth
    BY CallReturns DEF E
  <2>2. Execute("encoding.base64.encode", Payload(f)) = Base64Encode(Payload(f))
    BY DEF Execute
  <2> QED  BY <2>1, <2>2
<1>4. Base64Encode(Payload(f)) =
        IF ~IsUtf8(s) THEN Fail("invalid_utf8", "text")
        ELSE IF ~(ByteLength(s) <= MaxStringBytes) THEN Fail("input_too_large", "text")
        ELSE Ok([encoded |-> Encoded(d)])
  <2>1. Ok(f).ok = TRUE /\ Ok(f).result = f
    BY DEF Ok
  <2> QED  BY <1>1, <1>2, <2>1 DEF Base64Encode, Then, Check, d
<1>5. ByteLength(s) <= MaxStringBytes /\ E = Ok([encoded |-> Encoded(d)])
  BY <1>3, <1>4 DEF Fail
<1>6. g = [encoded |-> Encoded(d)]
  BY <1>5 DEF g, Ok
<1>7. Object(Payload(g), <<"encoded">>, {}) = Ok(g)
  <2> DEFINE R == <<"encoded">>
  <2>1. DOMAIN R = 1 .. 1 /\ R[1] = "encoded"
    OBVIOUS
  <2>2. DOMAIN g = {"encoded"} /\ g["encoded"].type # "null"
    BY <1>6 DEF Encoded
  <2> HIDE DEF R
  <2>3. ToSet(R) = {"encoded"}
    BY <2>1 DEF ToSet
  <2>4. Object(Payload(g), R, {}) = Ok(g)
    BY <2>1, <2>2, <2>3, ObjectHolds
  <2> QED  BY <2>4 DEF R
<1>8. Binary(g, "encoded", MaxStringBytes) = Ok(d)
  <2>1. g["encoded"] = Encoded([bytes |-> ByteLength(s), origin |-> <<"utf8", s>>])
    BY <1>6 DEF d
  <2>2. ByteLength(s) \in Int /\ MaxStringBytes \in Int
    BY TextPositions, LimitAssumption
  <2> QED  BY <1>5, <2>1, <2>2, BinaryFits DEF d
<1>9. Utf8Decoded(s) = s
  <2> SUFFICES ASSUME s # <<>>, Head(s) = "bom" PROVE IsPrefix(<<"bom">>, s)
    BY DEF Utf8Decoded
  <2>1. Len(s) \in Nat /\ Len(s) >= 1 /\ s[1] = "bom"
    BY EmptySeq, LenProperties
  <2>2. SubSeq(<<"bom">>, 1, 1) = SubSeq(s, 1, 1)
    <3>1. SubSeq(s, 1, 1) = <<s[1]>>
      <4> DEFINE m == SubSeq(s, 1, 1)
      <4>1. \A i \in 1 .. 1 : s[i] \in Classes
        BY <2>1, ElementOfSeq
      <4>2. m \in Seq(Classes) /\ Len(m) = 1 /\ m[1] = s[1]
        BY <4>1, SubSeqProperties
      <4> HIDE DEF m
      <4>3. m = <<m[1]>>
        BY <4>2
      <4> QED  BY <4>2, <4>3 DEF m
    <3> QED  BY <2>1, <3>1
  <2> QED  BY <2>1, <2>2 DEF IsPrefix
<1>10. Base64Decode(Payload(g)) = Ok([text |-> s])
  <2>1. /\ Ok(g).ok = TRUE /\ Ok(g).result = g /\ Ok(d).ok = TRUE /\ Ok(d).result = d
        /\ Head(d.origin) = "utf8" /\ d.origin[2] = s
    BY DEF Ok, d
  <2> QED  BY <1>7, <1>8, <1>9, <2>1 DEF Base64Decode, Then, Check
<1> QED
  <2>1. Execute("encoding.base64.decode", Payload(g)) = Ok([text |-> s])
    BY <1>10 DEF Execute
  <2>2. Ok([text |-> s]).ok
    BY DEF Ok
  <2> QED  BY <1>3, <2>1, <2>2, CallReturns

(***************************************************************************)
(* The limits of the native operations fit together for every call routed  *)
(* to an adapter, whatever the limits and the lengths of the keys are      *)
(* (RoundTrips).                                                           *)
(***************************************************************************)
THEOREM OperationsFitTogether == GuestSpec => []RoundTrips
<1>1. CiphertextsFit
  <2>1. Lengths \subseteq Nat
    BY DEF Lengths
  <2> QED  BY <2>1, CiphertextLimitsFit DEF CiphertextsFit
<1>2. ASSUME NEW s \in Texts PROVE s \in Seq(Classes)
  <2>1. PICK n \in 0 .. 4 : s \in [1 .. n -> Classes]
    BY DEF Texts
  <2> QED  BY <2>1
<1>3. EncodedTextsFit
  BY <1>2, EncodingsInvert DEF EncodedTextsFit
<1>4. NormalTextsAreFixed
  BY <1>2, NormalFormsAreFixed DEF NormalTextsAreFixed
<1>5. RoundTrips
  BY <1>1, <1>3, <1>4 DEF RoundTrips
<1> QED  BY <1>5, PTL
=============================================================================
