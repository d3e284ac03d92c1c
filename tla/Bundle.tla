------------------------------- MODULE Bundle -------------------------------
(***************************************************************************)
(* The WASM release bundle: verification (src/wasm/manifest.ts), the       *)
(* generated component factory (src/wasm/component.ts) and the WASI host   *)
(* it gives the guest (src/wasm/wasi.ts).  A deployment may replace files  *)
(* at any time, so every read of an artifact is a step of its own.  The    *)
(* contents of a file are a model value, its SHA-256 digest is the         *)
(* contents themselves.                                                    *)
(***************************************************************************)
EXTENDS Naturals, Sequences, SequencesExt, FiniteSets, TLC

CONSTANTS
  ManifestPath,    \* locator.manifestPath
  Manifests,       \* the manifests a release process may publish
  Contents,        \* the contents an artifact may have
  Requests,        \* external: glue contents -> the core modules it asks for
  Guests,          \* external: the portable manifests a guest may export
  Host,            \* the WasmCompatibility the host was built with
  Package,         \* GOFORGE_PORTABLE_PACKAGE and GOFORGE_PORTABLE_VERSION
  Operations,      \* GOFORGE_ABI_V1_OPERATIONS, each with its capability
  Errors,          \* GOFORGE_ABI_ERROR_CATALOG, in order
  Instances,       \* instances the pool may create
  Missing,         \* no file, no cache entry
  Pending, Failed, \* a promise that has not settled, or has rejected
  MaxDeployments   \* bound on the files replaced

\* An ArtifactDescriptor, its digest checked to be one.
Artifacts == [path : STRING, sha256 : Contents]

ASSUME BundleAssumption ==
  /\ Requests \in [Contents -> Nat]
  /\ \A m \in Manifests : {m.source, m.glue} \subseteq Artifacts /\ m.cores \in Seq(Artifacts)

VARIABLES
  disk,        \* path -> what the file holds now
  deployments, \* external: how often a file was replaced
  trusted,     \* locator.manifestSha256
  verifier,    \* verifyWasmBundle: where it is, the descriptors still to read
  bundle,      \* the VerifiedWasmBundle, once it is there
  glueCache,   \* glueCache: the import of the glue
  moduleCache, \* moduleCache: name -> the module compiled
  instance     \* instance -> where it is, and the code it runs

bundleVars == <<disk, deployments, trusted, verifier, bundle, glueCache, moduleCache, instance>>

Descriptors(m) == <<m.source, m.glue>> \o m.cores
ArtifactPaths  == UNION {{d.path : d \in ToSet(Descriptors(m))} : m \in Manifests}
Paths          == ArtifactPaths \cup {ManifestPath}

NoBundle   == [source |-> Missing, glue |-> Missing, cores |-> <<>>]
NoInstance == [pc |-> "absent", glue |-> Missing, cores |-> <<>>]

BundleInit ==
  /\ \E m \in Manifests :
       /\ disk = [p \in Paths |-> IF p = ManifestPath THEN m ELSE CHOOSE c \in Contents : TRUE]
       /\ trusted = m
  /\ deployments = 0 /\ bundle = NoBundle
  /\ verifier = [pc |-> "pending", left |-> <<>>, verified |-> <<>>]
  /\ glueCache = Missing /\ moduleCache = <<>>
  /\ instance = [i \in Instances |-> NoInstance]

\* External: a file is replaced, or removed, by another release.
Deploy ==
  /\ deployments < MaxDeployments /\ deployments' = deployments + 1
  /\ \E p \in Paths :
       \E c \in (IF p = ManifestPath THEN Manifests ELSE Contents) \cup {Missing} :
          disk' = [disk EXCEPT ![p] = c]
  /\ UNCHANGED <<trusted, verifier, bundle, glueCache, moduleCache, instance>>

-----------------------------------------------------------------------------
(* verifyWasmBundle.                                                       *)

\* parseManifest: exact fields, known schema and ABI, every operation with
\* its own capability, every capability declared.
Parses(m) ==
  /\ m.wellFormed
  /\ Len(m.cores) > 0
  /\ m.operations = Operations
  /\ \A o \in ToSet(m.operations) : o.capability \in m.capabilities

\* validateCompatibility
Compatible(m) ==
  /\ m.componentVersion = Host.componentVersion
  /\ m.witPackage = Host.witPackage

\* assertRelativeArtifactPath and the test for two artifacts at one path.
DistinctPaths(m) ==
  LET paths == [n \in DOMAIN Descriptors(m) |-> Descriptors(m)[n].path]
  IN  IsInjective(paths)

\* The manifest is read, and trusted only once its digest is the locator's.
ReadManifest ==
  /\ verifier.pc = "pending"
  /\ verifier' = IF /\ disk[ManifestPath] = trusted
                    /\ Parses(trusted) /\ Compatible(trusted) /\ DistinctPaths(trusted)
                 THEN [pc |-> "reading", left |-> Descriptors(trusted), verified |-> <<>>]
                 ELSE [verifier EXCEPT !.pc = "failed"]
  /\ UNCHANGED <<disk, deployments, trusted, bundle, glueCache, moduleCache, instance>>

\* The next artifact is read, in order, and its digest compared; once all
\* are, the bundle holds the bytes that were compared.
ReadArtifact ==
  /\ verifier.pc = "reading"
  /\ LET d     == Head(verifier.left)
         rest  == Tail(verifier.left)
         bytes == disk[d.path]
         all   == Append(verifier.verified, bytes)
     IN  IF bytes # d.sha256
         THEN verifier' = [verifier EXCEPT !.pc = "failed"] /\ UNCHANGED bundle
         ELSE /\ verifier' = [pc |-> IF rest = <<>> THEN "verified" ELSE "reading",
                              left |-> rest, verified |-> all]
              /\ bundle' = IF rest # <<>> THEN bundle
                           ELSE [source |-> all[1], glue |-> all[2],
                                 cores |-> [n \in 1 .. Len(trusted.cores) |-> all[n + 2]]]
  /\ UNCHANGED <<disk, deployments, trusted, glueCache, moduleCache, instance>>

Verified == verifier.pc = "verified"

-----------------------------------------------------------------------------
(* createGeneratedComponentFactory.                                        *)

\* create: one import of the glue, from the verified bytes, serves every instance.
Create(i) ==
  /\ Verified /\ instance[i].pc = "absent"
  /\ instance' = [instance EXCEPT ![i].pc = "importing"]
  /\ glueCache' = IF glueCache = Missing THEN Pending ELSE glueCache
  /\ UNCHANGED <<disk, deployments, trusted, verifier, bundle, moduleCache>>

\* importGlue settles; what it caches is cached for good.
ImportGlue ==
  /\ glueCache = Pending
  /\ glueCache' \in {bundle.glue, Failed}
  /\ UNCHANGED <<disk, deployments, trusted, verifier, bundle, moduleCache, instance>>

\* A plausible slip: the core modules are loaded from the bundle's directory.
CoreModulesOnDisk(glue) ==
  [n \in 1 .. Requests[glue] |-> disk[trusted.cores[n].path]]

\* getCoreModule: from the cache, or compiled from the verified bytes.
CoreModules(glue) ==
  [n \in 1 .. Requests[glue] |->
     IF n \in DOMAIN moduleCache THEN moduleCache[n] ELSE bundle.cores[n]]

\* What the guest gets from the denied host: streams at their end, closed
\* ones, directories and files it may not touch; only exit throws.
StreamAnswers     == [read |-> "empty", blockingRead |-> "closed", write |-> "closed", subscribe |-> "ready"]
DescriptorAnswers == [isSameObject |-> "no", readDirectoryEntry |-> "empty", file |-> "not-permitted"]
HostAnswers       == [environment |-> "empty", terminals |-> "absent", preopens |-> "empty", poll |-> "ready",
                      clocks |-> "granted", random |-> "granted", exit |-> "throws"]
Answers           == StreamAnswers @@ DescriptorAnswers @@ HostAnswers

\* The generated instantiate: it may ask for a module the manifest does not
\* have, call the host, or fail; it returns the operations or not.
Instantiate(i) ==
  /\ instance[i].pc = "importing" /\ glueCache # Pending
  /\ IF glueCache = Failed \/ Requests[glueCache] > Len(bundle.cores)
     THEN instance' = [instance EXCEPT ![i] = NoInstance] /\ UNCHANGED moduleCache
     ELSE /\ moduleCache' = CoreModules(glueCache)
          /\ \E called \in DOMAIN Answers, exported \in BOOLEAN :
               instance' = [instance EXCEPT ![i] =
                 IF exported /\ Answers[called] # "throws"
                 THEN [pc |-> "checking", glue |-> glueCache, cores |-> CoreModules(glueCache)]
                 ELSE NoInstance]
  /\ UNCHANGED <<disk, deployments, trusted, verifier, bundle, glueCache>>

\* assertPortableContractManifest: the guest's own manifest names the
\* contract of the bundle, every operation and every error, in order.
Portable(guest) ==
  /\ guest.identity = Package
  /\ trusted.witPackage = guest.identity
  /\ guest.operations = Operations
  /\ guest.errors = Errors
  /\ guest.metadata = "present"

\* The instance goes to the pool, or is closed.
CheckInstance(i) ==
  /\ instance[i].pc = "checking"
  /\ \E guest \in Guests :
       instance' = [instance EXCEPT ![i].pc = IF Portable(guest) THEN "ready" ELSE "closed"]
  /\ UNCHANGED <<disk, deployments, trusted, verifier, bundle, glueCache, moduleCache>>

\* close: a later manifest or dispatch throws.
CloseInstance(i) ==
  /\ instance[i].pc = "ready"
  /\ instance' = [instance EXCEPT ![i].pc = "closed"]
  /\ UNCHANGED <<disk, deployments, trusted, verifier, bundle, glueCache, moduleCache>>

BundleNext ==
  \/ Deploy \/ ReadManifest \/ ReadArtifact \/ ImportGlue
  \/ \E i \in Instances : Create(i) \/ Instantiate(i) \/ CheckInstance(i) \/ CloseInstance(i)

-----------------------------------------------------------------------------
(* Properties.                                                             *)

(***************************************************************************)
(* Every instance runs the glue and the core modules whose digests are in  *)
(* the trusted manifest, whatever a deployment puts on the disk while the  *)
(* bundle is being verified, between the verification and the first        *)
(* instance, or between two instances: a file swapped after its digest was *)
(* checked is never executed.                                              *)
(***************************************************************************)
ExecutesOnlyVerified ==
  \A i \in Instances : instance[i].pc \in {"checking", "ready"} =>
    /\ instance[i].glue = trusted.glue.sha256
    /\ \A n \in DOMAIN instance[i].cores : instance[i].cores[n] = trusted.cores[n].sha256

=============================================================================
