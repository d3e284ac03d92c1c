------------------------------ MODULE MCGuest ------------------------------
EXTENDS Guest, TLC

MCOperations == <<[name |-> "normalize", capability |-> "portable"],
                  [name |-> "sha256", capability |-> "crypto"]>>
MCErrors == <<"invalid_json", "internal">>
MCHost == [componentVersion |-> "0.1.0", witPackage |-> "goforge"]

Artifact(path, c) == [path |-> path, sha256 |-> c]

MCRelease == [wellFormed |-> TRUE, componentVersion |-> "0.1.0", witPackage |-> "goforge",
              source |-> Artifact("source", "new"), glue |-> Artifact("glue", "new"),
              cores |-> <<Artifact("core", "new")>>, operations |-> MCOperations,
              capabilities |-> {"portable", "crypto"}]

\* The release, and others the host has to refuse.
MCManifests ==
  {MCRelease,
   [MCRelease EXCEPT !.componentVersion = "0.2.0"],
   [MCRelease EXCEPT !.cores = <<Artifact("glue", "new")>>],
   [MCRelease EXCEPT !.glue = Artifact("glue", "wide")]}

MCRequests == [c \in {"new", "old", "wide"} |-> IF c = "wide" THEN 2 ELSE 1]

MCGuest == [identity |-> "goforge", operations |-> MCOperations, errors |-> MCErrors,
            metadata |-> "present"]
MCGuests == {MCGuest, [MCGuest EXCEPT !.operations = Reverse(@)],
             [MCGuest EXCEPT !.errors = Tail(@)]}

\* The manifest approves the second name for one of the two operations.
MCAllowlist == [op \in {"normalize", "sha256"} |-> IF op = "sha256" THEN {1, 2} ELSE {1}]

MCLiterals == {{}, {"normalize"}, {"normalize", "sha256"}, {"foreign"}}
MCFunctions == SUBSET {"normalize", "sha256"}

MCCatalog == {"invalid_json", "unknown_field", "invalid_request", "invalid_base64", "invalid_utf8",
              "input_too_large", "invalid_key", "invalid_nonce", "authentication_failed",
              "cancellation_requested", "deadline_exceeded"}

\* The bundle and the adapters write no variable of each other, so that the
\* adapters need to move in one state of the bundle only: the release verified,
\* with nothing replaced or instantiated yet.
BundleRests == Verified /\ trusted = MCRelease /\ deployments = 0 /\ \A i \in Instances : instance[i].pc = "absent"

MCNext ==
  \/ AdapterInit /\ BundleNext /\ UNCHANGED adapterVars
  \/ /\ BundleRests /\ UNCHANGED bundleVars
     /\ AdapterNext \/ Route
     /\ RegistryOpen \/ UNCHANGED objectVars

MCSpec == GuestInit /\ [][MCNext]_guestVars

Symmetric == Permutations(Instances) \cup Permutations(Adapters)
=============================================================================
