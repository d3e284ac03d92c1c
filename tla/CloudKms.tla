------------------------------ MODULE CloudKms ------------------------------
(***************************************************************************)
(* A cloud KMS repository (src/encrypt/common/kms.ts and the AWS, Google   *)
(* and Azure adapters that extend it): concurrent calls share one lazily   *)
(* created SDK client, whose creation may fail, and each call may be       *)
(* aborted while its operation goes on in the background                   *)
(* (runWithSignal in src/encrypt/utilities/utilities.ts).                  *)
(*                                                                         *)
(* The provider is external: a managed key is its number of versions and   *)
(* whether it is enabled; an API request may fail at any time.             *)
(***************************************************************************)
EXTENDS Naturals, Sequences

CONSTANTS
  Calls,        \* calls made of one repository
  Undefined

ASSUME KmsAssumption == Undefined \notin Nat \cup {"aborted", "failed", "done"}

\* "cipher" stands for encrypt, decrypt, sign and verify: one request each.
Operations == {"getKey", "rotateKey", "deactivateKey", "cipher"}

VARIABLES
  api,            \* KmsRepositoryBase.#api: the attempt that created it
  initialization, \* #apiInitialization: the attempt under way
  attempt,        \* attempt[n]: "pending", "failed" or "ok"
  call,           \* call[c]: what each call is doing and what it got
  version,        \* the managed key's current version (provider)
  enabled         \* the managed key is enabled (provider)

kmsVars == <<api, initialization, attempt, call, version, enabled>>

NoCall == [pc |-> "idle", op |-> Undefined, waits |-> Undefined,
           joined |-> Undefined, client |-> Undefined, made |-> 0,
           got |-> Undefined, described |-> 0]

\* The client may have been injected (0); otherwise the first call creates it.
KmsInit ==
  /\ api \in {Undefined, 0}
  /\ initialization = Undefined
  /\ attempt = << >>
  /\ call = [c \in Calls |-> NoCall]
  /\ version = 1
  /\ enabled = TRUE

\* Mistaken: every caller that finds no client starts an attempt of its own.
InitializationForEach == Len(attempt) + 1

\* The attempt a caller waits for when there is no client yet: the one under
\* way, or a new one.
InitializationFor == IF initialization # Undefined THEN initialization
                     ELSE Len(attempt) + 1

\* A public method is called: runWithSignal refuses an aborted signal, and
\* #resolveApi finds the client or waits for an initialization.
Call(c, op) ==
  /\ call[c].pc = "idle"
  /\ \/ /\ call' = [call EXCEPT ![c].pc = "over", ![c].op = op, ![c].got = "aborted"]
        /\ UNCHANGED <<initialization, attempt>>
     \/ /\ api # Undefined
        /\ call' = [call EXCEPT ![c].pc = "request", ![c].op = op, ![c].client = api]
        /\ UNCHANGED <<initialization, attempt>>
     \/ /\ api = Undefined
        /\ initialization' = InitializationFor
        /\ attempt' = IF initialization' \in DOMAIN attempt THEN attempt
                      ELSE Append(attempt, "pending")
        /\ call' = [call EXCEPT ![c].pc = "waiting", ![c].op = op,
                                ![c].waits = initialization',
                                ![c].joined = attempt'[initialization']]
  /\ UNCHANGED <<api, version, enabled>>

\* createApi settles; a failure is forgotten so that a later call retries.
CreateApi(n) ==
  /\ attempt[n] = "pending"
  /\ \/ attempt' = [attempt EXCEPT ![n] = "ok"] /\ api' = n
     \/ attempt' = [attempt EXCEPT ![n] = "failed"] /\ UNCHANGED api
  /\ initialization' = Undefined
  /\ UNCHANGED <<call, version, enabled>>

\* A call's operation ends; a caller that was aborted has its answer already.
Over(r, result) == [r EXCEPT !.pc = "over",
                             !.got = IF @ = Undefined THEN result ELSE @]

\* The promise a call waited for settles.
Resume(c) ==
  /\ call[c].pc = "waiting"
  /\ attempt[call[c].waits] # "pending"
  /\ call' = [call EXCEPT ![c] =
       IF attempt[@.waits] = "failed" THEN Over(@, "failed")
       ELSE [@ EXCEPT !.pc = "request", !.client = call[c].waits]]
  /\ UNCHANGED <<api, initialization, attempt, version, enabled>>

\* The provider's side of rotateKey and disableKey.
Rotate(c) ==
  /\ call[c].pc = "request"
  /\ call[c].op = "rotateKey"
  /\ version' = version + 1
  /\ call' = [call EXCEPT ![c].pc = "describe", ![c].made = version']
  /\ UNCHANGED <<api, initialization, attempt, enabled>>

Disable(c) ==
  /\ call[c].pc = "request"
  /\ call[c].op = "deactivateKey"
  /\ enabled' = FALSE
  /\ call' = [call EXCEPT ![c] = Over(@, "done")]
  /\ UNCHANGED <<api, initialization, attempt, version>>

\* describeKey, for getKey and after a rotation.
Describe(c) ==
  /\ \/ call[c].pc = "request" /\ call[c].op = "getKey"
     \/ call[c].pc = "describe"
  /\ call' = [call EXCEPT ![c] = Over([@ EXCEPT !.described = version], "done")]
  /\ UNCHANGED <<api, initialization, attempt, version, enabled>>

\* encrypt, decrypt, sign and verify: one request each.
Cipher(c) ==
  /\ call[c].pc = "request"
  /\ call[c].op = "cipher"
  /\ enabled
  /\ call' = [call EXCEPT ![c] = Over(@, "done")]
  /\ UNCHANGED <<api, initialization, attempt, version, enabled>>

\* The provider refuses or the request is lost: after a rotation, its result.
RequestFails(c) ==
  /\ call[c].pc \in {"request", "describe"}
  /\ call' = [call EXCEPT ![c] = Over(@, "failed")]
  /\ UNCHANGED <<api, initialization, attempt, version, enabled>>

\* The caller's signal aborts: it is answered, the operation goes on.
AbortCall(c) ==
  /\ call[c].pc \in {"waiting", "request", "describe"}
  /\ call[c].got = Undefined
  /\ call' = [call EXCEPT ![c].got = "aborted"]
  /\ UNCHANGED <<api, initialization, attempt, version, enabled>>

KmsNext ==
  \/ \E c \in Calls, op \in Operations : Call(c, op)
  \/ \E n \in DOMAIN attempt : CreateApi(n)
  \/ \E c \in Calls : \/ Resume(c) \/ Rotate(c) \/ Disable(c) \/ Describe(c)
                      \/ Cipher(c) \/ RequestFails(c) \/ AbortCall(c)

KmsSpec == KmsInit /\ [][KmsNext]_kmsVars

---------------------------------------------------------------------------
(***************************************************************************)
(* All calls of a repository reach the provider through one client,        *)
(* however many race for it before it exists; no call waits for an         *)
(* initialization that had failed before it came; and a rotation reports   *)
(* the version it made or a newer one (#resolveApi, rotateKey).            *)
(***************************************************************************)
OneClientServesAll ==
  /\ \A c, d \in Calls :
       call[c].client # Undefined /\ call[d].client # Undefined =>
         call[c].client = call[d].client
  /\ \A c \in Calls : call[c].joined \in {Undefined, "pending"}
  /\ \A c \in Calls : call[c].got = "done" => call[c].described >= call[c].made
=============================================================================
