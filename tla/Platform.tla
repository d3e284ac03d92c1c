------------------------------ MODULE Platform ------------------------------
(***************************************************************************)
(* The parts of a service process that keep state of their own and share   *)
(* none of it: the configuration loader, the servers with their            *)
(* middleware, a cloud KMS repository, the in-process crypto provider and  *)
(* the logger.  Since no variable is written by two of them, a property of *)
(* one part holds in every interleaving if it holds while the others       *)
(* stutter: each behaviour follows one part, chosen at the start.          *)
(***************************************************************************)
EXTENDS Config, Services, CloudKms, LocalCrypto, Logging

VARIABLE part   \* the part this behaviour follows

vars == <<part, configVars, serviceVars, kmsVars, cryptoVars, loggingVars>>

Init ==
  /\ part \in {"config", "services", "kms", "crypto", "logging"}
  /\ ConfigInit /\ ServicesInit /\ KmsInit /\ CryptoInit /\ LoggingInit
  /\ part # "config" => env = << >>
  /\ part # "kms" => api = Undefined

Next ==
  \/ /\ part = "config"
     /\ ConfigNext
     /\ UNCHANGED <<part, serviceVars, kmsVars, cryptoVars, loggingVars>>
  \/ /\ part = "services"
     /\ ServicesNext
     /\ UNCHANGED <<part, configVars, kmsVars, cryptoVars, loggingVars>>
  \/ /\ part = "kms"
     /\ KmsNext
     /\ UNCHANGED <<part, configVars, serviceVars, cryptoVars, loggingVars>>
  \/ /\ part = "crypto"
     /\ CryptoNext
     /\ UNCHANGED <<part, configVars, serviceVars, kmsVars, loggingVars>>
  \/ /\ part = "logging"
     /\ LoggingNext
     /\ UNCHANGED <<part, configVars, serviceVars, kmsVars, cryptoVars>>

Spec == Init /\ [][Next]_vars
=============================================================================
