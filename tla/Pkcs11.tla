------------------------------- MODULE Pkcs11 -------------------------------
(***************************************************************************)
(* Two layers of the PKCS#11 backend: the provider over the objects of a   *)
(* token, and the binding that drives the C functions on one session.      *)
(* Each is modelled over an abstraction of what it calls (the provider's   *)
(* token, the binding's C functions) and neither writes the other's        *)
(* variables, so each behaviour follows one layer, chosen at the start.    *)
(***************************************************************************)
EXTENDS Pkcs11Provider, Cryptoki

VARIABLE layer   \* the layer this behaviour follows

vars == <<layer, providerVars, cryptokiVars>>

Init ==
  /\ layer \in {"provider", "binding"}
  /\ ProviderInit /\ CryptokiInit
  /\ layer # "binding" => present = {} /\ value = [t \in Types |-> NoAttribute]

Next ==
  \/ layer = "provider" /\ ProviderNext /\ UNCHANGED <<layer, cryptokiVars>>
  \/ layer = "binding" /\ CryptokiNext /\ UNCHANGED <<layer, providerVars>>

Spec == Init /\ [][Next]_vars
=============================================================================
