------------------------------ MODULE MCPkcs11 ------------------------------
(***************************************************************************)
(* An instance of each layer.  The provider's token is provisioned with an *)
(* RSA key that has a certificate and no public key object, and an EC key  *)
(* pair.  Its calls are interchangeable.                                   *)
(***************************************************************************)
EXTENDS Pkcs11, TLC

ProvisionedUri == [label |-> <<"custom">>, id |-> NoId, class |-> "any"]
CurveUri       == [label |-> <<"curve">>, id |-> "02", class |-> "private"]

MCProvisioned ==
  {Object(<<"p", 1>>, "private", [label |-> <<"custom">>, id |-> "01"], "rsa", 3072, {"sign", "decrypt"}),
   Object(<<"p", 2>>, "cert", [label |-> <<"custom-cert">>, id |-> "01"], "rsa", 3072, {}),
   Object(<<"q", 1>>, "private", [label |-> <<"curve">>, id |-> "02"], "ec", 0, {"derive"})}

MCReferences == {ProvisionedUri, [label |-> <<"GoForge-rsa", "s">>, id |-> NoId, class |-> "any"]}
MCMechanisms == {"AesKeyGen", "RsaPkcsKeyPairGen", "EcKeyPairGen", "AesGcm", "RsaPkcs",
                 "Sha256RsaPkcsPss", "RsaPkcsPss", "EdDsa", "Ecdh1Derive", "HkdfDerive"}

Symmetric == Permutations(Calls)
=============================================================================
