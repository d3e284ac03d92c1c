---------------------------- MODULE LocalCrypto ----------------------------
(***************************************************************************)
(* The in-process provider (src/encrypt/local/repository.ts with the       *)
(* helpers of src/encrypt/utilities/utilities.ts): AES-GCM, RSA-OAEP and   *)
(* ECDH envelopes and the three signature schemes, over an algebraic Web   *)
(* Crypto in which a box opens, and a signature verifies, only under       *)
(* exactly the key, algorithm and parameters it was made with.             *)
(*                                                                         *)
(* A text is a sequence of characters, as far as its way to bytes and back *)
(* tells them apart: "bom" is U+FEFF, "half" a lone surrogate, "fffd" the  *)
(* replacement character, and "t" any other.                               *)
(*                                                                         *)
(* Key material is generated, envelopes and signatures are made and kept,  *)
(* and anything kept may later be opened with any key and parameter.       *)
(***************************************************************************)
EXTENDS Naturals, Sequences, SequencesExt, FiniteSets

CONSTANTS
  Texts,        \* messages, sequences of characters
  Aads,         \* additional data, such texts and Absent for undefined
  Absent,
  Failure,      \* the operation rejects
  MaxKeys,      \* bound on generated keys
  MaxMade       \* bound on envelopes and signatures made

Characters == {"t", "bom", "half", "fffd"}

ASSUME CryptoAssumption ==
  /\ Texts \subseteq Seq(Characters) /\ Aads \subseteq Seq(Characters) \cup {Absent}
  /\ Failure \notin Seq(Characters)

Curves == <<"P-256", "P-384", "P-521">>
NonceUnits == 2 \* the nonce as two units standing for its 12 bytes

VARIABLES
  keys,         \* the keys generated: records [family, id, curve]
  made,         \* what was made: records [op, key, aad, text, blob]
  fresh         \* the next random value

cryptoVars == <<keys, made, fresh>>

---------------------------------------------------------------------------
(* Texts and bytes.                                                        *)

\* TextEncoder: a lone surrogate becomes the replacement character.
bytesOf(text) == [i \in 1..Len(text) |-> IF text[i] = "half" THEN "fffd" ELSE text[i]]

\* TextDecoder: a byte order mark at the beginning is dropped.
textOf(bytes) == IF bytes # << >> /\ Head(bytes) = "bom" THEN Tail(bytes) ELSE bytes

\* What the operation resolves to when it has got these bytes.
Decoded(plain) == IF plain = Failure THEN Failure ELSE textOf(plain)

---------------------------------------------------------------------------
(* Web Crypto (external).                                                  *)

\* AES-GCM: no additional data and empty additional data are the same.
Additional(aad) == IF aad = Absent THEN << >> ELSE bytesOf(aad)

Seal(key, iv, aad, bytes) ==
  [box |-> "gcm", key |-> key, iv |-> iv, aad |-> Additional(aad), bytes |-> bytes]

Open(key, iv, aad, sealed) ==
  IF sealed = Seal(key, iv, aad, sealed.bytes) THEN sealed.bytes ELSE Failure

\* An SPKI or PKCS#8 key imports only on the curve it lies on.
Imports(key, curve) == key.curve = curve

\* Both sides of an exchange derive the same secret.
SharedSecret(id, otherId, curve) == <<{id, otherId}, curve>>

---------------------------------------------------------------------------
(* The provider's operations.                                              *)

Nonce(n) == [i \in 1..NonceUnits |-> <<n, i>>]

\* The nonce, then the sealed bytes, in one Base64 blob.
EncryptAES(key, aad, text, n) ==
  Nonce(n) \o <<Seal(key.id, Nonce(n), aad, bytesOf(text))>>

\* Mistaken: the additional data is left out of the parameters.
DecryptAESUnbound(key, aad, blob) ==
  LET cipher == SubSeq(blob, NonceUnits + 1, Len(blob))
  IN  Decoded(Open(key.id, SubSeq(blob, 1, NonceUnits), Absent, cipher[1]))

DecryptAES(key, aad, blob) ==
  LET cipher == SubSeq(blob, NonceUnits + 1, Len(blob))
  IN  Decoded(Open(key.id, SubSeq(blob, 1, NonceUnits), aad, cipher[1]))

\* The first curve the recipient's public key imports on.
ImportECDHPublicKeyAuto(key) ==
  Curves[CHOOSE i \in DOMAIN Curves :
           Imports(key, Curves[i]) /\ \A j \in 1..(i - 1) : ~Imports(key, Curves[j])]

\* HKDF over the exchange, with the curve's name mixed in.
DeriveECCAESKey(id, otherId, curve) ==
  <<SharedSecret(id, otherId, curve), curve>>

\* A fresh ephemeral pair on the recipient's curve; its public half, the
\* curve and the nonce travel with the ciphertext.
EcdhEncode(key, text, n) ==
  LET curve == ImportECDHPublicKeyAuto(key)
      aesKey == DeriveECCAESKey(n, key.id, curve)
  IN  [curve |-> curve, ephemeral |-> n, nonce |-> Nonce(n),
       cipher |-> Seal(aesKey, Nonce(n), Absent, bytesOf(text))]

EcdhDecode(key, payload) ==
  IF ~Imports(key, payload.curve) THEN Failure
  ELSE Decoded(Open(DeriveECCAESKey(key.id, payload.ephemeral, payload.curve),
                    payload.nonce, Absent, payload.cipher))

\* The same DER pair is imported anew for each algorithm.
RsaOaepEncode(key, text) == [box |-> "oaep", key |-> key.id, bytes |-> bytesOf(text)]

RsaOaepDecode(key, blob) == Decoded(IF blob.key = key.id THEN blob.bytes ELSE Failure)

Sign(scheme, key, text) == [scheme |-> scheme, key |-> key.id, bytes |-> bytesOf(text)]

\* verify... resolves to nothing or rejects.
Verify(scheme, key, text, signature) ==
  IF signature = Sign(scheme, key, text) THEN << >> ELSE Failure

FamilyOf(op) ==
  CASE op = "aes" -> "secret" [] op = "ecdh" -> "ec"
    [] op \in {"oaep", "RSA-PSS", "RSASSA-PKCS1-v1_5"} -> "rsa"
    [] op = "Ed25519" -> "ed"

Produce(op, key, aad, text, n) ==
  CASE op = "aes" -> EncryptAES(key, aad, text, n)
    [] op = "ecdh" -> EcdhEncode(key, text, n)
    [] op = "oaep" -> RsaOaepEncode(key, text)
    [] OTHER -> Sign(op, key, text)

Consume(op, key, aad, text, blob) ==
  CASE op = "aes" -> DecryptAES(key, aad, blob)
    [] op = "ecdh" -> EcdhDecode(key, blob)
    [] op = "oaep" -> RsaOaepDecode(key, blob)
    [] OTHER -> Verify(op, key, text, blob)

Ciphers == {"aes", "ecdh", "oaep"}
Schemes == {"RSA-PSS", "RSASSA-PKCS1-v1_5", "Ed25519"}
Makes   == Ciphers \cup Schemes

---------------------------------------------------------------------------
CryptoInit == keys = {} /\ made = << >> /\ fresh = 1

\* generateSymmetricKeys, generateRSAKeys, generateECDHCurveKeys (a curve
\* other than the three is rejected) and generateEd25519Keys.
Generate ==
  /\ Cardinality(keys) < MaxKeys
  /\ \E family \in {"secret", "rsa", "ec", "ed"}, c \in ToSet(Curves) :
       /\ family # "ec" => c = "P-256"
       /\ keys' = keys \cup {[family |-> family, id |-> fresh, curve |-> c]}
  /\ fresh' = fresh + 1
  /\ UNCHANGED made

Make ==
  /\ Len(made) < MaxMade
  /\ \E op \in Makes, key \in keys, aad \in Aads, text \in Texts :
       /\ key.family = FamilyOf(op)
       /\ op # "aes" => aad = Absent
       /\ made' = Append(made, [op |-> op, key |-> key, aad |-> aad, text |-> text,
                                blob |-> Produce(op, key, aad, text, fresh)])
  /\ fresh' = fresh + 1
  /\ UNCHANGED keys

CryptoNext == Generate \/ Make

CryptoSpec == CryptoInit /\ [][CryptoNext]_cryptoVars

---------------------------------------------------------------------------
\* Texts that come back as they went: no lone surrogate in them, and no byte
\* order mark at their beginning.
Survives(text) == \A i \in DOMAIN text : text[i] # "half" /\ (i = 1 => text[i] # "bom")

(***************************************************************************)
(* Whatever was made opens with its own key and additional data, and then  *)
(* yields the text it was made of, or verifies with its own key and text;  *)
(* with any other key of the same family, with other additional data or    *)
(* for another text the operation rejects (encryptAES/decryptAES,          *)
(* ecdhEncode/ecdhDecode over all curves, RSA-OAEP and the signature       *)
(* schemes).  Other means other bytes: undefined and empty additional data *)
(* agree, as do texts that differ in their lone surrogates only; and a     *)
(* text with such a surrogate, or with a byte order mark at its beginning, *)
(* opens but does not come back as it was (Survives).                      *)
(***************************************************************************)
OpensOnlyAsSealed ==
  \A i \in DOMAIN made, key \in keys, aad \in Aads, text \in Texts :
    key.family = made[i].key.family =>
      LET m == made[i]
          right == /\ key = m.key
                   /\ m.op = "aes" => Additional(aad) = Additional(m.aad)
                   /\ m.op \in Schemes => bytesOf(text) = bytesOf(m.text)
          got == Consume(m.op, key, aad, text, m.blob)
      IN  /\ got = Failure <=> ~right
          /\ right /\ m.op \in Ciphers /\ Survives(m.text) => got = m.text
=============================================================================
