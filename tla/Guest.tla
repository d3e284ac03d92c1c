-------------------------------- MODULE Guest --------------------------------
(***************************************************************************)
(* The two targets of an invocation side by side: the verified component   *)
(* bundle and the native adapters.  They meet where the runtime routes a   *)
(* call: the adapter is resolved once the bundle is verified.  What an     *)
(* adapter computes is a matter of the functions of Portable.              *)
(***************************************************************************)
EXTENDS Bundle, NativeAdapters, Portable

guestVars == <<bundleVars, adapterVars>>

GuestInit == BundleInit /\ AdapterInit

\* #invokeAdapter, up to the adapter it calls.
Route == Verified /\ \E n \in Names, op \in PortableOps : Resolve(n, op)

GuestNext ==
  \/ BundleNext /\ UNCHANGED adapterVars
  \/ (AdapterNext \/ Route) /\ UNCHANGED bundleVars

GuestSpec == GuestInit /\ [][GuestNext]_guestVars

-----------------------------------------------------------------------------
(* Inputs of the operations.                                               *)

Payload(fields) == [type |-> "object", depth |-> 1, fields |-> fields]
String(s)       == [type |-> "string", text |-> s, value |-> s]
Boolean(b)      == [type |-> "boolean", value |-> b]
Raw(n)          == Encoded([bytes |-> n, origin |-> <<"raw", n>>])

\* Lengths at the limits, and one past them.
Lengths == ({0, 1, NonceBytes, TagBytes, MinHmacKeyBytes - 1, MinHmacKeyBytes,
             MaxBinaryBytes - TagBytes, MaxBinaryBytes - TagBytes + 1, MaxBinaryBytes, MaxBinaryBytes + 1}
            \cup KeyBytes) \cap Nat

Texts == UNION {[1 .. n -> Classes] : n \in 0 .. 4}

\* Encryption and decryption, and the operations on a ciphertext.
CiphertextFits(key, nonce, aad, n) ==
  LET encrypted == Call("crypto.aes-gcm.encrypt",
                     Payload([key |-> Raw(key), nonce |-> Raw(nonce), aad |-> Raw(aad), plaintext |-> Raw(n)]))
      c         == encrypted.result.ciphertext
      decrypted == Call("crypto.aes-gcm.decrypt",
                     Payload([key |-> Raw(key), nonce |-> Raw(nonce), aad |-> Raw(aad), ciphertext |-> c]))
  IN  encrypted.ok =>
        /\ decrypted.ok /\ decrypted.result.plaintext = Raw(n)
        /\ Call("crypto.sha256", Payload([data |-> c])).ok
        /\ Call("crypto.hmac-sha256", Payload([key |-> Raw(key), data |-> c])).ok

\* Encoding and decoding.
EncodedTextFits(s) ==
  LET encoded == Call("encoding.base64.encode", Payload([text |-> String(s)]))
  IN  encoded.ok =>
        Call("encoding.base64.decode", Payload([encoded |-> encoded.result.encoded]))
          = Ok([text |-> s])

\* Normalizing, and validating what was normalized.
NormalTextIsFixed(s, trim, collapse, lowercase) ==
  LET Normal(t) == Call("text.normalize", Payload([value |-> String(t), trim |-> Boolean(trim),
                     collapse_whitespace |-> Boolean(collapse), lowercase_ascii |-> Boolean(lowercase)]))
      once  == Normal(s)
      limit == [type |-> "number", value |-> ByteLength(s)]
      rules == [type |-> "object", fields |-> [max_bytes |-> limit]]
  IN  once.ok =>
        /\ Normal(once.result.text) = once
        /\ Call("text.validate", Payload([value |-> String(once.result.text), rules |-> rules]))
             = Ok([violations |-> <<>>])

CiphertextsFit      == \A key, nonce, aad, n \in Lengths : CiphertextFits(key, nonce, aad, n)
EncodedTextsFit     == \A s \in Texts : ~IsPrefix(<<"bom">>, s) => EncodedTextFits(s)
NormalTextsAreFixed == \A s \in Texts, trim, collapse, lowercase \in BOOLEAN :
                         NormalTextIsFixed(s, trim, collapse, lowercase)

-----------------------------------------------------------------------------
(* Properties.                                                             *)

(***************************************************************************)
(* For a call routed to the native adapter the limits of the operations    *)
(* fit together: whatever can be encrypted can be decrypted with the same  *)
(* key, nonce and associated data, and gives the plaintext back; its       *)
(* ciphertext can be hashed and signed; what was encoded decodes to the    *)
(* same text; what was normalized is normal, and within the byte limits    *)
(* the text was within.  The one exception the code has is a text that     *)
(* starts with U+FEFF, which TextDecoder drops.                            *)
(***************************************************************************)
RoundTrips == routed # {} => CiphertextsFit /\ EncodedTextsFit /\ NormalTextsAreFixed
=============================================================================
