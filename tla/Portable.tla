------------------------------ MODULE Portable ------------------------------
(***************************************************************************)
(* The eight portable operations as src/wasm/native.ts executes them, and  *)
(* the envelope of src/wasm/codec.ts around them, as functions from a      *)
(* request to a response.  A text is a sequence of character classes, a    *)
(* Base64 string the length and the origin of the bytes it stands for, and *)
(* AES-GCM and the digests are perfect: their output names their input.    *)
(***************************************************************************)
EXTENDS Integers, Sequences, FiniteSets, SequencesExt, FiniteSetsExt

CONSTANTS
  MaxBinaryBytes, MaxStringBytes,   \* GOFORGE_NATIVE_LIMITS
  TagBytes, NonceBytes,             \* AES_GCM_TAG_BYTES, AES_GCM_NONCE_BYTES
  KeyBytes, MinHmacKeyBytes,        \* the AES key lengths, MINIMUM_HMAC_KEY_BYTES
  Catalog,                          \* the codes of GOFORGE_ABI_ERROR_CATALOG
  MaxDepth                          \* MAX_JSON_DEPTH

ASSUME LimitAssumption ==
  /\ {MaxBinaryBytes, MaxStringBytes, TagBytes, NonceBytes, MinHmacKeyBytes, MaxDepth} \subseteq Nat
  /\ KeyBytes \subseteq Nat
  /\ TagBytes <= MaxBinaryBytes                    \* 16 of 512 KiB
  /\ \A k \in KeyBytes : k >= MinHmacKeyBytes      \* 16, 24 and 32; 16

-----------------------------------------------------------------------------
(* Responses.                                                              *)

Ok(result)        == [ok |-> TRUE, result |-> result]
Fail(code, field) == [ok |-> FALSE, code |-> code, field |-> field]

\* A check that throws a PayloadError, before the rest of the operation.
Check(holds, error, rest) == IF holds THEN rest ELSE error

\* The rest of an operation, given a decoded field.
Then(decoded, Rest(_)) == IF decoded.ok THEN Rest(decoded.result) ELSE decoded

-----------------------------------------------------------------------------
(* Payload decoding.                                                       *)

\* object: unknown keys before missing ones, in the order required.
Object(payload, required, optional) ==
  LET lacking == {i \in DOMAIN required : \/ required[i] \notin DOMAIN payload.fields
                                         \/ payload.fields[required[i]].type = "null"}
  IN  Check(payload.type = "object", Fail("invalid_json", "payload"),
      Check(DOMAIN payload.fields \subseteq ToSet(required) \cup optional, Fail("unknown_field", ""),
      Check(lacking = {}, Fail("invalid_request", required[Min(lacking)]),
            Ok(payload.fields))))

Text(fields, key) ==
  Check(fields[key].type = "string", Fail("invalid_json", ""), Ok(fields[key]))

\* flag, integer and optionalText: null is absent; absent is Go's zero value.
Optional(fields, key, type, zero) ==
  IF key \notin DOMAIN fields \/ fields[key].type = "null" THEN Ok(zero)
  ELSE Check(fields[key].type = type, Fail("invalid_json", ""), Ok(fields[key].value))

EncodedLength(n) == ((n + 2) \div 3) * 4

\* binary: too long to be looked at, not canonical, too long.
Binary(fields, key, max) ==
  Then(Text(fields, key), LAMBDA s :
    Check(EncodedLength(s.bytes) <= EncodedLength(max), Fail("input_too_large", key),
    Check(s.canonical, Fail("invalid_base64", key),
    Check(s.bytes <= max, Fail("input_too_large", key),
          Ok([bytes |-> s.bytes, origin |-> s.origin])))))

\* encodeBase64
Encoded(data) == [type |-> "string", canonical |-> TRUE, bytes |-> data.bytes, origin |-> data.origin]

-----------------------------------------------------------------------------
(* Text.  The classes that matter: "tab" is ASCII space and control, "nel" *)
(* U+0085, "bom" U+FEFF, "half" a lone surrogate.                          *)

Classes == {"blank", "tab", "nel", "bom", "upper", "lower", "half"}

Width(c)       == CASE c = "nel" -> 2 [] c \in {"bom", "half"} -> 3 [] OTHER -> 1
ByteLength(s)  == Len(s) + Cardinality({i \in DOMAIN s : Width(s[i]) > 1})
                         + Cardinality({i \in DOMAIN s : Width(s[i]) > 2})
IsUtf8(s)      == "half" \notin ToSet(s)
IsGoSpace(c)   == c \in {"blank", "tab", "nel"}
IsGoControl(c) == c \in {"tab", "nel"}
IsAscii(c)     == c \notin {"nel", "bom", "half"}

TrimGoSpace(s) ==
  LET kept == {i \in DOMAIN s : ~IsGoSpace(s[i])}
  IN  IF kept = {} THEN <<>> ELSE SubSeq(s, Min(kept), Max(kept))

\* The positions collapsing keeps: of a run of white space the first.
Kept(s) == {i \in DOMAIN s : IsGoSpace(s[i]) => i = 1 \/ ~IsGoSpace(s[i - 1])}

Rank(positions, i) == Cardinality({k \in positions : k <= i})
Nth(positions, n)  == CHOOSE i \in positions : Rank(positions, i) = n

CollapseWhitespace(s) ==
  [n \in 1 .. Cardinality(Kept(s)) |->
     LET c == s[Nth(Kept(s), n)] IN IF IsGoSpace(c) THEN "blank" ELSE c]

LowercaseAscii(s) == [i \in DOMAIN s |-> IF s[i] = "upper" THEN "lower" ELSE s[i]]

Applied(flag, F(_), s) == IF flag THEN F(s) ELSE s

Normalize(payload) ==
  Then(Object(payload, <<"value">>, {"trim", "collapse_whitespace", "lowercase_ascii"}), LAMBDA f :
  Then(Text(f, "value"), LAMBDA s :
    Check(IsUtf8(s.text), Fail("invalid_utf8", "value"),
    Check(ByteLength(s.text) <= MaxStringBytes, Fail("input_too_large", "value"),
  Then(Optional(f, "trim", "boolean", FALSE), LAMBDA trim :
  Then(Optional(f, "collapse_whitespace", "boolean", FALSE), LAMBDA collapse :
  Then(Optional(f, "lowercase_ascii", "boolean", FALSE), LAMBDA lowercase :
    Ok([text |-> Applied(lowercase, LowercaseAscii,
                 Applied(collapse, CollapseWhitespace,
                 Applied(trim, TrimGoSpace, s.text)))]))))))))

TextRules   == {"prefix", "suffix"}
CountRules  == {"min_bytes", "max_bytes", "min_runes", "max_runes"}
FlagRules   == {"required", "ascii", "forbid_control", "forbid_whitespace"}

\* A rule left out, or null, has Go's zero value.
Rule(rules, key, zero) ==
  IF key \in DOMAIN rules /\ rules[key].type # "null" THEN rules[key].value ELSE zero
Typed(rules, keys, type) == \A k \in keys \cap DOMAIN rules : rules[k].type \in {"null", type}

\* The violations of a text, in the order the portable core reports them.
Violations(s, rules) ==
  LET Report(code, violated) == IF violated THEN <<code>> ELSE <<>>
      Flag(key)   == Rule(rules, key, FALSE)
      Count(key)  == Rule(rules, key, 0)
      Over(key, n) == Count(key) > 0 /\ n > Count(key)
      Some(P(_))  == \E c \in ToSet(s) : P(c)
  IN     Report("required", Flag("required") /\ s = <<>>)
      \o Report("min_bytes", ByteLength(s) < Count("min_bytes"))
      \o Report("max_bytes", Over("max_bytes", ByteLength(s)))
      \o Report("min_runes", Len(s) < Count("min_runes"))
      \o Report("max_runes", Over("max_runes", Len(s)))
      \o Report("ascii", Flag("ascii") /\ Some(LAMBDA c : ~IsAscii(c)))
      \o Report("control", Flag("forbid_control") /\ Some(IsGoControl))
      \o Report("whitespace", Flag("forbid_whitespace") /\ Some(IsGoSpace))
      \o Report("prefix", ~IsPrefix(Rule(rules, "prefix", <<>>), s))
      \o Report("suffix", ~IsSuffix(Rule(rules, "suffix", <<>>), s))

Validate(payload) ==
  Then(Object(payload, <<"value", "rules">>, {}), LAMBDA f :
  Then(Text(f, "value"), LAMBDA s :
  Then(Object(f.rules, <<>>, TextRules \cup CountRules \cup FlagRules), LAMBDA rules :
    LET texts == {s.text, Rule(rules, "prefix", <<>>), Rule(rules, "suffix", <<>>)}
        Count(key) == Rule(rules, key, 0)
    IN  Check(Typed(rules, TextRules, "string"), Fail("invalid_json", ""),
        Check(\A t \in texts : IsUtf8(t), Fail("invalid_utf8", "payload"),
        Check(\A t \in texts : ByteLength(t) <= MaxStringBytes, Fail("input_too_large", "payload"),
        Check(Typed(rules, CountRules, "number"), Fail("invalid_json", ""),
        Check(/\ \A k \in CountRules : Count(k) \in 0 .. MaxStringBytes
              /\ Count("max_bytes") > 0 => Count("min_bytes") <= Count("max_bytes")
              /\ Count("max_runes") > 0 => Count("min_runes") <= Count("max_runes"),
              Fail("invalid_request", "rules"),
        Check(Typed(rules, FlagRules, "boolean"), Fail("invalid_json", ""),
              Ok([violations |-> Violations(s.text, rules)]))))))))))

Base64Encode(payload) ==
  Then(Object(payload, <<"text">>, {}), LAMBDA f :
  Then(Text(f, "text"), LAMBDA s :
    Check(IsUtf8(s.text), Fail("invalid_utf8", "text"),
    Check(ByteLength(s.text) <= MaxStringBytes, Fail("input_too_large", "text"),
          Ok([encoded |-> Encoded([bytes |-> ByteLength(s.text), origin |-> <<"utf8", s.text>>])])))))

\* TextDecoder drops a leading byte order mark.
Utf8Decoded(s) == IF s # <<>> /\ Head(s) = "bom" THEN Tail(s) ELSE s

Base64Decode(payload) ==
  Then(Object(payload, <<"encoded">>, {}), LAMBDA f :
  Then(Binary(f, "encoded", MaxStringBytes), LAMBDA data :
    Check(Head(data.origin) = "utf8", Fail("invalid_utf8", "encoded"),
          Ok([text |-> Utf8Decoded(data.origin[2])]))))

-----------------------------------------------------------------------------
(* Cryptography.                                                           *)

Sha256(payload) ==
  Then(Object(payload, <<"data">>, {}), LAMBDA f :
  Then(Binary(f, "data", MaxBinaryBytes), LAMBDA data :
    Ok([digest |-> Encoded([bytes |-> 32, origin |-> <<"sha256", data>>])])))

HmacSha256(payload) ==
  Then(Object(payload, <<"key", "data">>, {}), LAMBDA f :
  Then(Binary(f, "key", MaxBinaryBytes), LAMBDA key :
    Check(key.bytes >= MinHmacKeyBytes, Fail("invalid_key", "key"),
  Then(Binary(f, "data", MaxBinaryBytes), LAMBDA data :
    Ok([mac |-> Encoded([bytes |-> 32, origin |-> <<"hmac", key, data>>])])))))

\* A plausible slip: the plaintext may be as long as the ciphertext.
PlaintextLimitWithoutTag == MaxBinaryBytes

\* valueLimit when encrypting: the ciphertext carries the tag.
PlaintextLimit == IF TagBytes < MaxBinaryBytes THEN MaxBinaryBytes - TagBytes ELSE 0

\* aesInputs, in the order of the portable core.
AesInputs(f, valueField, limit, Rest(_, _, _, _)) ==
  Then(Binary(f, "key", MaxBinaryBytes), LAMBDA key :
    Check(key.bytes \in KeyBytes, Fail("invalid_key", "key"),
  Then(Binary(f, "nonce", MaxBinaryBytes), LAMBDA nonce :
    Check(nonce.bytes = NonceBytes, Fail("invalid_nonce", "nonce"),
  Then(Binary(f, "aad", MaxBinaryBytes), LAMBDA aad :
  Then(Binary(f, valueField, limit), LAMBDA value :
    Rest(key, nonce, aad, value)))))))

AesGcmEncrypt(payload) ==
  Then(Object(payload, <<"key", "nonce", "aad", "plaintext">>, {}), LAMBDA f :
  AesInputs(f, "plaintext", PlaintextLimit, LAMBDA key, nonce, aad, value :
    Ok([ciphertext |-> Encoded([bytes  |-> value.bytes + TagBytes,
                                origin |-> <<"gcm", key, nonce, aad, value>>])])))

AesGcmDecrypt(payload) ==
  Then(Object(payload, <<"key", "nonce", "aad", "ciphertext">>, {}), LAMBDA f :
  AesInputs(f, "ciphertext", MaxBinaryBytes, LAMBDA key, nonce, aad, value :
    Check(value.bytes >= TagBytes, Fail("authentication_failed", "ciphertext"),
    Check(Head(value.origin) = "gcm" /\ SubSeq(value.origin, 2, 4) = <<key, nonce, aad>>,
          Fail("authentication_failed", "ciphertext"),
          Ok([plaintext |-> Encoded(value.origin[5])])))))

-----------------------------------------------------------------------------
(* The envelope.                                                           *)

Execute(operation, payload) ==
  CASE operation = "text.normalize"         -> Normalize(payload)
    [] operation = "text.validate"          -> Validate(payload)
    [] operation = "encoding.base64.encode" -> Base64Encode(payload)
    [] operation = "encoding.base64.decode" -> Base64Decode(payload)
    [] operation = "crypto.sha256"          -> Sha256(payload)
    [] operation = "crypto.hmac-sha256"     -> HmacSha256(payload)
    [] operation = "crypto.aes-gcm.encrypt" -> AesGcmEncrypt(payload)
    [] operation = "crypto.aes-gcm.decrypt" -> AesGcmDecrypt(payload)

\* dispatch: an aborted call and a passed deadline come before the payload.
Dispatch(request, aborted, late) ==
  IF aborted THEN Fail("cancellation_requested", "")
  ELSE IF late THEN Fail("deadline_exceeded", "")
  ELSE Execute(request.operation, request.payload)

\* copyAbiValue: what a caller may pass as a payload.
Plain(payload) == payload.type = "object" => payload.depth <= MaxDepth

\* validateAbiResponse: the failures a caller may be told.
Accepted(response) == ~response.ok => response.code \in Catalog

\* The native path of an invocation: createAbiRequest, dispatch, validateAbiResponse.
Call(operation, payload) ==
  LET response == Dispatch([operation |-> operation, payload |-> payload], FALSE, FALSE)
  IN  IF Plain(payload) /\ Accepted(response) THEN response ELSE [ok |-> FALSE, code |-> "codec", field |-> ""]

=============================================================================
