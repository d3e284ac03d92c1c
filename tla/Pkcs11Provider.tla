--------------------------- MODULE Pkcs11Provider ---------------------------
(***************************************************************************)
(* The PKCS#11 provider (src/encrypt/pkcs11/repository.ts, keys.ts,        *)
(* config.ts, uri.ts): keys that live on a token, found again by URI,      *)
(* generated, used, rotated, disabled and destroyed by calls that overlap. *)
(*                                                                         *)
(* Every await on the token is a step of its own, so that the steps of     *)
(* other calls come in between, and every one of them may fail.  The       *)
(* sessions the calls run on are SessionPool's subject.                    *)
(*                                                                         *)
(* An object is found by its label, its id and its class.  A label is a    *)
(* base and the suffixes appended to it; an id is random, so the call that *)
(* generated the key stands for it.                                        *)
(***************************************************************************)
EXTENDS Integers, FiniteSets, Sequences

CONSTANTS
  Calls,                  \* the calls on the provider
  MaxSessions,            \* how many of them the session pool lets run at once
  Ops,                    \* the operations they ask for
  Suffixes,               \* uids, or the clock where no uid is given
  Sizes, DefaultRsaSize,  \* sizes of symmetric and RSA keys
  Provisioned,            \* what is on the token at the start
  References,             \* URIs callers have besides the ones returned to them
  KeyUri,                 \* the configured default URI, or NoUri
  Mechanisms,             \* what the token advertises
  AllowSecretExtraction, DeactivateDestroys, RotateDisablesPrevious,
  ReportsModulusBits      \* whether a private key has CKA_MODULUS_BITS

\* A random id is nobody's before it is made.  What was provisioned has one
\* handle each, and CKA_ID tells its keys apart.
ASSUME ProviderAssumption ==
  /\ {AllowSecretExtraction, DeactivateDestroys, RotateDisablesPrevious} \subseteq BOOLEAN
  /\ "none" \notin Calls
  /\ \A o \in Provisioned :
       /\ DOMAIN o = {"h", "class", "label", "id", "kind", "size", "enabled", "disablable", "owner"}
       /\ o.h # <<>> /\ o.owner = o.h[1] /\ o.owner \notin Calls /\ o.id \notin Calls
       /\ o.kind \notin {"sensitive", "extractable", "undestroyed"}
  /\ \A o, p \in Provisioned : /\ o.h = p.h => o = p
                               /\ o.id = p.id /\ o.id # "none" => o.owner = p.owner
  /\ \A uri \in References \cup {KeyUri} : DOMAIN uri = {"label", "id", "class"}

VARIABLES objects, calls, returned

providerVars == <<objects, calls, returned>>

NoId  == "none"
NoUri == [label |-> <<>>, id |-> NoId, class |-> "any"]

Prefixes == {"GoForge-symmetric", "GoForge-rsa", "GoForge-ecdh", "GoForge-ed25519", "GoForge-hmac"}
Prefix   == [aes |-> "GoForge-symmetric", rsa |-> "GoForge-rsa",
             ec |-> "GoForge-ecdh", ed |-> "GoForge-ed25519"]
KeyGen   == [aes |-> "AesKeyGen", rsa |-> "RsaPkcsKeyPairGen",
             ec |-> "EcKeyPairGen", ed |-> "EcEdwardsKeyPairGen"]
Generates == [generateSymmetricKeys |-> "aes", generateRSAKeys |-> "rsa",
              generateECDHCurveKeys |-> "ec", generateEd25519Keys |-> "ed"]

-----------------------------------------------------------------------------
(* What an operation asks of the token.                                    *)

\* The mechanisms an operation may run with, the preferred one first.
Plan == [encryptAES  |-> <<"AesGcm">>,      decryptAES |-> <<"AesGcm">>,
         hmac        |-> <<"Sha256Hmac">>,  rsaOaepDecode |-> <<"RsaPkcsOaep">>,
         ecdhDecode  |-> <<"Ecdh1Derive">>, signEd25519 |-> <<"EdDsa">>,
         signRSAPSS  |-> <<"Sha256RsaPkcsPss", "RsaPkcsPss">>,
         signRSAPKCS1v15SHA256 |-> <<"Sha256RsaPkcs", "RsaPkcs">>]

\* The first mechanism of the plan that the token has.
Chosen(op) ==
  LET able == {i \in DOMAIN Plan[op] : Plan[op][i] \in Mechanisms}
  IN  IF able = {} THEN "none" ELSE Plan[op][CHOOSE i \in able : \A j \in able : i <= j]

\* What is fed to the mechanism: the message, or what the raw ones expect.
Prepare(m) == CASE m = "RsaPkcs"    -> "digestInfo"
                [] m = "RsaPkcsPss" -> "digest"
                [] OTHER            -> "message"

\* What the mechanism then signs: the combined ones hash by themselves.
Signs(m, fed) == CASE m = "Sha256RsaPkcs"    /\ fed = "message" -> "digestInfo"
                   [] m = "Sha256RsaPkcsPss" /\ fed = "message" -> "digest"
                   [] OTHER                                     -> fed

\* What local verification expects to have been signed.
Expects == [signRSAPKCS1v15SHA256 |-> "digestInfo", signRSAPSS |-> "digest",
            signEd25519 |-> "message"]

\* The kind of key an operation works with, and the usage it must be allowed.
Needs == [encryptAES  |-> <<"aes", "encrypt">>, decryptAES |-> <<"aes", "decrypt">>,
          hmac        |-> <<"generic", "sign">>, rsaOaepDecode |-> <<"rsa", "decrypt">>,
          ecdhDecode  |-> <<"ec", "derive">>, signEd25519 |-> <<"ed", "sign">>,
          signRSAPSS  |-> <<"rsa", "sign">>, signRSAPKCS1v15SHA256 |-> <<"rsa", "sign">>]

\* Operations that need only the public half, and finish locally.
PublicOps == {"rsaOaepEncode", "ecdhEncode", "verify"}
UsageOps  == DOMAIN Plan

\* An empty reference stands for the configured default.
ResolveKeyUri(uri) == IF uri # NoUri THEN uri ELSE KeyUri

\* The class an operation falls back to when the URI names none.
Fallback(op) == IF op \in {"encryptAES", "decryptAES", "hmac"} THEN "secret" ELSE "private"

SupportsInHardwareEcdh == {"Ecdh1Derive", "HkdfDerive", "AesGcm"} \subseteq Mechanisms

-----------------------------------------------------------------------------
(* The token.  A handle is the call that made the object and a number, and *)
(* is never used again.                                                    *)

Holds(h) == \E o \in objects : o.h = h
Obj(h)   == CHOOSE o \in objects : o.h = h
Without(h) == {o \in objects : o.h # h}

\* findObject: every attribute the URI sets must match.
Matches(uri, class) ==
  {o \in objects : /\ class \in {"any", o.class}
                   /\ uri.label \in {<<>>, o.label}
                   /\ uri.id \in {NoId, o.id}}

Object(h, class, uri, kind, size, enabled) ==
  [h |-> h, class |-> class, label |-> uri.label, id |-> uri.id, kind |-> kind, size |-> size,
   enabled |-> enabled, disablable |-> enabled # {}, owner |-> h[1]]

NewObjectLabel(base, suffix) == Append(base, suffix)

\* rotationLabelBase: the prefix of a generated label, or the label whole.
RotationLabelBase(o) == IF o.label # <<>> /\ Head(o.label) \in Prefixes
                        THEN <<Head(o.label)>> ELSE o.label

\* The text an attribute holds whose bytes were never fetched: as many zeros.
Zeroed(text) == IF text = <<>> THEN <<>> ELSE <<"zeroed">>

\* The usage attributes of the templates; a replacement has fewer of them.
PrivateUses(kind, first) ==
  CASE kind = "aes" -> {"encrypt", "decrypt"}
    [] kind = "rsa" -> {"decrypt", "sign"} \cup (IF first THEN {"unwrap"} ELSE {})
    [] kind = "ec"  -> {"derive"}
    [] kind = "ed"  -> {"sign"}

PublicUses(kind, first) ==
  CASE kind = "rsa" -> {"encrypt", "verify"} \cup (IF first THEN {"wrap"} ELSE {})
    [] kind = "ed"  -> IF first THEN {"verify"} ELSE {}
    [] OTHER        -> {}

\* A plausible slip: the reference names the key by its label alone.
KeyRefByLabel(c, kind, label) ==
  [label |-> label, id |-> NoId, class |-> IF kind = "aes" THEN "secret" ELSE "private"]

\* keyDataFor: the reference a generated key is returned with.
KeyRef(c, kind, label) ==
  [label |-> label, id |-> c, class |-> IF kind = "aes" THEN "secret" ELSE "private"]

\* What C_GenerateKey and C_GenerateKeyPair put on the token.
Generated(c, kind, size, label, first) ==
  LET uri == [label |-> label, id |-> c]
  IN  IF kind = "aes" THEN {Object(<<c, 1>>, "secret", uri, kind, size, PrivateUses(kind, first))}
      ELSE {Object(<<c, 1>>, "private", uri, kind, size, PrivateUses(kind, first)),
            Object(<<c, 2>>, "public", uri, kind, size, PublicUses(kind, first))}

\* A session object a call derives: no label, no id, never on the token for good.
Derived(c, n, kind) == Object(<<c, n>>, "secret", NoUri, kind, 0, {})

-----------------------------------------------------------------------------
(* The calls.                                                              *)

Idle == [pc |-> "idle", op |-> "none", asked |-> NoUri, uri |-> NoUri, suffix |-> "none",
         kind |-> "none", size |-> 0, base |-> <<>>, h |-> <<>>, found |-> "none", next |-> 1,
         temps |-> <<>>, ok |-> TRUE, cleared |-> FALSE, key |-> "none", form |-> "none",
         aborted |-> FALSE, read |-> TRUE]

Done == {"fulfilled", "rejected", "local"}

ProviderInit ==
  /\ objects = Provisioned
  /\ calls = [c \in Calls |-> Idle]
  /\ returned = {}

Set(c, r)   == calls' = [calls EXCEPT ![c] = r]

\* What is remembered of a call once it has settled.
Settled(r, pc) ==
  IF pc = "fulfilled"
  THEN [Idle EXCEPT !.pc = pc, !.op = r.op, !.asked = r.asked, !.uri = r.uri, !.kind = r.kind,
                    !.h = r.h, !.found = r.found, !.key = r.key, !.form = r.form, !.cleared = r.cleared,
                    !.read = r.read]
  ELSE [Idle EXCEPT !.pc = pc, !.op = r.op, !.cleared = r.cleared]

GoTo(c, pc) == Set(c, IF pc \in Done THEN Settled(calls[c], pc) ELSE [calls[c] EXCEPT !.pc = pc])
Reject(c)   == GoTo(c, "rejected")

\* The caller, if it is still there, gets a reference to keep.
Fulfil(c, r, refs) == /\ Set(c, Settled(r, "fulfilled"))
                      /\ returned' = IF r.aborted THEN returned ELSE returned \cup refs

\* The URIs a caller can pass: what it was given, and what it knows anyway.
Known == References \cup {r.uri : r \in returned} \cup {NoUri}

\* What is checked before the first await: the reference and the mechanism.
Admissible(op, uri) ==
  CASE op \in DOMAIN Generates -> KeyGen[Generates[op]] \in Mechanisms
    [] op \in UsageOps         -> ResolveKeyUri(uri) # NoUri /\ Chosen(op) # "none"
    [] OTHER                   -> ResolveKeyUri(uri) # NoUri

FirstStep(op) == CASE op \in DOMAIN Generates -> "generate"
                   [] op \in PublicOps        -> "public"
                   [] OTHER                   -> "find"

\* A call holds one of the session pool's sessions at a time.
SessionFree == Cardinality({c \in Calls : calls[c].pc \notin Done \cup {"idle"}}) < MaxSessions

Start(c, op, uri, suffix, size) ==
  /\ calls[c].pc = "idle" /\ SessionFree
  /\ Set(c, [Idle EXCEPT !.op = op, !.asked = uri, !.uri = ResolveKeyUri(uri), !.suffix = suffix,
                         !.kind = IF op \in DOMAIN Generates THEN Generates[op] ELSE "none",
                         !.size = size, !.pc = FirstStep(op)])
  /\ Admissible(op, uri)
  /\ UNCHANGED <<objects, returned>>

StartRejected(c, op, uri) ==
  /\ calls[c].pc = "idle" /\ SessionFree /\ ~Admissible(op, uri)
  /\ Set(c, Settled([Idle EXCEPT !.op = op], "rejected"))
  /\ UNCHANGED <<objects, returned>>

\* Not a pkcs11: reference.  The local provider takes it where it can, and
\* nothing else ever goes there.
StartWithoutUri(c, op) ==
  /\ calls[c].pc = "idle" /\ op \notin DOMAIN Generates
  /\ Set(c, [Idle EXCEPT !.op = op, !.pc = IF op \in UsageOps \cup PublicOps THEN "local" ELSE "rejected"])
  /\ UNCHANGED <<objects, returned>>

\* runWithSignal: the caller is told at once, the operation goes on.  Only
\* what a call returns to keep makes a difference here.
Abort(c) ==
  /\ calls[c].pc \notin Done \cup {"idle"} /\ ~calls[c].aborted
  /\ calls[c].op \in DOMAIN Generates \cup {"rotateKey"}
  /\ Set(c, [calls[c] EXCEPT !.aborted = TRUE])
  /\ UNCHANGED <<objects, returned>>

\* resolveObject found an object: on with what the operation is about.
AfterFind(op) ==
  CASE op \in {"rotateKey", "getKey"} -> "describe"
    [] op = "deactivateKey"           -> "probe"
    [] op = "ecdhDecode"              -> IF SupportsInHardwareEcdh THEN "derive"
                                         ELSE IF AllowSecretExtraction THEN "extract" ELSE "rejected"
    [] OTHER                          -> "use"

\* resolveObject: any failure of the first search leads to the second, if
\* the URI names no class.
Find(c) ==
  LET k == calls[c]
      class == IF k.pc = "findAny" THEN "any"
               ELSE IF k.uri.class # "any" THEN k.uri.class ELSE Fallback(k.op)
  IN  /\ k.pc \in {"find", "findAny"}
      /\ \/ \E o \in Matches(k.uri, class) :
              Set(c, [k EXCEPT !.h = o.h, !.found = o.owner, !.pc = AfterFind(k.op)])
         \/ GoTo(c, IF k.pc = "find" /\ k.uri.class = "any" THEN "findAny" ELSE "rejected")
      /\ UNCHANGED <<objects, returned>>

-----------------------------------------------------------------------------
(* Using a key.                                                            *)

\* The token allows the operation on the object: it is there, of the right
\* kind, and its usage attribute is set.
Usable(k) == Holds(k.h) /\ Obj(k.h).kind = Needs[k.op][1] /\ Needs[k.op][2] \in Obj(k.h).enabled

\* Signed, or fed to the cipher, with the key that was found.
Uses(c, m) == /\ Usable(calls[c])
              /\ Fulfil(c, [calls[c] EXCEPT !.key = Obj(calls[c].h).owner, !.form = Signs(m, Prepare(m))], {})

SignOps == DOMAIN Expects

\* encryptAES, decryptAES, rsaOaepDecode, hmac: one call on the token.
Use(c) ==
  /\ calls[c].pc = "use" /\ calls[c].op \notin SignOps
  /\ Uses(c, Chosen(calls[c].op)) \/ (Reject(c) /\ UNCHANGED returned)
  /\ UNCHANGED objects

\* #signWithToken.  EdDSA is tried once more with a parameter block when the
\* token rejects the empty one.
Sign(c) ==
  LET k == calls[c]
      m == Chosen(k.op)
  IN  /\ k.pc \in {"use", "retry"} /\ k.op \in SignOps
      /\ \/ Uses(c, m)
         \/ k.pc = "use" /\ m = "EdDsa" /\ GoTo(c, "retry") /\ UNCHANGED returned
         \/ Reject(c) /\ UNCHANGED returned
      /\ UNCHANGED objects

\* decryptEcdhInHardware, first derivation; what follows a failure of it all.
ExtractOrReject == IF AllowSecretExtraction THEN "extract" ELSE "rejected"

DeriveInHardware(c) ==
  LET k == calls[c]
  IN  /\ k.pc = "derive"
      /\ \/ /\ Usable(k)
            /\ objects' = objects \cup {Derived(c, 3, "sensitive")}
            /\ Set(c, [k EXCEPT !.temps = <<<<c, 3>>>>, !.key = Obj(k.h).owner, !.pc = "deriveAes"])
         \/ GoTo(c, ExtractOrReject) /\ UNCHANGED objects
      /\ UNCHANGED returned

\* A plausible slip: the second derivation outside the outer try.
DeriveAesKeyOutsideTry(c) ==
  LET k == calls[c]
  IN  /\ k.pc = "deriveAes"
      /\ \/ /\ objects' = objects \cup {Derived(c, 4, "sensitive")}
            /\ Set(c, [k EXCEPT !.temps = <<<<c, 4>>, <<c, 3>>>>, !.pc = "decrypt"])
         \/ GoTo(c, ExtractOrReject) /\ UNCHANGED objects
      /\ UNCHANGED returned

DeriveAesKey(c) ==
  LET k == calls[c]
  IN  /\ k.pc = "deriveAes"
      /\ \/ /\ objects' = objects \cup {Derived(c, 4, "sensitive")}
            /\ Set(c, [k EXCEPT !.temps = <<<<c, 4>>, <<c, 3>>>>, !.pc = "decrypt"])
         \/ Set(c, [k EXCEPT !.ok = FALSE, !.pc = "clean"]) /\ UNCHANGED objects
      /\ UNCHANGED returned

DecryptInHardware(c) ==
  /\ calls[c].pc = "decrypt"
  /\ \E ok \in BOOLEAN : Set(c, [calls[c] EXCEPT !.ok = ok, !.pc = "clean"])
  /\ UNCHANGED <<objects, returned>>

\* deriveExtractableSecret: the shared secret is read out of the token.
DeriveExtractable(c) ==
  LET k == calls[c]
  IN  /\ k.pc = "extract"
      /\ \/ /\ Usable(k)
            /\ objects' = objects \cup {Derived(c, 5, "extractable")}
            /\ Set(c, [k EXCEPT !.temps = <<<<c, 5>>>>, !.key = Obj(k.h).owner, !.pc = "readSecret"])
         \/ Reject(c) /\ UNCHANGED objects
      /\ UNCHANGED returned

ReadSecret(c) ==
  /\ calls[c].pc = "readSecret"
  /\ \E ok \in BOOLEAN : Set(c, [calls[c] EXCEPT !.ok = ok, !.pc = "cleanExtracted"])
  /\ UNCHANGED <<objects, returned>>

\* The finally blocks, innermost first; a destroy that fails is ignored.
Clean(c) ==
  LET k == calls[c]
      h == Head(k.temps)
      after == IF Len(k.temps) > 1 THEN k.pc
               ELSE IF k.ok THEN "fulfilled"
               ELSE IF k.pc = "clean" THEN ExtractOrReject ELSE "rejected"
  IN  /\ k.pc \in {"clean", "cleanExtracted"}
      /\ \/ objects' = Without(h)
         \/ Holds(h) /\ objects' = Without(h) \cup {[Obj(h) EXCEPT !.kind = "undestroyed"]}
      /\ Set(c, IF after \in Done THEN Settled(k, after) ELSE [k EXCEPT !.temps = Tail(@), !.pc = after])
      /\ UNCHANGED returned

-----------------------------------------------------------------------------
(* Looking a key up, and its public half.                                  *)

\* publicObjectFor: where the public half is looked for, in turn.
Candidates(uri) ==
  LET byId == [NoUri EXCEPT !.id = uri.id]
  IN  IF uri.id = NoId THEN <<<<uri, "public">>, <<uri, "cert">>>>
      ELSE <<<<uri, "public">>, <<byId, "public">>, <<byId, "cert">>, <<uri, "cert">>>>

\* A read that fails returns empty attributes, not an error, and the
\* reference stays as it was given; one whose second half fails returns
\* zeroed bytes, which go into the reference (`read` says they are not real).
DescribeForGet(c) ==
  LET k == calls[c]
      o == Obj(k.h)
  IN  /\ k.pc = "describe" /\ k.op = "getKey"
      /\ \/ /\ Holds(k.h)
            /\ Set(c, [k EXCEPT !.pc = "public", !.uri = [k.uri EXCEPT !.label = o.label, !.id = o.id]])
         \/ /\ Holds(k.h)
            /\ Set(c, [k EXCEPT !.pc = "public", !.read = FALSE,
                                !.uri = [k.uri EXCEPT !.label = Zeroed(o.label),
                                                      !.id = IF o.id = NoId THEN NoId ELSE "zeroed"]])
         \/ GoTo(c, "public")
      /\ UNCHANGED <<objects, returned>>

\* getKey returns the reference even when there is no public half.
WithoutPublicKey(c) ==
  IF calls[c].op = "getKey" THEN Fulfil(c, calls[c], {})
  ELSE Reject(c) /\ UNCHANGED returned

PublicObjectFor(c) ==
  LET k   == calls[c]
      try == Candidates(k.uri)[k.next]
  IN  /\ k.pc = "public"
      /\ \/ /\ \E o \in Matches(try[1], try[2]) : Set(c, [k EXCEPT !.h = o.h, !.pc = "readPublic"])
            /\ UNCHANGED returned
         \/ IF k.next < Len(Candidates(k.uri))
            THEN Set(c, [k EXCEPT !.next = @ + 1]) /\ UNCHANGED returned
            ELSE WithoutPublicKey(c)
      /\ UNCHANGED objects

\* publicKeyFromAttributes, certificatePublicKey: empty attributes make no key.
ReadPublic(c) ==
  LET k == calls[c]
  IN  /\ k.pc = "readPublic"
      /\ \/ Holds(k.h) /\ Fulfil(c, [k EXCEPT !.key = Obj(k.h).owner], {})
         \/ WithoutPublicKey(c)
      /\ UNCHANGED objects

-----------------------------------------------------------------------------
(* Generating, rotating, disabling, destroying.                            *)

\* The size of the replacement: as read, or the default of the kind.
ReplacementSize(o) ==
  IF o.kind = "rsa" /\ o.class = "private" /\ ~ReportsModulusBits THEN DefaultRsaSize ELSE o.size

\* generateReplacement, before the generation.  A certificate has no key type.
\* CKK_RSA is 0, so that a key whose attributes come back zeroed is taken for
\* an RSA key of no size.
DescribeForRotation(c) ==
  LET k == calls[c]
      o == Obj(k.h)
  IN  /\ k.pc = "describe" /\ k.op = "rotateKey"
      /\ \/ /\ Holds(k.h) /\ o.class # "cert"
            /\ \/ /\ o.kind \in DOMAIN KeyGen /\ KeyGen[o.kind] \in Mechanisms
                  /\ Set(c, [k EXCEPT !.kind = o.kind, !.size = ReplacementSize(o),
                                      !.base = RotationLabelBase(o), !.pc = "generate"])
               \/ /\ KeyGen.rsa \in Mechanisms
                  /\ Set(c, [k EXCEPT !.kind = "rsa", !.size = DefaultRsaSize, !.read = FALSE,
                                      !.base = Zeroed(o.label), !.pc = "generate"])
         \/ Reject(c)
      /\ UNCHANGED <<objects, returned>>

\* The name and the reference of the key a call generates.
NewLabel(k) == NewObjectLabel(IF k.op = "rotateKey" THEN k.base ELSE <<Prefix[k.kind]>>, k.suffix)
NewRef(c)   == {[uri |-> KeyRef(c, calls[c].kind, NewLabel(calls[c])), owner |-> c]}

\* What follows the generation, and the reading back of the public half.
AfterGenerate(c) ==
  IF calls[c].op = "rotateKey" /\ RotateDisablesPrevious
  THEN GoTo(c, "probe") /\ UNCHANGED returned
  ELSE Fulfil(c, calls[c], NewRef(c))

Generate(c) ==
  LET k == calls[c]
  IN  /\ k.pc = "generate"
      /\ \/ /\ objects' = objects \cup Generated(c, k.kind, k.size, NewLabel(k), k.op # "rotateKey")
            /\ IF k.kind = "aes" THEN AfterGenerate(c) ELSE GoTo(c, "readBack") /\ UNCHANGED returned
         \/ Reject(c) /\ UNCHANGED <<objects, returned>>

ReadBack(c) ==
  /\ calls[c].pc = "readBack"
  /\ \/ AfterGenerate(c)
     \/ Reject(c) /\ UNCHANGED returned
  /\ UNCHANGED objects

\* A plausible slip: a rotation that cannot disable the old key says nothing.
RefusedUnreported(k) == IF k.op # "deactivateKey" THEN "fulfilled"
                        ELSE IF DeactivateDestroys THEN "destroy" ELSE "rejected"

\* deactivateKey destroys what it cannot disable, if it may.
Refused(k) == IF k.op = "deactivateKey" /\ DeactivateDestroys THEN "destroy" ELSE "rejected"

\* disableObject, first half: the usage attributes the object carries.
Probe(c) ==
  LET k == calls[c]
  IN  /\ k.pc = "probe"
      /\ \/ Holds(k.h) /\ Obj(k.h).disablable /\ GoTo(c, "clear")
         \/ GoTo(c, Refused(k))
      /\ UNCHANGED <<objects, returned>>

\* Second half: all of them are cleared, or none is.
Clear(c) ==
  LET k == calls[c]
  IN  /\ k.pc = "clear"
      /\ \/ /\ Holds(k.h)
            /\ objects' = Without(k.h) \cup {[Obj(k.h) EXCEPT !.enabled = {}]}
            /\ Fulfil(c, [k EXCEPT !.cleared = TRUE], IF k.op = "rotateKey" THEN NewRef(c) ELSE {})
         \/ GoTo(c, Refused(k)) /\ UNCHANGED <<objects, returned>>

Destroy(c) ==
  LET k == calls[c]
  IN  /\ k.pc = "destroy"
      /\ \/ Holds(k.h) /\ objects' = Without(k.h) /\ Fulfil(c, k, {})
         \/ Reject(c) /\ UNCHANGED <<objects, returned>>

ProviderNext ==
  \E c \in Calls :
    \/ \E op \in Ops, uri \in Known, suffix \in Suffixes, size \in Sizes : Start(c, op, uri, suffix, size)
    \/ \E op \in Ops, uri \in Known : StartRejected(c, op, uri)
    \/ \E op \in Ops : StartWithoutUri(c, op)
    \/ Abort(c)
    \/ Find(c)
    \/ Use(c) \/ Sign(c)
    \/ DeriveInHardware(c) \/ DeriveAesKey(c) \/ DecryptInHardware(c)
    \/ DeriveExtractable(c) \/ ReadSecret(c) \/ Clean(c)
    \/ DescribeForGet(c) \/ PublicObjectFor(c) \/ ReadPublic(c)
    \/ DescribeForRotation(c) \/ Generate(c) \/ ReadBack(c)
    \/ Probe(c) \/ Clear(c) \/ Destroy(c)

-----------------------------------------------------------------------------
(* Properties.                                                             *)

\* The keys on the token that a call has generated.
KeysOf(c) == {o \in objects : o.owner = c /\ o.id # NoId}

(***************************************************************************)
(* A reference returned by a generation or a rotation means that key for   *)
(* good: whatever has been generated under the same name, rotated or       *)
(* destroyed since, what is signed, decrypted, looked up or fetched        *)
(* through it belongs to that key, the two sessions of getKey agree, and   *)
(* what was signed is what local verification expects.  The exception is a *)
(* getKey whose first session read zeroed bytes: it finds the key, and     *)
(* then looks for the public half of whatever has zeros for an id.         *)
(***************************************************************************)
ReferenceMeansOneKey ==
  \A c \in Calls :
    LET k == calls[c]
    IN  /\ \A r \in returned : k.asked = r.uri =>
             k.found \in {"none", r.owner} /\ (k.read => k.key \in {"none", r.owner})
        /\ k.read /\ k.uri.id # NoId /\ "none" \notin {k.key, k.found} => k.key = k.found
        /\ k.pc = "fulfilled" /\ k.op \in DOMAIN Expects => k.form = Expects[k.op]

(***************************************************************************)
(* Rotation is all or nothing, whatever fails in between: the previous key *)
(* is disabled only when its replacement is on the token; a rotation that  *)
(* fails leaves it as it was, and one that succeeds disables it exactly    *)
(* when rotateDisablesPrevious is set.  The replacement is of the kind of  *)
(* the key it replaces, while that is still there; except where the second *)
(* C_GetAttributeValue failed, whose code is ignored: the replacement of   *)
(* any key is then an RSA pair, and the previous key is disabled as well.  *)
(***************************************************************************)
RotationAllOrNothing ==
  \A c \in Calls : calls[c].op = "rotateKey" =>
    LET k == calls[c]
    IN  /\ k.cleared => k.pc = "fulfilled" /\ RotateDisablesPrevious
        /\ k.pc = "fulfilled" => /\ k.cleared = RotateDisablesPrevious
                                 /\ k.cleared /\ Holds(k.h) => Obj(k.h).enabled = {}
                                 /\ k.read /\ Holds(k.h) => \A o \in KeysOf(c) : o.kind = Obj(k.h).kind
                                 /\ ~DeactivateDestroys => KeysOf(c) # {}

(***************************************************************************)
(* What ECDH derives on the token is gone when the call is over, along     *)
(* every path of the two nested finally blocks and the fallback, unless    *)
(* the token refused to destroy it; and no secret is derived extractable   *)
(* unless allowSecretExtraction is set.                                    *)
(***************************************************************************)
DerivedSecretsContained ==
  \A o \in objects :
    /\ o.kind \in {"sensitive", "extractable"} => calls[o.owner].pc \notin Done
    /\ o.kind = "extractable" => AllowSecretExtraction

=============================================================================
