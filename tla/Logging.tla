------------------------------ MODULE Logging ------------------------------
(***************************************************************************)
(* The structured logger (src/logger/builder/builder.ts) and its sanitizer *)
(* (src/logger/sanitizer/sanitizer.ts): from the attributes of a log call  *)
(* to the entry handed to the formatter.                                   *)
(*                                                                         *)
(* An attribute value is a tree, kept as the function from its paths to    *)
(* the labels of their ends: "record" (a plain object), "instance" (an     *)
(* object with a prototype of its own), "headers" (a Headers object),      *)
(* "list", "json" (a string that holds a JSON document, which is below     *)
(* it), and any other string for itself.  A path is the sequence of the    *)
(* keys on the way, compared as the code compares them, lower-cased.       *)
(* A function of the code that walks a value from its root is stated by    *)
(* what it does at each path: how deep it is and what it has come through. *)
(***************************************************************************)
EXTENDS Naturals, Sequences, SequencesExt

CONSTANTS
  Attributes,     \* attribute records a caller may pass, as functions from keys to trees
  SensitiveKeys,  \* the keys that contain a configured sensitive name
  IgnoredHeaders, \* LoggerOptions.ignoredHeaders
  MinLevel,       \* LoggerOptions.level, counted from debug = 1
  MaxDepth,       \* the sanitizer's recursion limit
  MaxLines        \* bound on the lines written

Objects  == {"record", "instance", "headers"}
Branches == Objects \cup {"list", "json"}

\* The strings; those the logger writes by itself are spelled out, because a
\* proof knows of no member of STRING.
LevelNames == <<"DEBUG", "INFO", "WARN", "ERROR">>
Slots      == {"level", "message", "traceID", "spanID", "process", "details"}
Words == STRING \cup Branches \cup Slots \cup {LevelNames[n] : n \in 1..4} \cup {"", "m", "[REDACTED]"}

Above(p) == Prefixes(p) \ {p}

\* What is above an end is an object, a list or JSON; the values of a Headers
\* object are strings, which may hold JSON.
IsTree(v) ==
  /\ v \in [DOMAIN v -> Words] /\ DOMAIN v \subseteq Seq(Words) /\ << >> \in DOMAIN v
  /\ \A p \in DOMAIN v :
       /\ \A q \in Above(p) : q \in DOMAIN v /\ v[q] \in Branches
       /\ p # << >> /\ v[Front(p)] = "headers" => v[p] \notin Objects \cup {"list"}

ASSUME LoggingAssumption ==
  /\ MaxDepth \in Nat \ {0}
  /\ \A attrs \in Attributes : DOMAIN attrs \subseteq Words /\ \A k \in DOMAIN attrs : IsTree(attrs[k])

Levels == 1..4

VARIABLES
  base,           \* base[i]: the always-on attributes of logger i
  testMode,       \* output is suppressed
  lines           \* the entries handed to the sink

loggingVars == <<base, testMode, lines>>

Plain(text) == [p \in {<< >>} |-> text]
Root(v) == v[<< >>]
IsString(v) == Root(v) \notin Objects \cup {"list"}

\* The tree with the trees of f below a root with this label, and back.
Grown(label, f) ==
  [p \in {<< >>} \cup UNION {{<<k>> \o q : q \in DOMAIN f[k]} : k \in DOMAIN f} |->
     IF p = << >> THEN label ELSE f[Head(p)][Tail(p)]]
Keys(v) == {Head(p) : p \in DOMAIN v \ {<< >>}}
Below(v, k) ==
  [q \in {Tail(p) : p \in {p \in DOMAIN v \ {<< >>} : Head(p) = k}} |-> v[<<k>> \o q]]

---------------------------------------------------------------------------
(* omitIgnoredHeaders.                                                     *)

\* A Headers object, or an object under the key "headers".
HoldsHeaders(v, p) ==
  v[p] = "headers" \/ (v[p] = "record" /\ p # << >> /\ Last(p) = "headers")

\* Neither headers nor the strings that hold JSON are searched for more, nor
\* is an object that is not plain (isRecord).
Searched(v, p) == \A q \in Above(p) : v[q] \notin {"json", "instance"} /\ ~HoldsHeaders(v, q)

Ignored(v, p) ==
  /\ p # << >> /\ Last(p) \in IgnoredHeaders
  /\ HoldsHeaders(v, Front(p)) /\ Searched(v, Front(p))

OmitIgnoredHeaders(v) ==
  [p \in {p \in DOMAIN v : \A q \in Prefixes(p) : ~Ignored(v, q)} |->
     IF v[p] = "headers" /\ Searched(v, p) THEN "record" ELSE v[p]]

\* Without ignored headers the attributes are left as they are.
OmitHeaders(attrs) ==
  LET v == OmitIgnoredHeaders(Grown("record", attrs))
  IN  IF IgnoredHeaders = {} THEN attrs ELSE [k \in Keys(v) |-> Below(v, k)]

---------------------------------------------------------------------------
(* Sanitizer.#redact.                                                      *)

\* The walk stops at its limit and does not go into the values of a Headers
\* object (headers), not even where they hold JSON.
\* Mistaken: it takes a string for plain text whatever it holds.
WalkedPlain(v, p) == Len(p) < MaxDepth /\ \A q \in Above(p) : v[q] \notin {"headers", "json"}
Walked(v, p)      == Len(p) < MaxDepth /\ \A q \in Above(p) : v[q] # "headers"

Redacted(v, p) ==
  /\ p # << >> /\ Last(p) \in SensitiveKeys
  /\ v[Front(p)] \in Objects /\ Walked(v, Front(p))

\* Every object is written as a plain one: its label says what it was.
Redact(v) ==
  [p \in {p \in DOMAIN v : \A q \in Above(p) : ~Redacted(v, q)} |->
     IF Redacted(v, p) THEN "[REDACTED]" ELSE v[p]]

---------------------------------------------------------------------------
(* Logger.                                                                 *)

TopLevel == {"traceID", "spanID", "latency", "services", "process"}

Given(attrs, k, Fits(_), v) == IF k \in DOMAIN attrs /\ Fits(attrs[k]) THEN attrs[k] ELSE v
IsList(v) == Root(v) = "list"

\* #buildEntry: the top-level attributes, and all others under details, where
\* a Headers object has become a record.
BuildEntry(level, message, attrs) ==
  LET services == IF "services" \in DOMAIN attrs THEN "services" ELSE "process"
      Normalized(v) == [v EXCEPT ![<< >>] = IF @ = "headers" THEN "record" ELSE @]
  IN  Grown("record",
        [level   |-> Plain(LevelNames[level]),
         message |-> message,
         traceID |-> Given(attrs, "traceID", IsString, Plain("")),
         spanID  |-> Given(attrs, "spanID", IsString, Plain("")),
         process |-> Given(attrs, services, IsList, Plain("list")),
         details |-> Grown("record", [k \in DOMAIN attrs \ TopLevel |->
                       IF k = "headers" THEN Normalized(attrs[k]) ELSE attrs[k]])])

\* { ...defaults, ...attrs }
Merged(attrs, defaults) ==
  [k \in DOMAIN attrs \cup DOMAIN defaults |-> IF k \in DOMAIN attrs THEN attrs[k] ELSE defaults[k]]

LoggingInit ==
  /\ base = << << >> >>
  /\ testMode = FALSE
  /\ lines = << >>

\* Logger.with: the child's attributes win over its parent's.
With(i) ==
  /\ Len(base) < 2
  /\ \E attrs \in Attributes : base' = Append(base, Merged(attrs, base[i]))
  /\ UNCHANGED <<testMode, lines>>

Enabled(level) == ~testMode /\ level >= MinLevel

\* The entry one log call hands to the formatter.
Entry(i, level, message, attrs) ==
  Redact(BuildEntry(level, message, OmitHeaders(Merged(attrs, base[i]))))

\* debug, info, warn and error.
Log(i) ==
  /\ Len(lines) < MaxLines
  /\ \E level \in Levels, attrs \in Attributes :
       \E message \in {Plain("m")} \cup {attrs[k] : k \in DOMAIN attrs} :
         /\ IsString(message)
         /\ lines' = IF Enabled(level)
                     THEN Append(lines, Entry(i, level, message, attrs))
                     ELSE lines
  /\ UNCHANGED <<base, testMode>>

\* enableModeTest and disableModeTest.
SwitchTestMode ==
  /\ testMode' = ~testMode
  /\ UNCHANGED <<base, lines>>

LoggingNext ==
  \/ SwitchTestMode
  \/ \E i \in DOMAIN base : With(i) \/ Log(i)

LoggingSpec == LoggingInit /\ [][LoggingNext]_loggingVars

---------------------------------------------------------------------------
(* What a reader of a line can find in it, up to the sanitizer's depth.    *)

\* Below a JSON text that a Headers object had for a value when the sanitizer
\* came to it.
InHeaderText(v, p) == \E q \in Above(p) \ {<< >>} : v[q] = "json" /\ v[Front(q)] = "headers"

Shows(v) ==
  \E p \in DOMAIN v \ {<< >>} :
    /\ Len(p) <= MaxDepth /\ v[Front(p)] \in Objects /\ ~InHeaderText(v, p)
    /\ Last(p) \in SensitiveKeys /\ v[p] # "[REDACTED]"

CarriesIgnored(v) == \E p \in DOMAIN v : Ignored(v, p)

(***************************************************************************)
(* No line carries the value of a sensitive key, at whatever depth below   *)
(* the sanitizer's limit it sits, in a list, in an object of any class, in *)
(* headers, in a string that holds JSON, in the message or among the       *)
(* attributes a parent logger was given; and no line carries an ignored    *)
(* header (#log, Sanitizer.#redact).  Two cases are excepted, in which the *)
(* code writes them: JSON in a value of a Headers object that is still one *)
(* when the sanitizer meets it (InHeaderText; one that                     *)
(* omitIgnoredHeaders or normalizeHeaders has turned into a record is not) *)
(* and ignored headers somewhere in an object that is not plain, which     *)
(* omitIgnoredHeaders does not search (Searched).                          *)
(***************************************************************************)
NothingSensitiveWritten ==
  \A n \in DOMAIN lines : ~Shows(lines[n]) /\ ~CarriesIgnored(lines[n])
=============================================================================
