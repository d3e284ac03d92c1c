------------------------------- MODULE Config -------------------------------
(***************************************************************************)
(* The configuration loader (src/tools/utilities/config.ts, ini.ts and     *)
(* values.ts): concurrent loadEnv calls that read layered files, export    *)
(* the values of .env files to the process environment, apply the          *)
(* environment to the keys the files declare, and replace the              *)
(* configuration that getConfig hands out.                                 *)
(*                                                                         *)
(* A settings tree is the function from its leaves' key paths to typed     *)
(* values; no leaf's path is a prefix of another's.  A typed value is a    *)
(* pair <<kind, text>>, or <<"list", items>>.  Every await of loadEnv ends *)
(* an action; whatever runs between two awaits is one step.                *)
(***************************************************************************)
EXTENDS Naturals, SequencesExt, TLC

CONSTANTS
  Loads,        \* calls of loadEnv
  Starts,       \* the directories a load may start from
  Up,           \* Up[d]: the directories from d to the root, d first
  Resources,    \* Resources[d]: the directory d/resources
  Files,        \* Files[d]: what directory d holds, see below
  Environments, \* the process environments a process may start with
  EnvName,      \* EnvName[p]: the variable of key path p (not injective)
  Numerals,     \* the raw texts Number() reads as themselves
  Items,        \* Items[t]: the comma-separated entries of text t
  JsonLists,    \* JsonLists[t]: the typed items of a text that is a JSON array
  Bracketed,    \* the texts of the form [ ... ]
  None          \* undefined

(***************************************************************************)
(* Files[d] is a record: app, the settings of the application file or      *)
(* None; ini, from the names of the INI files in d to their lines; env,    *)
(* from the names of the .env files to their assignments.  An INI line is  *)
(* <<"section", path>>, <<"pair", path, text, quoted>> or <<"malformed">>. *)
(***************************************************************************)
(* Every load starts in a directory whose way up is known, directories are *)
(* described, and what a .env file assigns is a text.                      *)
ASSUME ConfigAssumption ==
  /\ Starts \subseteq DOMAIN Up \cap DOMAIN Resources \cap DOMAIN Files
  /\ \A d \in DOMAIN Up : Up[d] \in Seq(DOMAIN Resources)
  /\ \A d \in DOMAIN Resources : Resources[d] \in DOMAIN Files
  /\ \A d \in DOMAIN Files : \A f \in DOMAIN Files[d].env :
       None \notin {Files[d].env[f][n] : n \in DOMAIN Files[d].env[f]}

AppName == <<"app", "name">>
EnvFiles == <<"env", "files">>

VARIABLES
  env,          \* the process environment (shared by all loads)
  load,         \* load[l]: where load l stands and what it has built
  current       \* the settings getConfig hands out

configVars == <<env, load, current>>

---------------------------------------------------------------------------
(* Typed values (values.ts).                                               *)

Text(t) == <<"string", t>>
Number(t) == <<"number", t>>
Boolean(t) == <<"boolean", t>>
List(items) == <<"list", items>>
Record == <<"record">>
Kind(v) == IF v = None THEN "none" ELSE v[1]

ParseBoolean(t) ==
  CASE t \in {"1", "t", "true"} -> Boolean("true")
    [] t \in {"0", "f", "false"} -> Boolean("false")
    [] OTHER -> None

\* Only "true" and "false" become booleans, and the empty text stays text.
InferScalar(t) ==
  CASE t \in {"true", "false"} -> Boolean(t)
    [] t \in Numerals -> Number(t)
    [] OTHER -> Text(t)

SplitCommaSeparated(t) == IF t \in DOMAIN Items THEN Items[t] ELSE <<t>>

ParseList(t, stringsOnly) ==
  IF t \in DOMAIN JsonLists
  THEN IF stringsOnly
       THEN [i \in DOMAIN JsonLists[t] |-> Text(JsonLists[t][i][2])]
       ELSE JsonLists[t]
  ELSE LET items == SplitCommaSeparated(t)
       IN  [i \in DOMAIN items |-> IF stringsOnly THEN Text(items[i])
                                                  ELSE InferScalar(items[i])]

\* Number("") is 0: an empty text is a number where a number was declared.
ParseEnvValue(t, template) ==
  CASE Kind(template) = "boolean" ->
         IF ParseBoolean(t) = None THEN Text(t) ELSE ParseBoolean(t)
    [] Kind(template) = "number" ->
         IF t \in Numerals THEN Number(t)
         ELSE IF t = "" THEN Number("0") ELSE Text(t)
    [] Kind(template) = "list" ->
         List(ParseList(t, \A i \in DOMAIN template[2] :
                              Kind(template[2][i]) = "string"))
    [] OTHER -> Text(t)

---------------------------------------------------------------------------
(* Settings trees (values.ts).                                             *)

ReadPath(s, p) ==
  CASE p \in DOMAIN s -> s[p]
    [] \E q \in DOMAIN s : IsStrictPrefix(p, q) -> Record
    [] OTHER -> None

\* A scalar on the way becomes a record; a record at the end is replaced.
WritePath(s, p, v) ==
  LET kept == {q \in DOMAIN s : ~IsPrefix(p, q) /\ ~IsPrefix(q, p)}
  IN  [q \in kept \cup {p} |-> IF q = p THEN v ELSE s[q]]

MergeSettings(target, source) ==
  LET kept == {q \in DOMAIN target :
                 \A p \in DOMAIN source : ~IsPrefix(p, q) /\ ~IsPrefix(q, p)}
  IN  source @@ [q \in kept |-> target[q]]

---------------------------------------------------------------------------
(* INI files (ini.ts).                                                     *)

ParseIniValue(t, quoted, template) ==
  CASE quoted -> Text(t)
    [] ~quoted /\ t \in Bracketed -> List(ParseList(t, FALSE))
    [] ~quoted /\ t \notin Bracketed ->
         IF Kind(template) \in {"none", "null"} THEN InferScalar(t)
                                                ELSE ParseEnvValue(t, template)

AsList(v) == IF Kind(v) = "list" THEN v[2] ELSE <<v>>

\* Repeating a key inside one file appends to a list.
SetIniValue(s, p, v) ==
  LET existing == ReadPath(s, p)
  IN  WritePath(s, p, IF existing = None THEN v
                      ELSE List(AsList(existing) \o AsList(v)))

Malformed(lines) == \E i \in DOMAIN lines : lines[i] = <<"malformed">>

ParseIni(lines, declared) ==
  FoldLeft(
    LAMBDA acc, line :
      IF line[1] = "section" THEN [acc EXCEPT !.section = line[2]]
      ELSE LET p == acc.section \o line[2]
               v == ParseIniValue(line[3], line[4], ReadPath(declared, p))
           IN  [acc EXCEPT !.settings = SetIniValue(@, p, v)],
    [section |-> << >>, settings |-> << >>], lines).settings

---------------------------------------------------------------------------
(* Which files are read (config.ts).                                       *)

ReadEnv(name) == IF name \in DOMAIN env THEN env[name] ELSE None

\* The INI file of an application name; "default" is the shared one already
\* merged, and a name with a path separator selects nothing.
IniFileName(name) == IF name \in {None, "", ".", "..", "default", "../x"}
                     THEN None ELSE name

ApplicationIniName(s) ==
  LET fromEnv == IniFileName(ReadEnv("APP_NAME"))
      declared == ReadPath(s, AppName)
  IN  IF fromEnv # None THEN fromEnv
      ELSE IniFileName(IF Kind(declared) = "string" THEN declared[2] ELSE None)

HasIniFile(d) ==
  \/ "default" \in DOMAIN Files[d].ini
  \/ IniFileName(ReadEnv("APP_NAME")) \in DOMAIN Files[d].ini

HasConfigFiles(d) == Files[d].app # None \/ HasIniFile(d)

\* The start directory, or the nearest resources directory upwards.
ResolveConfigDir(start) ==
  LET usable == {i \in DOMAIN Up[start] : HasConfigFiles(Resources[Up[start][i]])}
  IN  IF HasConfigFiles(start) THEN start
      ELSE IF usable = {} THEN Resources[start]
      ELSE Resources[Up[start][CHOOSE i \in usable : \A j \in usable : i <= j]]

DeclaredEnvFiles(s) ==
  LET declared == ReadPath(s, EnvFiles)
  IN  CASE Kind(declared) = "list" ->
             [i \in DOMAIN declared[2] |-> declared[2][i][2]]
        [] Kind(declared) = "string" -> SplitCommaSeparated(declared[2])
        [] OTHER -> << >>

---------------------------------------------------------------------------
(* The steps of one loadEnv call.                                          *)

Idle == [pc |-> "idle", dir |-> None, exports |-> FALSE, overrides |-> FALSE,
         settings |-> << >>, ini |-> None, files |-> << >>, read |-> 0, overlay |-> << >>,
         result |-> None]

ConfigInit ==
  /\ env \in Environments
  /\ load = [l \in Loads |-> Idle]
  /\ current = << >>

\* A call begins: the directory is resolved before the first await.
LoadEnv(l) ==
  /\ load[l].pc = "idle"
  /\ \E start \in Starts, exports, overrides \in BOOLEAN :
       load' = [load EXCEPT ![l] =
         [Idle EXCEPT !.pc = "application", !.dir = ResolveConfigDir(start),
                      !.exports = exports, !.overrides = overrides]]
  /\ UNCHANGED <<env, current>>

\* The first application file that exists, or an empty tree for INI alone.
ReadApplicationFile(l) ==
  LET d == load[l].dir
  IN  /\ load[l].pc = "application"
      /\ \/ /\ Files[d].app # None
            /\ load' = [load EXCEPT ![l].pc = "default",
                                    ![l].settings = Files[d].app]
         \/ /\ Files[d].app = None
            /\ load' = [load EXCEPT ![l].pc = IF HasIniFile(d) THEN "default"
                                                               ELSE "failed"]
      /\ UNCHANGED <<env, current>>

\* The settings after merging INI file name of directory d, if it exists.
MergeIniFile(d, name, s) ==
  IF name \in DOMAIN Files[d].ini
  THEN MergeSettings(s, ParseIni(Files[d].ini[name], s))
  ELSE s

Readable(d, name) ==
  name \in DOMAIN Files[d].ini => ~Malformed(Files[d].ini[name])

\* default.ini is merged; only then is the application's INI file named.
MergeDefaultIni(l) ==
  LET s == MergeIniFile(load[l].dir, "default", load[l].settings)
      name == ApplicationIniName(s)
  IN  /\ load[l].pc = "default"
      /\ Readable(load[l].dir, "default")
      /\ load' = [load EXCEPT
           ![l].settings = s, ![l].ini = name,
           ![l].pc = IF name = None THEN "env" ELSE "ini",
           ![l].files = IF name = None THEN DeclaredEnvFiles(s) ELSE << >>]
      /\ UNCHANGED <<env, current>>

MergeApplicationIni(l) ==
  LET s == MergeIniFile(load[l].dir, load[l].ini, load[l].settings)
  IN  /\ load[l].pc = "ini"
      /\ Readable(load[l].dir, load[l].ini)
      /\ load' = [load EXCEPT ![l].settings = s, ![l].pc = "env",
                              ![l].files = DeclaredEnvFiles(s)]
      /\ UNCHANGED <<env, current>>

\* The variables of old with those of a .env file assigned over them.
Assign(vars, old) ==
  [n \in DOMAIN vars \cup DOMAIN old |-> IF n \in DOMAIN vars THEN vars[n] ELSE old[n]]

\* What a .env file assigns.  A file that does not exist is skipped.
EnvFile(d, name) == IF name \in DOMAIN Files[d].env THEN Files[d].env[name] ELSE << >>

\* The next .env file: its values go to the overlay and, as they are read, to
\* the process environment.
LoadEnvFile(l) ==
  LET vars == EnvFile(load[l].dir, load[l].files[load[l].read + 1])
  IN  /\ load[l].pc = "env"
      /\ load[l].read < Len(load[l].files)
      /\ load' = [load EXCEPT ![l].read = @ + 1, ![l].overlay = Assign(vars, @)]
      /\ env' = IF load[l].exports THEN Assign(vars, env) ELSE env
      /\ UNCHANGED current

\* A mistaken lookup: the exported values are read back from the process.
OverrideReadBack(overlay, name) ==
  IF ReadEnv(name) # None THEN ReadEnv(name)
  ELSE IF name \in DOMAIN overlay THEN overlay[name] ELSE None

\* The raw text a leaf is overridden with, if any.
Override(overlay, name) ==
  IF name \in DOMAIN overlay THEN overlay[name] ELSE ReadEnv(name)

ApplyEnvOverrides(s, overlay) ==
  [p \in DOMAIN s |->
     LET raw == Override(overlay, EnvName[p])
     IN  IF raw = None THEN s[p] ELSE ParseEnvValue(raw, s[p])]

\* After the last file: the environment is applied and the result published.
Publish(l) ==
  LET s == IF load[l].overrides
           THEN ApplyEnvOverrides(load[l].settings, load[l].overlay)
           ELSE load[l].settings
  IN  /\ load[l].pc = "env"
      /\ load[l].read = Len(load[l].files)
      /\ load' = [load EXCEPT ![l].pc = "done", ![l].result = s]
      /\ current' = s
      /\ UNCHANGED env

\* A read fails or a file is malformed: the call throws; what it exported stays.
FailLoad(l) ==
  /\ load[l].pc \in {"application", "default", "ini", "env"}
  /\ load[l].pc = "env" => load[l].read < Len(load[l].files)
  /\ load' = [load EXCEPT ![l].pc = "failed"]
  /\ UNCHANGED <<env, current>>

ConfigNext ==
  \E l \in Loads :
    \/ LoadEnv(l) \/ ReadApplicationFile(l) \/ MergeDefaultIni(l)
    \/ MergeApplicationIni(l) \/ LoadEnvFile(l) \/ Publish(l) \/ FailLoad(l)

ConfigSpec == ConfigInit /\ [][ConfigNext]_configVars

---------------------------------------------------------------------------
(* Properties.                                                             *)

\* The variables that .env files have put into the process environment.
Exported == UNION {DOMAIN load[l].overlay : l \in {k \in Loads : load[k].exports}}

(***************************************************************************)
(* Loading again changes nothing: two calls that read the same directory   *)
(* end with the same settings, however they and other loads overlap and    *)
(* whatever has been exported to the process environment before or between *)
(* them (loadEnvFiles, applyEnvOverrides).  Excepted are the variables     *)
(* that only another directory's .env files have exported, which look like *)
(* the environment the process was started with, and APP_NAME, which       *)
(* selects the files of a later load.                                      *)
(***************************************************************************)
ReloadsAgree ==
  \A k, l \in Loads :
    /\ {load[k].pc, load[l].pc} = {"done"}
    /\ load[k].dir = load[l].dir
    /\ load[k].overrides = load[l].overrides
    /\ Exported \subseteq DOMAIN load[k].overlay \ {"APP_NAME"}
    => load[k].result = load[l].result

(***************************************************************************)
(* What the documentation of the loader says (config.ts:9-18, README.md):  *)
(* a key whose variable the process environment sets has that value, each  *)
(* source overriding the previous ones, the files of env.files included.   *)
(* Only processes in which nothing is exported are considered, so that the *)
(* environment is the one the process was started with.                    *)
(***************************************************************************)
ProcessEnvironmentWins ==
  Exported = {} =>
    \A l \in Loads :
      load[l].pc = "done" /\ load[l].overrides =>
        \A p \in DOMAIN load[l].settings :
          EnvName[p] \in DOMAIN env =>
            load[l].result[p] = ParseEnvValue(env[EnvName[p]], load[l].settings[p])
=============================================================================
