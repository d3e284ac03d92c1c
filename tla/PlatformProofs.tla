--------------------------- MODULE PlatformProofs ---------------------------
(***************************************************************************)
(* Proofs about the parts of a service process that Platform puts side by  *)
(* side: the configuration loader, the cloud KMS repository, the           *)
(* in-process crypto provider, the servers and the logger.  Each part is   *)
(* proved by itself, from its own specification, for any number of loads,  *)
(* calls, keys, requests and lines; a process in which their steps are     *)
(* interleaved is a behaviour of each of them (PartsOfTheProcess).         *)
(***************************************************************************)
EXTENDS Platform, SequenceTheorems, FiniteSetTheorems, WellFoundedInduction, TLAPS

-----------------------------------------------------------------------------
(* A set of naturals that is not empty has a smallest element.             *)
LEMMA SmallestNumber ==
  ASSUME NEW T \in SUBSET Nat, T # {}
  PROVE  \E x \in T : \A y \in T : x <= y
<1> DEFINE R == {ss \in Nat \X Nat : ss[1] < ss[2]}
<1>1. IsWellFoundedOn(R, Nat)
  BY NatLessThanWellFounded DEF OpToRel
<1>2. \A x, y \in Nat : y < x => <<y, x>> \in R
  OBVIOUS
<1> HIDE DEF R
<1>3. \E x \in T : \A y \in T : ~(<<y, x>> \in R)
  BY <1>1, WFMin
<1>4. PICK x \in T : \A y \in T : ~(<<y, x>> \in R)
  BY <1>3
<1>5. ASSUME NEW y \in T PROVE x <= y
  <2>1. x \in Nat /\ y \in Nat /\ ~(y < x)
    BY <1>2, <1>4
  <2> QED  BY <2>1
<1> QED  BY <1>5

-----------------------------------------------------------------------------
(* The configuration loader.                                               *)

LoadFields == {"pc", "dir", "exports", "overrides", "settings", "ini", "files", "read",
               "overlay", "result"}

\* What a name is in the environment e.
EnvAt(e, n) == IF n \in DOMAIN e THEN e[n] ELSE None

\* What the files of directory d come to: after the application file, after
\* default.ini, and at last, APP_NAME being raw.
AppSettings(d) == IF Files[d].app # None THEN Files[d].app ELSE << >>
WithDefaults(d) == MergeIniFile(d, "default", AppSettings(d))
NameFor(raw, s) ==
  LET declared == ReadPath(s, AppName)
  IN  IF IniFileName(raw) # None THEN IniFileName(raw)
      ELSE IniFileName(IF Kind(declared) = "string" THEN declared[2] ELSE None)
Settled(raw, d) ==
  LET name == NameFor(raw, WithDefaults(d))
  IN  IF name = None THEN WithDefaults(d) ELSE MergeIniFile(d, name, WithDefaults(d))

\* The overlay is what the .env files read so far assign, the last one first.
OverlayOK(r) ==
  LET assigns(j) == EnvFile(r.dir, r.files[j])
  IN  /\ r.read \in Nat
      /\ DOMAIN r.overlay = UNION {DOMAIN assigns(j) : j \in 1 .. r.read}
      /\ \A n \in DOMAIN r.overlay :
           \E j \in 1 .. r.read :
             /\ n \in DOMAIN assigns(j) /\ r.overlay[n] = assigns(j)[n]
             /\ \A m \in 1 .. r.read : m > j => n \notin DOMAIN assigns(m)

\* A published result, in the environment e where the names of x have been
\* exported: any other name is what it was when the load published.
ResultOK(r, e, x) ==
  /\ ~r.overrides => r.result = r.settings
  /\ r.overrides =>
       /\ r.result = [p \in DOMAIN r.settings |-> r.result[p]]
       /\ \A p \in DOMAIN r.settings :
            LET n == EnvName[p]
            IN  /\ n \in DOMAIN r.overlay => r.result[p] = ParseEnvValue(r.overlay[n], r.settings[p])
                /\ n \notin DOMAIN r.overlay /\ n \notin x =>
                     r.result[p] = IF EnvAt(e, n) = None THEN r.settings[p]
                                   ELSE ParseEnvValue(EnvAt(e, n), r.settings[p])

\* Where a load stands, what it has built depends on its directory and on
\* APP_NAME alone, as long as APP_NAME has not been exported.
RecordOK(r, e, x) ==
  /\ DOMAIN r = LoadFields
  /\ r.pc # "idle" => r.dir \in DOMAIN Files
  /\ r.pc \in {"idle", "application", "default", "ini"} => r.read = 0 /\ r.overlay = << >>
  /\ r.pc = "application" => r.settings = << >>
  /\ r.pc = "default" => r.settings = AppSettings(r.dir)
  /\ r.pc = "ini" =>
       /\ r.settings = WithDefaults(r.dir) /\ r.ini # None
       /\ "APP_NAME" \notin x => r.ini = NameFor(EnvAt(e, "APP_NAME"), WithDefaults(r.dir))
  /\ r.pc \in {"env", "done"} =>
       /\ OverlayOK(r) /\ r.files = DeclaredEnvFiles(r.settings)
       /\ "APP_NAME" \notin x => r.settings = Settled(EnvAt(e, "APP_NAME"), r.dir)
  /\ r.pc = "done" => r.read = Len(r.files) /\ ResultOK(r, e, x)

ConfigInv == DOMAIN load = Loads /\ \A l \in Loads : RecordOK(load[l], env, Exported)

(* The directory a load resolves is one that is described.                 *)
LEMMA ConfigDirIsDescribed ==
  ASSUME NEW d \in Starts
  PROVE  ResolveConfigDir(d) \in DOMAIN Files
<1> DEFINE usable == {i \in DOMAIN Up[d] : HasConfigFiles(Resources[Up[d][i]])}
<1>1. d \in DOMAIN Up /\ d \in DOMAIN Resources /\ d \in DOMAIN Files
  BY ConfigAssumption
<1>2. \A i \in DOMAIN Up[d] : Up[d][i] \in DOMAIN Resources
  <2>1. Up[d] \in Seq(DOMAIN Resources)
    BY <1>1, ConfigAssumption
  <2> QED  BY <2>1, LenProperties, ElementOfSeq
<1>3. Resources[d] \in DOMAIN Files
  BY <1>1, ConfigAssumption
<1>4. CASE usable = {}
  BY <1>1, <1>3, <1>4 DEF ResolveConfigDir
<1>5. CASE usable # {}
  <2>1. usable \in SUBSET Nat
    <3>1. DOMAIN Up[d] = 1..Len(Up[d])
      BY <1>1, ConfigAssumption, LenProperties
    <3> QED  BY <3>1
  <2>2. \E i \in usable : \A j \in usable : i <= j
    BY <1>5, <2>1, SmallestNumber
  <2>3. (CHOOSE i \in usable : \A j \in usable : i <= j) \in usable
    BY <2>2
  <2>4. Resources[Up[d][CHOOSE i \in usable : \A j \in usable : i <= j]] \in DOMAIN Files
    BY <2>3, <1>2, ConfigAssumption
  <2> QED  BY <1>1, <1>5, <2>4 DEF ResolveConfigDir
<1> QED  BY <1>4, <1>5

(* What a load has built stays right while names are exported.             *)
LEMMA RecordStaysOK ==
  ASSUME NEW r, NEW e, NEW f, NEW x, NEW y, RecordOK(r, e, x), x \subseteq y,
         \A n : n \notin y => EnvAt(f, n) = EnvAt(e, n)
  PROVE  RecordOK(r, f, y)
<1>1. "APP_NAME" \notin y => "APP_NAME" \notin x /\ EnvAt(f, "APP_NAME") = EnvAt(e, "APP_NAME")
  OBVIOUS
<1>2. ResultOK(r, e, x) => ResultOK(r, f, y)
  <2> SUFFICES ASSUME ResultOK(r, e, x) PROVE ResultOK(r, f, y)
    OBVIOUS
  <2> QED  BY DEF ResultOK
<1> QED  BY <1>1, <1>2 DEF RecordOK

(* The names exported when one load moves on.                              *)
LEMMA ExportedGrows ==
  ASSUME DOMAIN load = Loads, NEW l \in Loads, NEW r, load' = [load EXCEPT ![l] = r],
         \/ DOMAIN load[l].overlay = {}
         \/ r.exports = load[l].exports /\ DOMAIN load[l].overlay \subseteq DOMAIN r.overlay
  PROVE  /\ Exported \subseteq Exported'
         /\ r.exports => DOMAIN r.overlay \subseteq Exported'
<1>1. load'[l] = r /\ \A m \in Loads \ {l} : load'[m] = load[m]
  OBVIOUS
<1>2. Exported' = UNION {DOMAIN load'[m].overlay : m \in {k \in Loads : load'[k].exports}}
  BY DEF Exported
<1>3. ASSUME NEW n \in Exported PROVE n \in Exported'
  <2>1. PICK m \in Loads : load[m].exports /\ n \in DOMAIN load[m].overlay
    BY <1>3 DEF Exported
  <2>2. load'[m].exports /\ n \in DOMAIN load'[m].overlay
    BY <1>1, <2>1
  <2> QED  BY <1>2, <2>2
<1>4. ASSUME r.exports PROVE DOMAIN r.overlay \subseteq Exported'
  BY <1>1, <1>2, <1>4
<1> QED  BY <1>3, <1>4

(* The name of the application's INI file, in the environment at hand.     *)
LEMMA NameIsFor == \A s : ApplicationIniName(s) = NameFor(EnvAt(env, "APP_NAME"), s)
BY DEF ApplicationIniName, NameFor, ReadEnv, EnvAt

(* One more .env file.                                                     *)
LEMMA OverlayGrows ==
  ASSUME NEW r, NEW s, OverlayOK(r), s.dir = r.dir, s.files = r.files, s.read = r.read + 1,
         s.overlay = Assign(EnvFile(r.dir, r.files[r.read + 1]), r.overlay)
  PROVE  OverlayOK(s)
<1> DEFINE assigns(j) == EnvFile(r.dir, r.files[j])
           k == r.read
<1>1. /\ k \in Nat /\ DOMAIN r.overlay = UNION {DOMAIN assigns(j) : j \in 1..k}
      /\ \A n \in DOMAIN r.overlay :
           \E j \in 1..k : /\ n \in DOMAIN assigns(j) /\ r.overlay[n] = assigns(j)[n]
                           /\ \A m \in 1..k : m > j => n \notin DOMAIN assigns(m)
  BY DEF OverlayOK
<1>2. /\ s.overlay = Assign(assigns(k + 1), r.overlay)
      /\ DOMAIN s.overlay = DOMAIN assigns(k + 1) \cup DOMAIN r.overlay
      /\ \A n \in DOMAIN s.overlay :
           s.overlay[n] = IF n \in DOMAIN assigns(k + 1) THEN assigns(k + 1)[n] ELSE r.overlay[n]
  BY DEF Assign
<1> HIDE DEF assigns, k
<1>3. /\ k + 1 \in Nat /\ \A j \in 1 .. k + 1 : j \in 1..k \/ j = k + 1
      /\ k + 1 \in 1 .. k + 1 /\ \A j \in 1..k : j \in 1 .. k + 1 /\ ~(j > k + 1)
      /\ \A m \in 1 .. k + 1 : ~(m > k + 1)
  BY <1>1
<1>4. DOMAIN s.overlay = UNION {DOMAIN assigns(j) : j \in 1 .. k + 1}
  BY <1>1, <1>2, <1>3
<1>5. ASSUME NEW n \in DOMAIN s.overlay
      PROVE  \E j \in 1 .. k + 1 : /\ n \in DOMAIN assigns(j) /\ s.overlay[n] = assigns(j)[n]
                                   /\ \A m \in 1 .. k + 1 : m > j => n \notin DOMAIN assigns(m)
  <2>1. CASE n \in DOMAIN assigns(k + 1)
    BY <1>2, <1>3, <2>1
  <2>2. CASE n \notin DOMAIN assigns(k + 1)
    <3>1. PICK j \in 1..k : /\ n \in DOMAIN assigns(j) /\ r.overlay[n] = assigns(j)[n]
                            /\ \A m \in 1..k : m > j => n \notin DOMAIN assigns(m)
      BY <1>1, <1>2, <2>2
    <3> QED  BY <1>2, <1>3, <2>2, <3>1
  <2> QED  BY <2>1, <2>2
<1> QED  BY <1>3, <1>4, <1>5 DEF OverlayOK, assigns, k

(* Each step of a load keeps the invariant of all loads.                   *)
LEMMA ConfigStep == ConfigInv /\ [ConfigNext]_configVars => ConfigInv'
<1> SUFFICES ASSUME ConfigInv, [ConfigNext]_configVars PROVE ConfigInv'
  OBVIOUS
<1>0. DOMAIN load = Loads /\ \A l \in Loads : RecordOK(load[l], env, Exported)
  BY DEF ConfigInv
\* A load moves on: it exports what its overlay gains, if anything.
<1>1. ASSUME NEW l \in Loads, NEW r, load' = [load EXCEPT ![l] = r],
             \/ DOMAIN load[l].overlay = {}
             \/ r.exports = load[l].exports /\ DOMAIN load[l].overlay \subseteq DOMAIN r.overlay,
             \/ env' = env
             \/ /\ r.exports
                /\ \A n : n \notin DOMAIN r.overlay => EnvAt(env', n) = EnvAt(env, n),
             RecordOK(load[l], env', Exported') => RecordOK(r, env', Exported')
      PROVE  ConfigInv'
  <2>1. /\ Exported \subseteq Exported'
        /\ r.exports => DOMAIN r.overlay \subseteq Exported'
    BY <1>0, <1>1, ExportedGrows
  <2>2. \A n : n \notin Exported' => EnvAt(env', n) = EnvAt(env, n)
    BY <1>1, <2>1
  <2>3. \A m \in Loads : RecordOK(load[m], env', Exported')
    BY <1>0, <2>1, <2>2, RecordStaysOK
  <2>4. DOMAIN load' = Loads /\ load'[l] = r /\ \A m \in Loads \ {l} : load'[m] = load[m]
    BY <1>0, <1>1
  <2>5. \A m \in Loads : RecordOK(load'[m], env', Exported')
    BY <1>1, <2>3, <2>4
  <2> QED  BY <2>4, <2>5 DEF ConfigInv
<1>2. ASSUME NEW l \in Loads, LoadEnv(l) PROVE ConfigInv'
  <2>1. PICK start \in Starts, exports \in BOOLEAN, overrides \in BOOLEAN :
          load' = [load EXCEPT ![l] =
            [Idle EXCEPT !.pc = "application", !.dir = ResolveConfigDir(start),
                         !.exports = exports, !.overrides = overrides]]
    BY <1>2 DEF LoadEnv
  <2> DEFINE r == [Idle EXCEPT !.pc = "application", !.dir = ResolveConfigDir(start),
                               !.exports = exports, !.overrides = overrides]
  <2>2. /\ DOMAIN r = LoadFields /\ r.pc = "application" /\ r.dir = ResolveConfigDir(start)
        /\ r.overlay = << >> /\ r.read = 0 /\ r.settings = << >>
    BY DEF Idle, LoadFields
  <2>3. env' = env /\ load' = [load EXCEPT ![l] = r] /\ load[l].pc = "idle"
    BY <1>2, <2>1 DEF LoadEnv
  <2> HIDE DEF r
  <2>4. RecordOK(r, env', Exported')
    BY <2>2, ConfigDirIsDescribed DEF RecordOK
  <2>5. DOMAIN load[l].overlay = {}
    BY <1>0, <2>3 DEF RecordOK
  <2> QED  BY <1>1, <2>3, <2>4, <2>5
<1>3. ASSUME NEW l \in Loads, ReadApplicationFile(l) PROVE ConfigInv'
  <2> DEFINE r1 == [load[l] EXCEPT !.pc = "default", !.settings = Files[load[l].dir].app]
             r2 == [load[l] EXCEPT !.pc = IF HasIniFile(load[l].dir) THEN "default" ELSE "failed"]
  <2>0. DOMAIN load[l] = LoadFields /\ load[l].pc = "application" /\ env' = env
    BY <1>0, <1>3 DEF RecordOK, ReadApplicationFile
  <2>1. \/ Files[load[l].dir].app # None /\ load' = [load EXCEPT ![l] = r1]
        \/ Files[load[l].dir].app = None /\ load' = [load EXCEPT ![l] = r2]
    BY <1>3 DEF ReadApplicationFile
  <2>2. /\ DOMAIN r1 = LoadFields /\ r1.pc = "default" /\ r1.exports = load[l].exports
        /\ r1.dir = load[l].dir /\ r1.overlay = load[l].overlay /\ r1.read = load[l].read
        /\ r1.settings = Files[load[l].dir].app
    BY <2>0 DEF LoadFields
  <2>3. /\ DOMAIN r2 = LoadFields /\ r2.pc \in {"default", "failed"} /\ r2.exports = load[l].exports
        /\ r2.dir = load[l].dir /\ r2.overlay = load[l].overlay /\ r2.read = load[l].read
        /\ r2.settings = load[l].settings
    BY <2>0 DEF LoadFields
  <2> HIDE DEF r1, r2
  <2>4. CASE Files[load[l].dir].app # None /\ load' = [load EXCEPT ![l] = r1]
    <3>1. RecordOK(load[l], env', Exported') => RecordOK(r1, env', Exported')
      BY <2>0, <2>2, <2>4 DEF RecordOK, AppSettings
    <3> QED  BY <1>1, <2>0, <2>2, <2>4, <3>1
  <2>5. CASE Files[load[l].dir].app = None /\ load' = [load EXCEPT ![l] = r2]
    <3>1. RecordOK(load[l], env', Exported') => RecordOK(r2, env', Exported')
      BY <2>0, <2>3, <2>5 DEF RecordOK, AppSettings
    <3> QED  BY <1>1, <2>0, <2>3, <2>5, <3>1
  <2> QED  BY <2>1, <2>4, <2>5
<1>4. ASSUME NEW l \in Loads, MergeDefaultIni(l) PROVE ConfigInv'
  <2> DEFINE s == MergeIniFile(load[l].dir, "default", load[l].settings)
             name == ApplicationIniName(s)
             r == [load[l] EXCEPT !.settings = s, !.ini = name,
                                  !.pc = IF name = None THEN "env" ELSE "ini",
                                  !.files = IF name = None THEN DeclaredEnvFiles(s) ELSE << >>]
  <2>0. DOMAIN load[l] = LoadFields /\ load[l].pc = "default" /\ env' = env
    BY <1>0, <1>4 DEF RecordOK, MergeDefaultIni
  <2>1. s = WithDefaults(load[l].dir) /\ name = NameFor(EnvAt(env, "APP_NAME"), s)
    BY <1>0, <2>0, NameIsFor DEF RecordOK, WithDefaults
  <2> HIDE DEF s, name
  <2>2. load' = [load EXCEPT ![l] = r]
    BY <1>4 DEF MergeDefaultIni, s, name
  <2>3. /\ DOMAIN r = LoadFields /\ r.pc = (IF name = None THEN "env" ELSE "ini")
        /\ r.dir = load[l].dir /\ r.overlay = load[l].overlay /\ r.read = load[l].read
        /\ r.exports = load[l].exports /\ r.settings = s /\ r.ini = name
        /\ name = None => r.files = DeclaredEnvFiles(s)
    BY <2>0 DEF LoadFields
  <2> HIDE DEF r
  <2>4. ASSUME RecordOK(load[l], env', Exported') PROVE RecordOK(r, env', Exported')
    <3>1. r.read = 0 /\ r.overlay = << >> /\ r.dir \in DOMAIN Files
      BY <2>0, <2>3, <2>4 DEF RecordOK
    <3>2. OverlayOK(r)
      BY <3>1 DEF OverlayOK
    <3>3. name = None => s = Settled(EnvAt(env', "APP_NAME"), r.dir)
      BY <2>0, <2>1, <2>3 DEF Settled
    <3>4. CASE name = None
      BY <2>3, <3>1, <3>2, <3>3, <3>4 DEF RecordOK
    <3>5. CASE name # None
      BY <2>0, <2>1, <2>3, <3>1, <3>5 DEF RecordOK
    <3> QED  BY <3>4, <3>5
  <2> QED  BY <1>1, <2>0, <2>2, <2>3, <2>4
<1>5. ASSUME NEW l \in Loads, MergeApplicationIni(l) PROVE ConfigInv'
  <2> DEFINE s == MergeIniFile(load[l].dir, load[l].ini, load[l].settings)
             r == [load[l] EXCEPT !.settings = s, !.pc = "env", !.files = DeclaredEnvFiles(s)]
  <2>0. DOMAIN load[l] = LoadFields /\ load[l].pc = "ini" /\ env' = env
    BY <1>0, <1>5 DEF RecordOK, MergeApplicationIni
  <2>1. s = MergeIniFile(load[l].dir, load[l].ini, WithDefaults(load[l].dir)) /\ load[l].ini # None
    BY <1>0, <2>0 DEF RecordOK
  <2> HIDE DEF s
  <2>2. load' = [load EXCEPT ![l] = r]
    BY <1>5 DEF MergeApplicationIni, s
  <2>3. /\ DOMAIN r = LoadFields /\ r.pc = "env" /\ r.exports = load[l].exports
        /\ r.dir = load[l].dir /\ r.overlay = load[l].overlay /\ r.read = load[l].read
        /\ r.settings = s /\ r.files = DeclaredEnvFiles(s)
    BY <2>0 DEF LoadFields
  <2> HIDE DEF r
  <2>4. ASSUME RecordOK(load[l], env', Exported') PROVE RecordOK(r, env', Exported')
    <3>1. r.read = 0 /\ r.overlay = << >> /\ r.dir \in DOMAIN Files
      BY <2>0, <2>3, <2>4 DEF RecordOK
    <3>2. OverlayOK(r)
      BY <3>1 DEF OverlayOK
    <3>3. "APP_NAME" \notin Exported' => load[l].ini = NameFor(EnvAt(env', "APP_NAME"), WithDefaults(r.dir))
      BY <2>0, <2>3, <2>4 DEF RecordOK
    <3>4. "APP_NAME" \notin Exported' => s = Settled(EnvAt(env', "APP_NAME"), r.dir)
      BY <2>1, <2>3, <3>3 DEF Settled
    <3> QED  BY <2>3, <3>1, <3>2, <3>4 DEF RecordOK
  <2> QED  BY <1>1, <2>0, <2>2, <2>3, <2>4
<1>6. ASSUME NEW l \in Loads, FailLoad(l) PROVE ConfigInv'
  <2> DEFINE r == [load[l] EXCEPT !.pc = "failed"]
  <2>0. DOMAIN load[l] = LoadFields /\ load[l].pc # "idle" /\ env' = env
    BY <1>0, <1>6 DEF RecordOK, FailLoad
  <2>1. load' = [load EXCEPT ![l] = r]
    BY <1>6 DEF FailLoad
  <2>2. /\ DOMAIN r = LoadFields /\ r.pc = "failed" /\ r.exports = load[l].exports
        /\ r.dir = load[l].dir /\ r.overlay = load[l].overlay
    BY <2>0 DEF LoadFields
  <2> HIDE DEF r
  <2>3. RecordOK(load[l], env', Exported') => RecordOK(r, env', Exported')
    BY <2>0, <2>2 DEF RecordOK
  <2> QED  BY <1>1, <2>0, <2>1, <2>2, <2>3
<1>7. ASSUME NEW l \in Loads, LoadEnvFile(l) PROVE ConfigInv'
  <2> DEFINE assigned == EnvFile(load[l].dir, load[l].files[load[l].read + 1])
             r == [load[l] EXCEPT !.read = load[l].read + 1, !.overlay = Assign(assigned, load[l].overlay)]
  <2>0. DOMAIN load[l] = LoadFields /\ load[l].pc = "env"
    BY <1>0, <1>7 DEF RecordOK, LoadEnvFile
  <2>1. /\ load' = [load EXCEPT ![l] = r]
        /\ env' = IF load[l].exports THEN Assign(assigned, env) ELSE env
    BY <1>7 DEF LoadEnvFile
  <2>2. /\ DOMAIN r = LoadFields /\ r.pc = "env" /\ r.exports = load[l].exports
        /\ r.dir = load[l].dir /\ r.read = load[l].read + 1
        /\ r.overlay = Assign(assigned, load[l].overlay)
        /\ r.settings = load[l].settings /\ r.files = load[l].files
    BY <2>0 DEF LoadFields
  <2> HIDE DEF r
  <2>3. DOMAIN load[l].overlay \subseteq DOMAIN r.overlay /\ DOMAIN assigned \subseteq DOMAIN r.overlay
    BY <2>2 DEF Assign
  <2>4. ASSUME RecordOK(load[l], env', Exported') PROVE RecordOK(r, env', Exported')
    <3>1. OverlayOK(r)
      BY <2>0, <2>2, <2>4, OverlayGrows DEF RecordOK
    <3> QED  BY <2>0, <2>2, <2>4, <3>1 DEF RecordOK
  <2> HIDE DEF assigned
  <2>5. \A n : n \notin DOMAIN r.overlay => EnvAt(Assign(assigned, env), n) = EnvAt(env, n)
    BY <2>3 DEF EnvAt, Assign
  <2> QED  BY <1>1, <2>1, <2>2, <2>3, <2>4, <2>5
<1>8. ASSUME NEW l \in Loads, Publish(l) PROVE ConfigInv'
  <2> DEFINE s == IF load[l].overrides
                  THEN ApplyEnvOverrides(load[l].settings, load[l].overlay)
                  ELSE load[l].settings
             r == [load[l] EXCEPT !.pc = "done", !.result = s]
  <2>0. /\ DOMAIN load[l] = LoadFields /\ load[l].pc = "env" /\ env' = env
        /\ load[l].read = Len(load[l].files)
    BY <1>0, <1>8 DEF RecordOK, Publish
  <2>1. load' = [load EXCEPT ![l] = r]
    BY <1>8 DEF Publish
  <2> HIDE DEF s
  <2>2. /\ DOMAIN r = LoadFields /\ r.pc = "done" /\ r.exports = load[l].exports
        /\ r.dir = load[l].dir /\ r.overlay = load[l].overlay /\ r.read = load[l].read
        /\ r.files = load[l].files
        /\ r.settings = load[l].settings /\ r.overrides = load[l].overrides /\ r.result = s
    BY <2>0 DEF LoadFields
  <2> HIDE DEF r
  <2>3. ASSUME RecordOK(load[l], env', Exported') PROVE RecordOK(r, env', Exported')
    <3>1. OverlayOK(load[l]) /\ load[l].dir \in DOMAIN Files
      BY <2>0, <2>3 DEF RecordOK
    <3>2. \A n \in DOMAIN r.overlay : r.overlay[n] # None
      <4>1. ASSUME NEW n \in DOMAIN r.overlay PROVE r.overlay[n] # None
        <5>1. PICK f : n \in DOMAIN EnvFile(r.dir, f) /\ r.overlay[n] = EnvFile(r.dir, f)[n]
          BY <2>2, <3>1 DEF OverlayOK
        <5>2. CASE f \in DOMAIN Files[r.dir].env
          BY <2>2, <3>1, <5>1, <5>2, ConfigAssumption DEF EnvFile
        <5>3. CASE f \notin DOMAIN Files[r.dir].env
          BY <5>1, <5>3 DEF EnvFile
        <5> QED  BY <5>2, <5>3
      <4> QED  BY <4>1
    <3>3. ResultOK(r, env', Exported')
      <4>1. CASE ~r.overrides
        BY <2>2, <4>1 DEF ResultOK, s
      <4>2. CASE r.overrides
        <5>1. r.result = ApplyEnvOverrides(r.settings, r.overlay)
          BY <2>2, <4>2 DEF s
        <5>2. /\ r.result = [p \in DOMAIN r.settings |-> r.result[p]]
              /\ \A p \in DOMAIN r.settings :
                   r.result[p] = LET raw == Override(r.overlay, EnvName[p])
                                 IN  IF raw = None THEN r.settings[p] ELSE ParseEnvValue(raw, r.settings[p])
          BY <5>1 DEF ApplyEnvOverrides
        <5>3. \A n : /\ n \in DOMAIN r.overlay => Override(r.overlay, n) = r.overlay[n]
                     /\ n \notin DOMAIN r.overlay => Override(r.overlay, n) = EnvAt(env', n)
          BY <2>0 DEF Override, ReadEnv, EnvAt
        <5> QED  BY <3>2, <4>2, <5>2, <5>3 DEF ResultOK
      <4> QED  BY <4>1, <4>2
    <3>4. OverlayOK(r)
      BY <2>2, <3>1 DEF OverlayOK
    <3> QED  BY <2>0, <2>2, <2>3, <3>3, <3>4 DEF RecordOK
  <2> QED  BY <1>1, <2>0, <2>1, <2>2, <2>3
<1>9. ASSUME UNCHANGED configVars PROVE ConfigInv'
  BY <1>0, <1>9 DEF configVars, ConfigInv, Exported
<1> QED  BY <1>2, <1>3, <1>4, <1>5, <1>6, <1>7, <1>8, <1>9 DEF ConfigNext

(* Overlays of the same files are the same.                                *)
LEMMA OverlaysAgree ==
  ASSUME NEW r, NEW s, OverlayOK(r), OverlayOK(s), s.dir = r.dir, s.files = r.files, s.read = r.read
  PROVE  /\ DOMAIN s.overlay = DOMAIN r.overlay
         /\ \A n \in DOMAIN r.overlay : s.overlay[n] = r.overlay[n]
<1> DEFINE assigns(j) == EnvFile(r.dir, r.files[j])
<1>1. DOMAIN s.overlay = DOMAIN r.overlay
  BY DEF OverlayOK
<1>2. ASSUME NEW n \in DOMAIN r.overlay PROVE s.overlay[n] = r.overlay[n]
  <2>1. PICK i \in 1 .. r.read : /\ n \in DOMAIN assigns(i) /\ r.overlay[n] = assigns(i)[n]
                                 /\ \A m \in 1 .. r.read : m > i => n \notin DOMAIN assigns(m)
    BY DEF OverlayOK
  <2>2. PICK j \in 1 .. r.read : /\ n \in DOMAIN assigns(j) /\ s.overlay[n] = assigns(j)[n]
                                 /\ \A m \in 1 .. r.read : m > j => n \notin DOMAIN assigns(m)
    BY <1>1 DEF OverlayOK
  <2>3. ~(j > i) /\ ~(i > j)
    BY <2>1, <2>2
  <2>4. r.read \in Nat
    BY DEF OverlayOK
  <2>5. i = j
    BY <2>3, <2>4
  <2> QED  BY <2>1, <2>2, <2>5
<1> QED  BY <1>1, <1>2

(* Loading a directory again gives the same configuration, for any files,  *)
(* any number of loads and any interleaving of them, whatever they export: *)
(* unless APP_NAME or a variable that the directory's own .env files do    *)
(* not assign has been exported, as the property says.                     *)
THEOREM LoadsAgree == ConfigSpec => []ReloadsAgree
<1>1. ConfigInit => ConfigInv
  BY DEF ConfigInit, ConfigInv, RecordOK, Idle, LoadFields
<1>2. ConfigInv => ReloadsAgree
  <2> SUFFICES ASSUME ConfigInv, NEW k \in Loads, NEW l \in Loads,
                      load[k].pc = "done", load[l].pc = "done",
                      load[k].dir = load[l].dir, load[k].overrides = load[l].overrides,
                      Exported \subseteq DOMAIN load[k].overlay \ {"APP_NAME"}
               PROVE  load[k].result = load[l].result
    <3>1. \A a, b : {a, b} = {"done"} => a = "done" /\ b = "done"
      OBVIOUS
    <3> QED  BY <3>1 DEF ReloadsAgree
  <2> DEFINE r == load[k]
             s == load[l]
  <2>1. RecordOK(r, env, Exported) /\ RecordOK(s, env, Exported) /\ "APP_NAME" \notin Exported
    BY DEF ConfigInv
  <2> HIDE DEF r, s
  <2>2. /\ r.pc = "done" /\ s.pc = "done" /\ r.dir = s.dir /\ r.overrides = s.overrides
        /\ Exported \subseteq DOMAIN r.overlay
    BY DEF r, s
  <2>3. /\ r.settings = s.settings /\ r.files = s.files /\ r.read = s.read
        /\ OverlayOK(r) /\ OverlayOK(s) /\ ResultOK(r, env, Exported) /\ ResultOK(s, env, Exported)
    BY <2>1, <2>2 DEF RecordOK
  <2>4. /\ DOMAIN s.overlay = DOMAIN r.overlay
        /\ \A n \in DOMAIN r.overlay : s.overlay[n] = r.overlay[n]
    BY <2>2, <2>3, OverlaysAgree
  <2>5. CASE ~r.overrides
    BY <2>2, <2>3, <2>5 DEF ResultOK, r, s
  <2>6. CASE r.overrides
    <3>1. /\ r.result = [p \in DOMAIN r.settings |-> r.result[p]]
          /\ s.result = [p \in DOMAIN r.settings |-> s.result[p]]
      BY <2>2, <2>3, <2>6 DEF ResultOK
    <3>2. ASSUME NEW p \in DOMAIN r.settings PROVE r.result[p] = s.result[p]
      <4>1. CASE EnvName[p] \in DOMAIN r.overlay
        BY <2>2, <2>3, <2>4, <2>6, <4>1 DEF ResultOK
      <4>2. CASE EnvName[p] \notin DOMAIN r.overlay
        BY <2>2, <2>3, <2>4, <2>6, <4>2 DEF ResultOK
      <4> QED  BY <4>1, <4>2
    <3> QED  BY <3>1, <3>2 DEF r, s
  <2> QED  BY <2>5, <2>6
<1> QED  BY <1>1, <1>2, ConfigStep, PTL DEF ConfigSpec


-----------------------------------------------------------------------------
(* The cloud KMS repository.                                               *)

CallFields == {"pc", "op", "waits", "joined", "client", "made", "got", "described"}

\* A call holds the one client there is (a), waits for an attempt that exists
\* (among tries), joined it while it was under way, and knows a version the
\* key has had (v is its current one).
CallOK(r, a, tries, v) ==
  /\ DOMAIN r = CallFields
  /\ r.pc = "waiting" => r.waits \in DOMAIN tries
  /\ r.client # Undefined => r.client = a
  /\ r.joined \in {Undefined, "pending"}
  /\ r.made \in Nat /\ r.made <= v
  /\ r.pc \in {"idle", "waiting", "request"} => r.made = 0
  /\ r.described \in Nat
  /\ r.got \in {Undefined, "aborted", "failed", "done"}
  /\ r.got = "done" => r.pc = "over" /\ r.described >= r.made

\* At most one attempt is under way, and none once there is a client; an
\* attempt that succeeded made the client.
AttemptsOK ==
  /\ attempt \in Seq({"pending", "failed", "ok"})
  /\ initialization # Undefined =>
       initialization \in DOMAIN attempt /\ attempt[initialization] = "pending"
  /\ \A n \in DOMAIN attempt :
       /\ attempt[n] = "pending" => initialization = n /\ api = Undefined
       /\ attempt[n] = "ok" => api = n

KmsInv ==
  /\ version \in Nat
  /\ AttemptsOK
  /\ DOMAIN call = Calls
  /\ \A c \in Calls : CallOK(call[c], api, attempt, version)

(* Calls that stay as they are stay well-formed when an attempt is added,  *)
(* the client is created or the key gets a newer version.                  *)
LEMMA CallStaysOK ==
  ASSUME NEW r, NEW a, NEW b, NEW t, NEW u, NEW v \in Nat, NEW w \in Nat,
         CallOK(r, a, t, v), v <= w, b = a \/ a = Undefined, DOMAIN t \subseteq DOMAIN u
  PROVE  CallOK(r, b, u, w)
BY DEF CallOK

(* A step that changes one call only.                                      *)
LEMMA OneCallChanges ==
  ASSUME KmsInv, NEW c \in Calls, NEW r,
         call' = [call EXCEPT ![c] = r], CallOK(r, api, attempt', version'),
         version' \in Nat, version <= version', api' = api,
         DOMAIN attempt \subseteq DOMAIN attempt', AttemptsOK'
  PROVE  KmsInv'
<1>1. DOMAIN call' = Calls /\ call'[c] = r /\ \A d \in Calls \ {c} : call'[d] = call[d]
  BY DEF KmsInv
<1>2. ASSUME NEW d \in Calls PROVE CallOK(call'[d], api', attempt', version')
  <2>1. CASE d = c
    BY <1>1, <2>1
  <2>2. CASE d # c
    <3>1. CallOK(call[d], api, attempt, version) /\ version \in Nat /\ call'[d] = call[d]
      BY <1>1, <2>2 DEF KmsInv
    <3> QED  BY <3>1, CallStaysOK
  <2> QED  BY <2>1, <2>2
<1> QED  BY <1>1, <1>2 DEF KmsInv

(* A step that moves one call on and leaves the rest as it is.             *)
LEMMA OneCallMoves ==
  ASSUME KmsInv, NEW c \in Calls, NEW r,
         call' = [call EXCEPT ![c] = r], CallOK(r, api, attempt, version),
         UNCHANGED <<api, initialization, attempt, version>>
  PROVE  KmsInv'
<1>1. AttemptsOK' /\ version' \in Nat /\ version <= version'
  BY DEF KmsInv, AttemptsOK
<1> QED  BY <1>1, OneCallChanges

(* A call begins: it is refused, finds the client, or waits for one.       *)
LEMMA CallKeeps ==
  ASSUME KmsInv, NEW c \in Calls, NEW op \in Operations, Call(c, op)
  PROVE  KmsInv'
<1> USE KmsAssumption
<1>1. /\ CallOK(call[c], api, attempt, version) /\ call[c].pc = "idle"
      /\ version \in Nat /\ AttemptsOK /\ version' = version /\ api' = api
  BY DEF KmsInv, Call
<1>2. CASE /\ call' = [call EXCEPT ![c].pc = "over", ![c].op = op, ![c].got = "aborted"]
           /\ UNCHANGED <<initialization, attempt>>
  <2> DEFINE r == [call[c] EXCEPT !.pc = "over", !.op = op, !.got = "aborted"]
  <2>1. CallOK(r, api, attempt, version)
    BY <1>1 DEF CallOK, CallFields
  <2>2. call' = [call EXCEPT ![c] = r]
    BY <1>2
  <2> HIDE DEF r
  <2> QED  BY <1>1, <1>2, <2>1, <2>2, OneCallMoves
<1>3. CASE /\ api # Undefined
           /\ call' = [call EXCEPT ![c].pc = "request", ![c].op = op, ![c].client = api]
           /\ UNCHANGED <<initialization, attempt>>
  <2> DEFINE r == [call[c] EXCEPT !.pc = "request", !.op = op, !.client = api]
  <2>1. CallOK(r, api, attempt, version)
    BY <1>1 DEF CallOK, CallFields
  <2>2. call' = [call EXCEPT ![c] = r]
    BY <1>3
  <2> HIDE DEF r
  <2> QED  BY <1>1, <1>3, <2>1, <2>2, OneCallMoves
<1>4. CASE /\ api = Undefined
           /\ initialization' = InitializationFor
           /\ attempt' = IF initialization' \in DOMAIN attempt THEN attempt
                         ELSE Append(attempt, "pending")
           /\ call' = [call EXCEPT ![c].pc = "waiting", ![c].op = op,
                                   ![c].waits = initialization',
                                   ![c].joined = attempt'[initialization']]
  <2> DEFINE n == initialization'
             r == [call[c] EXCEPT !.pc = "waiting", !.op = op, !.waits = n,
                                  !.joined = attempt'[n]]
  <2>1. /\ attempt' \in Seq({"pending", "failed", "ok"})
        /\ DOMAIN attempt \subseteq DOMAIN attempt'
        /\ n \in DOMAIN attempt' /\ attempt'[n] = "pending"
        /\ \A m \in DOMAIN attempt' : m # n => m \in DOMAIN attempt /\ attempt'[m] = attempt[m]
    <3>1. CASE initialization # Undefined
      BY <1>1, <1>4, <3>1 DEF InitializationFor, AttemptsOK
    <3>2. CASE initialization = Undefined
      <4>1. n = Len(attempt) + 1 /\ attempt' = Append(attempt, "pending")
        BY <1>1, <1>4, <3>2 DEF InitializationFor, AttemptsOK
      <4>2. attempt \in Seq({"pending", "failed", "ok"})
        BY <1>1 DEF AttemptsOK
      <4> QED  BY <4>1, <4>2
    <3> QED  BY <3>1, <3>2
  <2>2. AttemptsOK'
    <3>1. ASSUME NEW m \in DOMAIN attempt', m # n PROVE attempt'[m] = "failed"
      <4>1. m \in DOMAIN attempt /\ attempt'[m] = attempt[m] /\ m \in Nat
        BY <1>1, <2>1, <3>1 DEF AttemptsOK
      <4>2. attempt[m] # "ok"
        BY <1>1, <1>4, <4>1 DEF AttemptsOK
      <4>3. attempt[m] # "pending"
        BY <1>1, <1>4, <3>1, <4>1 DEF AttemptsOK, InitializationFor
      <4> QED  BY <1>1, <4>1, <4>2, <4>3 DEF AttemptsOK
    <3>2. n # Undefined
      BY <2>1
    <3> QED  BY <1>1, <1>4, <2>1, <3>1, <3>2 DEF AttemptsOK
  <2>3. CallOK(r, api, attempt', version')
    BY <1>1, <2>1 DEF CallOK, CallFields
  <2>4. call' = [call EXCEPT ![c] = r]
    BY <1>4
  <2>5. version' \in Nat /\ version <= version'
    BY <1>1
  <2> HIDE DEF r
  <2> QED  BY <1>1, <2>1, <2>2, <2>3, <2>4, <2>5, OneCallChanges
<1> QED  BY <1>2, <1>3, <1>4 DEF Call


(* The other steps of a call.                                              *)
LEMMA CallProceeds ==
  ASSUME KmsInv, NEW c \in Calls,
         \/ Resume(c) \/ Rotate(c) \/ Disable(c) \/ Describe(c)
         \/ Cipher(c) \/ RequestFails(c) \/ AbortCall(c)
  PROVE  KmsInv'
<1> USE KmsAssumption
<1> DEFINE r0 == call[c]
<1>1. CallOK(r0, api, attempt, version) /\ version \in Nat /\ AttemptsOK
  BY DEF KmsInv
<1>2. CASE Resume(c)
  <2>1. /\ r0.pc = "waiting" /\ attempt[r0.waits] # "pending"
        /\ UNCHANGED <<api, initialization, attempt, version>>
    BY <1>2 DEF Resume
  <2>2. CASE attempt[r0.waits] = "failed"
    <3> DEFINE r == Over(r0, "failed")
    <3>1. CallOK(r, api, attempt, version)
      BY <1>1, <2>1 DEF CallOK, CallFields, Over
    <3>2. call' = [call EXCEPT ![c] = r]
      BY <1>2, <2>2 DEF Resume
    <3> HIDE DEF r
    <3> QED  BY <2>1, <3>1, <3>2, OneCallMoves
  <2>3. CASE attempt[r0.waits] # "failed"
    <3> DEFINE r == [r0 EXCEPT !.pc = "request", !.client = r0.waits]
    <3>1. r0.waits = api
      BY <1>1, <2>1, <2>3 DEF CallOK, AttemptsOK
    <3>2. CallOK(r, api, attempt, version)
      BY <1>1, <2>1, <3>1 DEF CallOK, CallFields
    <3>3. call' = [call EXCEPT ![c] = r]
      BY <1>2, <2>3 DEF Resume
    <3> HIDE DEF r
    <3> QED  BY <2>1, <3>2, <3>3, OneCallMoves
  <2> QED  BY <2>2, <2>3
<1>3. CASE Rotate(c)
  <2>1. /\ r0.pc = "request" /\ version' = version + 1
        /\ UNCHANGED <<api, initialization, attempt>>
    BY <1>3 DEF Rotate
  <2> DEFINE r == [r0 EXCEPT !.pc = "describe", !.made = version']
  <2>2. CallOK(r, api, attempt', version')
    BY <1>1, <2>1 DEF CallOK, CallFields
  <2>3. call' = [call EXCEPT ![c] = r]
    BY <1>3 DEF Rotate
  <2>4. AttemptsOK'
    BY <1>1, <2>1 DEF AttemptsOK
  <2>5. version' \in Nat /\ version <= version'
    BY <1>1, <2>1
  <2> HIDE DEF r
  <2> QED  BY <2>1, <2>2, <2>3, <2>4, <2>5, OneCallChanges
<1>4. CASE Disable(c)
  <2>1. r0.pc = "request" /\ UNCHANGED <<api, initialization, attempt, version>>
    BY <1>4 DEF Disable
  <2> DEFINE r == Over(r0, "done")
  <2>2. CallOK(r, api, attempt, version)
    BY <1>1, <2>1 DEF CallOK, CallFields, Over
  <2>3. call' = [call EXCEPT ![c] = r]
    BY <1>4 DEF Disable
  <2> HIDE DEF r
  <2> QED  BY <2>1, <2>2, <2>3, OneCallMoves
<1>5. CASE Describe(c)
  <2>1. r0.pc \in {"request", "describe"} /\ UNCHANGED <<api, initialization, attempt, version>>
    BY <1>5 DEF Describe
  <2> DEFINE r == Over([r0 EXCEPT !.described = version], "done")
  <2>2. CallOK(r, api, attempt, version)
    BY <1>1, <2>1 DEF CallOK, CallFields, Over
  <2>3. call' = [call EXCEPT ![c] = r]
    BY <1>5 DEF Describe
  <2> HIDE DEF r
  <2> QED  BY <2>1, <2>2, <2>3, OneCallMoves
<1>6. CASE Cipher(c)
  <2>1. r0.pc = "request" /\ UNCHANGED <<api, initialization, attempt, version>>
    BY <1>6 DEF Cipher
  <2> DEFINE r == Over(r0, "done")
  <2>2. CallOK(r, api, attempt, version)
    BY <1>1, <2>1 DEF CallOK, CallFields, Over
  <2>3. call' = [call EXCEPT ![c] = r]
    BY <1>6 DEF Cipher
  <2> HIDE DEF r
  <2> QED  BY <2>1, <2>2, <2>3, OneCallMoves
<1>7. CASE RequestFails(c)
  <2>1. r0.pc \in {"request", "describe"} /\ UNCHANGED <<api, initialization, attempt, version>>
    BY <1>7 DEF RequestFails
  <2> DEFINE r == Over(r0, "failed")
  <2>2. CallOK(r, api, attempt, version)
    BY <1>1, <2>1 DEF CallOK, CallFields, Over
  <2>3. call' = [call EXCEPT ![c] = r]
    BY <1>7 DEF RequestFails
  <2> HIDE DEF r
  <2> QED  BY <2>1, <2>2, <2>3, OneCallMoves
<1>8. CASE AbortCall(c)
  <2>1. UNCHANGED <<api, initialization, attempt, version>>
    BY <1>8 DEF AbortCall
  <2> DEFINE r == [r0 EXCEPT !.got = "aborted"]
  <2>2. CallOK(r, api, attempt, version)
    BY <1>1 DEF CallOK, CallFields
  <2>3. call' = [call EXCEPT ![c] = r]
    BY <1>8 DEF AbortCall
  <2> HIDE DEF r
  <2> QED  BY <2>1, <2>2, <2>3, OneCallMoves
<1> QED  BY <1>2, <1>3, <1>4, <1>5, <1>6, <1>7, <1>8

(* An attempt to create the client settles.                                *)
LEMMA CreateApiKeeps ==
  ASSUME KmsInv, NEW n \in DOMAIN attempt, CreateApi(n)
  PROVE  KmsInv'
<1> USE KmsAssumption
<1>1. /\ AttemptsOK /\ version \in Nat /\ DOMAIN call = Calls
      /\ \A c \in Calls : CallOK(call[c], api, attempt, version)
  BY DEF KmsInv
<1>2. /\ attempt[n] = "pending" /\ initialization' = Undefined
      /\ call' = call /\ version' = version
  BY DEF CreateApi
<1>3. api = Undefined /\ n \in Nat
  BY <1>1, <1>2 DEF AttemptsOK
<1>4. \A m \in DOMAIN attempt : m # n => attempt[m] = "failed"
  BY <1>1, <1>2, <1>3 DEF AttemptsOK
<1>5. /\ DOMAIN attempt' = DOMAIN attempt /\ attempt' \in Seq({"pending", "failed", "ok"})
      /\ \A m \in DOMAIN attempt : m # n => attempt'[m] = "failed"
      /\ attempt'[n] \in {"ok", "failed"} /\ (attempt'[n] = "ok" => api' = n)
  BY <1>1, <1>4 DEF CreateApi, AttemptsOK
<1>6. AttemptsOK'
  BY <1>2, <1>5 DEF AttemptsOK
<1>7. ASSUME NEW c \in Calls PROVE CallOK(call[c], api', attempt', version)
  BY <1>1, <1>3, <1>5, CallStaysOK
<1> QED  BY <1>1, <1>2, <1>6, <1>7 DEF KmsInv

(* Every call reaches the provider through the same client, none waits for *)
(* an attempt that had failed before it came, and a rotation that reports  *)
(* a version reports its own or a newer one.                               *)
THEOREM OneClient == KmsSpec => []OneClientServesAll
<1> USE KmsAssumption
<1>1. KmsInit => KmsInv
  BY DEF KmsInit, KmsInv, AttemptsOK, CallOK, CallFields, NoCall
<1>2. KmsInv /\ [KmsNext]_kmsVars => KmsInv'
  <2> SUFFICES ASSUME KmsInv, [KmsNext]_kmsVars PROVE KmsInv'
    OBVIOUS
  <2>1. ASSUME NEW c \in Calls, NEW op \in Operations, Call(c, op) PROVE KmsInv'
    BY <2>1, CallKeeps
  <2>2. ASSUME NEW n \in DOMAIN attempt, CreateApi(n) PROVE KmsInv'
    BY <2>2, CreateApiKeeps
  <2>3. ASSUME NEW c \in Calls,
               \/ Resume(c) \/ Rotate(c) \/ Disable(c) \/ Describe(c)
               \/ Cipher(c) \/ RequestFails(c) \/ AbortCall(c)
        PROVE  KmsInv'
    BY <2>3, CallProceeds
  <2>4. CASE UNCHANGED kmsVars
    BY <2>4 DEF kmsVars, KmsInv, AttemptsOK
  <2> QED  BY <2>1, <2>2, <2>3, <2>4 DEF KmsNext
<1>3. KmsInv => OneClientServesAll
  BY DEF KmsInv, CallOK, OneClientServesAll
<1> QED  BY <1>1, <1>2, <1>3, PTL DEF KmsSpec


-----------------------------------------------------------------------------
(* The in-process crypto provider.                                         *)

\* Everything that can be made with the keys of K.
Makings(K) ==
  {[op |-> op, key |-> k, aad |-> aad, text |-> text, blob |-> Produce(op, k, aad, text, n)] :
     op \in Makes, k \in K, aad \in Aads, text \in Texts, n \in Nat}

\* The keys have identities of their own, older than the next random value,
\* and what was made was made with one of them.
CryptoInv ==
  /\ fresh \in Nat
  /\ \A k \in keys : k.id \in Nat /\ k.id < fresh /\ k.curve \in {"P-256", "P-384", "P-521"}
  /\ \A k, l \in keys : k.id = l.id => k = l
  /\ made \in Seq(Makings(keys))

LEMMA CurveSet == ToSet(Curves) = {"P-256", "P-384", "P-521"}
BY DEF ToSet, Curves

(* What was made stays among what can be made when a key is added.         *)
LEMMA MakingsGrow ==
  ASSUME NEW K, NEW L, K \subseteq L
  PROVE  Seq(Makings(K)) \subseteq Seq(Makings(L))
<1>1. Makings(K) \subseteq Makings(L)
  BY DEF Makings
<1> QED  BY <1>1

LEMMA CryptoStep == CryptoInv /\ [CryptoNext]_cryptoVars => CryptoInv'
<1> SUFFICES ASSUME CryptoInv, [CryptoNext]_cryptoVars PROVE CryptoInv'
  OBVIOUS
<1>1. CASE Generate
  <2>1. PICK f \in {"secret", "rsa", "ec", "ed"}, c \in ToSet(Curves) :
          keys' = keys \cup {[family |-> f, id |-> fresh, curve |-> c]}
    BY <1>1 DEF Generate
  <2> DEFINE k0 == [family |-> f, id |-> fresh, curve |-> c]
  <2>2. fresh' = fresh + 1 /\ made' = made /\ keys' = keys \cup {k0}
    BY <1>1, <2>1 DEF Generate
  <2>3. k0.id = fresh /\ k0.curve \in {"P-256", "P-384", "P-521"}
    BY CurveSet
  <2> HIDE DEF k0
  <2>4. made' \in Seq(Makings(keys'))
    BY <2>2, MakingsGrow DEF CryptoInv
  <2>5. \A k \in keys' : k.id \in Nat /\ k.id < fresh' /\ k.curve \in {"P-256", "P-384", "P-521"}
    BY <2>2, <2>3 DEF CryptoInv
  <2>6. ASSUME NEW k \in keys', NEW l \in keys', k.id = l.id PROVE k = l
    BY <2>2, <2>3, <2>6 DEF CryptoInv
  <2> QED  BY <2>2, <2>4, <2>5, <2>6 DEF CryptoInv
<1>2. CASE Make
  <2>1. PICK op \in Makes, k \in keys, aad \in Aads, text \in Texts :
          made' = Append(made, [op |-> op, key |-> k, aad |-> aad, text |-> text,
                                blob |-> Produce(op, k, aad, text, fresh)])
    BY <1>2 DEF Make
  <2> DEFINE m == [op |-> op, key |-> k, aad |-> aad, text |-> text,
                   blob |-> Produce(op, k, aad, text, fresh)]
  <2>2. m \in Makings(keys)
    BY DEF Makings, CryptoInv
  <2>3. fresh' = fresh + 1 /\ keys' = keys /\ made' = Append(made, m)
    BY <1>2, <2>1 DEF Make
  <2> HIDE DEF m
  <2>4. made' \in Seq(Makings(keys))
    BY <2>2, <2>3, AppendProperties DEF CryptoInv
  <2> QED  BY <2>3, <2>4 DEF CryptoInv
<1>3. CASE UNCHANGED cryptoVars
  BY <1>3 DEF cryptoVars, CryptoInv
<1> QED  BY <1>1, <1>2, <1>3 DEF CryptoNext

(* The bytes of a text are no failure, nor is what is decoded from them,   *)
(* and a text that survives comes back.                                    *)
LEMMA TextsComeBack ==
  ASSUME NEW text \in Texts
  PROVE  /\ bytesOf(text) # Failure /\ textOf(bytesOf(text)) # Failure
         /\ Survives(text) => textOf(bytesOf(text)) = text
<1> DEFINE b == bytesOf(text)
<1>1. /\ text \in Seq(Characters) /\ Len(text) \in Nat /\ DOMAIN text = 1 .. Len(text)
      /\ \A i \in 1 .. Len(text) : text[i] \in Characters
  <2>1. text \in Seq(Characters)
    BY CryptoAssumption
  <2> QED  BY <2>1, LenProperties, ElementOfSeq
<1>2. b \in Seq(Characters) /\ \A i \in 1 .. Len(text) : b[i] = IF text[i] = "half" THEN "fffd" ELSE text[i]
  <2>1. "fffd" \in Characters
    BY DEF Characters
  <2>2. b \in [1 .. Len(text) -> Characters]
    BY <1>1, <2>1 DEF bytesOf
  <2> QED  BY <1>1, <2>2 DEF bytesOf
<1>3. Len(b) = Len(text)
  BY <1>1 DEF bytesOf
<1> HIDE DEF b
<1>4. textOf(b) \in Seq(Characters)
  <2>1. b # << >> => Tail(b) \in Seq(Characters)
    BY <1>2, HeadTailProperties
  <2> QED  BY <1>2, <2>1 DEF textOf
<1>5. ASSUME Survives(text) PROVE textOf(b) = text
  <2>1. \A i \in 1 .. Len(text) : b[i] = text[i]
    BY <1>1, <1>2, <1>5 DEF Survives
  <2>2. b = text
    BY <1>1, <1>2, <1>3, <2>1, SeqEqual
  <2>3. text # << >> => Head(text) # "bom"
    <3> SUFFICES ASSUME text # << >> PROVE Head(text) # "bom"
      OBVIOUS
    <3>1. Len(text) # 0
      BY <1>1, EmptySeq
    <3>2. 1 \in DOMAIN text /\ Head(text) = text[1]
      BY <1>1, <3>1
    <3> QED  BY <1>5, <3>2 DEF Survives
  <2> QED  BY <2>2, <2>3 DEF textOf
<1> QED  BY <1>2, <1>4, <1>5, CryptoAssumption DEF b

(* decryptAES finds the nonce and the ciphertext that encryptAES put       *)
(* together, and opens it only with the same key and additional data.      *)
LEMMA AesOpens ==
  ASSUME NEW k, NEW l, NEW a, NEW b, NEW text, NEW n \in Nat
  PROVE  DecryptAES(l, b, EncryptAES(k, a, text, n)) =
           Decoded(IF l.id = k.id /\ Additional(b) = Additional(a) THEN bytesOf(text) ELSE Failure)
<1> DEFINE box == Seal(k.id, Nonce(n), a, bytesOf(text))
           S == (Nat \X Nat) \cup {box}
           blob == Nonce(n) \o <<box>>
<1>1. Nonce(n) \in Seq(S) /\ Len(Nonce(n)) = 2
  <2> HIDE DEF S
  <2>1. Nat \X Nat \subseteq S
    BY DEF S
  <2>2. \A i \in 1..2 : <<n, i>> \in S
    BY <2>1
  <2> QED  BY <2>2 DEF Nonce, NonceUnits
<1>2. <<box>> \in Seq(S) /\ Len(<<box>>) = 1 /\ <<box>>[1] = box
  OBVIOUS
<1> HIDE DEF box, S
<1> DEFINE iv == Nonce(n)
<1> HIDE DEF iv
<1>3. iv = Nonce(n) /\ iv \in Seq(S) /\ Len(iv) = 2
  BY <1>1 DEF iv
<1> DEFINE tail == <<box>>
<1> HIDE DEF tail
<1>10. tail \in Seq(S) /\ Len(tail) = 1 /\ tail[1] = box
  BY <1>2 DEF tail
<1>11. /\ iv \o tail \in Seq(S) /\ Len(iv \o tail) = 3
      /\ \A i \in 1..3 : (iv \o tail)[i] = IF i <= 2 THEN iv[i] ELSE tail[i - 2]
  <2>1. /\ iv \o tail \in Seq(S) /\ Len(iv \o tail) = Len(iv) + Len(tail)
        /\ \A i \in 1 .. Len(iv) + Len(tail) : (iv \o tail)[i] =
                     IF i <= Len(iv) THEN iv[i] ELSE tail[i - Len(iv)]
    BY <1>3, <1>10, ConcatProperties
  <2>2. Len(iv) = 2 /\ Len(tail) = 1
    BY <1>3, <1>10
  <2> QED  BY <2>1, <2>2
<1> DEFINE whole == iv \o tail
<1> HIDE DEF whole
<1>12. /\ whole \in Seq(S) /\ Len(whole) = 3 /\ whole[3] = box
      /\ whole[1] = iv[1] /\ whole[2] = iv[2] /\ \A i \in 1..3 : whole[i] \in S
  BY <1>11, <1>10, ElementOfSeq DEF whole
<1>4. SubSeq(whole, 1, 2) = iv
  <2>1. /\ SubSeq(whole, 1, 2) \in Seq(S) /\ Len(SubSeq(whole, 1, 2)) = 2
        /\ \A i \in 1..2 : SubSeq(whole, 1, 2)[i] = whole[i]
    <3>1. \A i \in 1..2 : whole[i] \in S
      BY <1>12
    <3> QED  BY <3>1, SubSeqProperties
  <2>2. \A i \in 1..2 : SubSeq(whole, 1, 2)[i] = iv[i]
    BY <1>12, <2>1
  <2> QED  BY <1>3, <2>1, <2>2, SeqEqual
<1>5. SubSeq(whole, 3, Len(whole))[1] = box
  <2>1. \A i \in 3..3 : whole[i] \in S
    BY <1>12
  <2>2. \A i \in 1..1 : SubSeq(whole, 3, 3)[i] = whole[3 + i - 1]
    BY <2>1, SubSeqProperties
  <2> QED  BY <1>12, <2>2
<1>6. DecryptAES(l, b, EncryptAES(k, a, text, n)) = Decoded(Open(l.id, iv, b, box))
  <2>1. EncryptAES(k, a, text, n) = whole
    BY <1>3 DEF EncryptAES, whole, tail, box
  <2>2. NonceUnits = 2 /\ NonceUnits + 1 = 3
    BY DEF NonceUnits
  <2>3. DecryptAES(l, b, whole)
          = Decoded(Open(l.id, SubSeq(whole, 1, 2), b, SubSeq(whole, 3, Len(whole))[1]))
    BY <2>2 DEF DecryptAES
  <2> QED  BY <1>4, <1>5, <2>1, <2>3
<1>7. box = Seal(k.id, iv, a, bytesOf(text)) /\ box.bytes = bytesOf(text)
  BY <1>3 DEF box, Seal
<1>8. box = Seal(l.id, iv, b, bytesOf(text)) <=> l.id = k.id /\ Additional(b) = Additional(a)
  BY <1>7 DEF Seal
<1> QED  BY <1>6, <1>7, <1>8 DEF Open

(* The first curve a public key imports on is its own.                     *)
LEMMA OwnCurve ==
  ASSUME NEW k, k.curve \in {"P-256", "P-384", "P-521"}
  PROVE  ImportECDHPublicKeyAuto(k) = k.curve
<1> DEFINE fits(i) == Imports(k, Curves[i]) /\ \A j \in 1..(i - 1) : ~Imports(k, Curves[j])
<1>1. DOMAIN Curves = 1..3 /\ Curves[1] = "P-256" /\ Curves[2] = "P-384" /\ Curves[3] = "P-521"
  BY DEF Curves
<1>2. \E i \in DOMAIN Curves : fits(i)
  <2>1. CASE k.curve = "P-256"
    <3>1. fits(1)
      BY <1>1, <2>1 DEF Imports
    <3> QED  BY <1>1, <3>1
  <2>2. CASE k.curve = "P-384"
    <3>1. fits(2)
      BY <1>1, <2>2 DEF Imports
    <3> QED  BY <1>1, <3>1
  <2>3. CASE k.curve = "P-521"
    <3>1. fits(3)
      BY <1>1, <2>3 DEF Imports
    <3> QED  BY <1>1, <3>1
  <2> QED  BY <2>1, <2>2, <2>3
<1>3. fits(CHOOSE i \in DOMAIN Curves : fits(i))
  BY <1>2
<1> QED  BY <1>3 DEF ImportECDHPublicKeyAuto, Imports

(* ecdhDecode opens what ecdhEncode made for the same key only: another    *)
(* key of the curve derives another secret, and one of another curve does  *)
(* not import.                                                             *)
LEMMA EcdhOpens ==
  ASSUME NEW k, NEW l, NEW text, NEW n, k.curve \in {"P-256", "P-384", "P-521"},
         k.id = l.id => k = l
  PROVE  EcdhDecode(l, EcdhEncode(k, text, n)) = Decoded(IF l = k THEN bytesOf(text) ELSE Failure)
<1> DEFINE c == k.curve
           secret == DeriveECCAESKey(n, k.id, c)
           box == Seal(secret, Nonce(n), Absent, bytesOf(text))
           payload == EcdhEncode(k, text, n)
<1>1. payload = [curve |-> c, ephemeral |-> n, nonce |-> Nonce(n), cipher |-> box]
  BY OwnCurve DEF EcdhEncode
<1>2. /\ payload.curve = c /\ payload.ephemeral = n /\ payload.nonce = Nonce(n)
      /\ payload.cipher = box
  BY <1>1
<1> HIDE DEF payload
<1>3. CASE l.curve # c
  <2>1. EcdhDecode(l, payload) = Failure /\ l # k
    BY <1>2, <1>3 DEF EcdhDecode, Imports
  <2> QED  BY <2>1 DEF payload, Decoded
<1>4. CASE l.curve = c
  <2> DEFINE other == DeriveECCAESKey(l.id, n, c)
  <2>1. EcdhDecode(l, payload) = Decoded(Open(other, Nonce(n), Absent, box))
    BY <1>2, <1>4 DEF EcdhDecode, Imports
  <2>2. other = secret <=> l.id = k.id
    <3>1. {l.id, n} = {n, k.id} <=> l.id = k.id
      OBVIOUS
    <3> QED  BY <3>1 DEF DeriveECCAESKey, SharedSecret
  <2> HIDE DEF other, secret
  <2>3. /\ box.bytes = bytesOf(text)
        /\ box = Seal(other, Nonce(n), Absent, bytesOf(text)) <=> other = secret
    BY DEF Seal
  <2> QED  BY <2>1, <2>2, <2>3 DEF Open, payload
<1> QED  BY <1>3, <1>4 DEF payload


(* Whatever was made opens with its own key and additional data, and gives *)
(* back its text if that survives the way to bytes and back, or verifies   *)
(* with its own key and text, and with nothing else of its family: for     *)
(* every number of keys and of things made.                                *)
THEOREM OpensAsSealed == CryptoSpec => []OpensOnlyAsSealed
<1>1. CryptoInit => CryptoInv
  BY EmptySeq DEF CryptoInit, CryptoInv
<1>2. CryptoInv => OpensOnlyAsSealed
  <2> SUFFICES ASSUME CryptoInv, NEW i \in DOMAIN made, NEW l \in keys, NEW b \in Aads, NEW other \in Texts
               PROVE  LET m == made[i]
                          right == /\ l = m.key
                                   /\ m.op = "aes" => Additional(b) = Additional(m.aad)
                                   /\ m.op \in Schemes => bytesOf(other) = bytesOf(m.text)
                          got == Consume(m.op, l, b, other, m.blob)
                      IN  /\ got = Failure <=> ~right
                          /\ right /\ m.op \in Ciphers /\ Survives(m.text) => got = m.text
    BY DEF OpensOnlyAsSealed
  <2> DEFINE m == made[i]
             right == /\ l = m.key
                      /\ m.op = "aes" => Additional(b) = Additional(m.aad)
                      /\ m.op \in Schemes => bytesOf(other) = bytesOf(m.text)
             got == Consume(m.op, l, b, other, m.blob)
  <2>1. m \in Makings(keys)
    BY LenProperties, ElementOfSeq DEF CryptoInv
  <2>2. PICK op \in Makes, k \in keys, aad \in Aads, text \in Texts, n \in Nat :
          m = [op |-> op, key |-> k, aad |-> aad, text |-> text,
               blob |-> Produce(op, k, aad, text, n)]
    BY <2>1 DEF Makings
  <2> HIDE DEF m
  <2>3. /\ m.op = op /\ m.key = k /\ m.aad = aad /\ m.text = text
        /\ m.blob = Produce(op, k, aad, text, n)
    BY <2>2
  <2>4. k.curve \in {"P-256", "P-384", "P-521"} /\ (k.id = l.id <=> k = l)
    BY DEF CryptoInv
  <2>5. /\ bytesOf(text) # Failure /\ textOf(bytesOf(text)) # Failure
        /\ Survives(text) => textOf(bytesOf(text)) = text
    BY TextsComeBack
  <2>6. CASE op \in Ciphers
    <3>1. got = Decoded(IF right THEN bytesOf(text) ELSE Failure)
      <4>1. CASE op = "aes"
        <5>1. got = DecryptAES(l, b, EncryptAES(k, aad, text, n))
          BY <2>3, <4>1 DEF Consume, Produce
        <5>2. right <=> l.id = k.id /\ Additional(b) = Additional(aad)
          BY <2>3, <2>4, <4>1 DEF Schemes
        <5> HIDE DEF got, right
        <5> QED  BY <5>1, <5>2, AesOpens
      <4>2. CASE op = "ecdh"
        <5>1. got = EcdhDecode(l, EcdhEncode(k, text, n))
          BY <2>3, <4>2 DEF Consume, Produce
        <5>2. right <=> l = k
          BY <2>3, <4>2 DEF Schemes
        <5> HIDE DEF got, right
        <5> QED  BY <2>4, <5>1, <5>2, EcdhOpens
      <4>3. CASE op = "oaep"
        <5>1. got = RsaOaepDecode(l, RsaOaepEncode(k, text))
          BY <2>3, <4>3 DEF Consume, Produce
        <5>2. right <=> l.id = k.id
          BY <2>3, <2>4, <4>3 DEF Schemes
        <5>3. RsaOaepDecode(l, RsaOaepEncode(k, text))
                = Decoded(IF l.id = k.id THEN bytesOf(text) ELSE Failure)
          BY DEF RsaOaepDecode, RsaOaepEncode
        <5> HIDE DEF got, right
        <5> QED  BY <5>1, <5>2, <5>3
      <4> QED  BY <2>6, <4>1, <4>2, <4>3 DEF Ciphers
    <3> HIDE DEF got, right
    <3>2. got = IF right THEN textOf(bytesOf(text)) ELSE Failure
      BY <2>5, <3>1 DEF Decoded
    <3> QED  BY <2>3, <2>5, <3>2 DEF got, right, m
  <2>7. CASE op \in Schemes
    <3>1. op \notin Ciphers
      BY <2>7 DEF Schemes, Ciphers
    <3>2. got = Verify(op, l, other, Sign(op, k, text))
      BY <2>3, <3>1 DEF Consume, Produce, Ciphers
    <3>3. Sign(op, k, text) = Sign(op, l, other) <=> l.id = k.id /\ bytesOf(other) = bytesOf(text)
      BY DEF Sign
    <3>4. right <=> l.id = k.id /\ bytesOf(other) = bytesOf(text)
      BY <2>3, <2>4, <2>7 DEF Schemes
    <3>5. << >> # Failure
      BY EmptySeq, CryptoAssumption
    <3> HIDE DEF got, right
    <3>6. got = Failure <=> ~right
      BY <3>2, <3>3, <3>4, <3>5 DEF Verify
    <3> QED  BY <2>3, <3>1, <3>6 DEF got, right, m
  <2> QED  BY <2>6, <2>7 DEF Makes
<1> QED  BY <1>1, <1>2, CryptoStep, PTL DEF CryptoSpec


-----------------------------------------------------------------------------
(* The servers: registration.                                              *)

(* The elements of a concatenation.                                        *)
LEMMA ConcatSet ==
  ASSUME NEW S, NEW s \in Seq(S), NEW t \in Seq(S)
  PROVE  s \o t \in Seq(S) /\ ToSet(s \o t) = ToSet(s) \cup ToSet(t)
<1>1. /\ s \o t \in Seq(S) /\ Len(s \o t) = Len(s) + Len(t)
      /\ \A i \in 1 .. Len(s) + Len(t) : (s \o t)[i] =
              IF i <= Len(s) THEN s[i] ELSE t[i - Len(s)]
  BY ConcatProperties
<1>2. Len(s) \in Nat /\ Len(t) \in Nat /\ DOMAIN s = 1..Len(s) /\ DOMAIN t = 1..Len(t)
  BY LenProperties
<1>3. DOMAIN (s \o t) = 1 .. Len(s) + Len(t)
  BY <1>1, LenProperties
<1>4. ASSUME NEW x \in ToSet(s \o t) PROVE x \in ToSet(s) \cup ToSet(t)
  <2>1. PICK i \in 1 .. Len(s) + Len(t) : x = (s \o t)[i]
    BY <1>3, <1>4 DEF ToSet
  <2>2. CASE i <= Len(s)
    <3>1. i \in DOMAIN s /\ x = s[i]
      BY <1>1, <1>2, <2>1, <2>2
    <3> QED  BY <3>1 DEF ToSet
  <2>3. CASE ~(i <= Len(s))
    <3>1. i - Len(s) \in DOMAIN t /\ x = t[i - Len(s)]
      BY <1>1, <1>2, <2>1, <2>3
    <3> QED  BY <3>1 DEF ToSet
  <2> QED  BY <2>2, <2>3
<1>5. ASSUME NEW x \in ToSet(s) PROVE x \in ToSet(s \o t)
  <2>1. PICK i \in 1..Len(s) : x = s[i]
    BY <1>2, <1>5 DEF ToSet
  <2>2. i \in DOMAIN (s \o t) /\ x = (s \o t)[i]
    BY <1>1, <1>2, <1>3, <2>1
  <2> QED  BY <2>2 DEF ToSet
<1>6. ASSUME NEW x \in ToSet(t) PROVE x \in ToSet(s \o t)
  <2>1. PICK i \in 1..Len(t) : x = t[i]
    BY <1>2, <1>6 DEF ToSet
  <2>2. i + Len(s) \in DOMAIN (s \o t) /\ x = (s \o t)[i + Len(s)]
    BY <1>1, <1>2, <1>3, <2>1
  <2> QED  BY <2>2 DEF ToSet
<1> QED  BY <1>1, <1>4, <1>5, <1>6

\* f accumulates the first n of the groups.
Accumulates(f, groups, n) ==
  f = [i \in 0..n |-> IF i = 0 THEN [prefix |-> << >>, mw |-> << >>]
                      ELSE Group(f[i - 1], groups[i])]

(* There is such an accumulation for every number of groups: the smallest  *)
(* number without one would follow a number with one.                      *)
LEMMA AccumulationExists ==
  ASSUME NEW groups, NEW N \in Nat
  PROVE  \E f : Accumulates(f, groups, N)
<1> DEFINE T == {n \in Nat : ~\E f : Accumulates(f, groups, n)}
<1> SUFFICES ASSUME T # {} PROVE FALSE
  OBVIOUS
<1>1. PICK x \in T : \A y \in T : x <= y
  BY SmallestNumber
<1>2. x \in Nat /\ ~\E f : Accumulates(f, groups, x)
  OBVIOUS
<1>3. x # 0
  <2> DEFINE f == [i \in 0..0 |-> [prefix |-> << >>, mw |-> << >>]]
  <2>1. Accumulates(f, groups, 0)
    BY DEF Accumulates
  <2> QED  BY <1>2, <2>1
<1>4. x - 1 \in Nat /\ ~(x <= x - 1)
  BY <1>2, <1>3
<1>5. PICK f : Accumulates(f, groups, x - 1)
  BY <1>1, <1>4
<1> DEFINE g == [i \in 0..x |-> IF i = x THEN Group(f[x - 1], groups[x]) ELSE f[i]]
<1> DEFINE top == [prefix |-> << >>, mw |-> << >>]
<1>6. \A i \in 0..(x - 1) : f[i] = IF i = 0 THEN top ELSE Group(f[i - 1], groups[i])
  <2> HIDE DEF top
  <2>1. f = [i \in 0..(x - 1) |-> IF i = 0 THEN top ELSE Group(f[i - 1], groups[i])]
    BY <1>5 DEF Accumulates, top
  <2> QED  BY <2>1
<1> HIDE DEF top
<1>7. \A i \in 0..x : g[i] = IF i = 0 THEN top ELSE Group(g[i - 1], groups[i])
  <2> TAKE i \in 0..x
  <2>1. CASE i = 0
    BY <1>2, <1>3, <1>6, <2>1, <1>4
  <2>2. CASE i = x
    <3>1. x - 1 \in 0..x /\ x - 1 # x
      BY <1>4
    <3>2. g[x - 1] = f[x - 1] /\ g[x] = Group(f[x - 1], groups[x])
      BY <1>2, <3>1
    <3> QED  BY <1>3, <2>2, <3>2
  <2>3. CASE i # 0 /\ i # x
    <3>1. i \in 0..(x - 1) /\ i - 1 \in 0..x /\ i - 1 # x
      BY <1>2, <2>3
    <3>2. g[i] = f[i] /\ g[i - 1] = f[i - 1]
      BY <2>3, <3>1
    <3> QED  BY <1>6, <2>3, <3>1, <3>2
  <2> QED  BY <2>1, <2>2, <2>3
<1>8. g = [i \in 0..x |-> IF i = 0 THEN top ELSE Group(g[i - 1], groups[i])]
  <2> DEFINE h == [i \in 0..x |-> IF i = 0 THEN top ELSE Group(g[i - 1], groups[i])]
  <2>1. \A i \in 0..x : g[i] = h[i]
    BY <1>7
  <2>2. DOMAIN g = 0..x /\ DOMAIN h = 0..x
    OBVIOUS
  <2> QED  BY <2>1, <2>2
<1>9. Accumulates(g, groups, x)
  BY <1>8 DEF Accumulates, top
<1> QED  BY <1>2, <1>9

(* The scope of nested groups holds the middleware of every one of them.   *)
LEMMA ScopeCovers ==
  ASSUME NEW groups, groups \in Seq(ToSet(groups)),
         \A g \in DOMAIN groups : groups[g].mw \in Seq(Middleware)
  PROVE  /\ Scope(groups).mw \in Seq(Middleware)
         /\ \A g \in DOMAIN groups : ToSet(groups[g].mw) \subseteq ToSet(Scope(groups).mw)
<1> DEFINE N == Len(groups)
           s == CHOOSE f : Accumulates(f, groups, N)
<1>1. N \in Nat /\ DOMAIN groups = 1..N
  BY LenProperties
<1>2. Scope(groups) = s[N]
  BY DEF Scope, Accumulates
<1>3. Accumulates(s, groups, N)
  BY <1>1, AccumulationExists
<1> HIDE DEF s
<1>4. /\ s[0] = [prefix |-> << >>, mw |-> << >>]
      /\ \A i \in 1..N : s[i] = Group(s[i - 1], groups[i])
  <2> DEFINE top == [prefix |-> << >>, mw |-> << >>]
  <2> HIDE DEF top
  <2>1. s = [i \in 0..N |-> IF i = 0 THEN top ELSE Group(s[i - 1], groups[i])]
    BY <1>3 DEF Accumulates, top
  <2>2. \A i \in 0..N : s[i] = IF i = 0 THEN top ELSE Group(s[i - 1], groups[i])
    BY <2>1
  <2> QED  BY <1>1, <2>2 DEF top
<1> DEFINE covers(n) == /\ s[n].mw \in Seq(Middleware)
                        /\ \A g \in 1..n : ToSet(groups[g].mw) \subseteq ToSet(s[n].mw)
           T == {n \in 0..N : ~covers(n)}
<1>5. ASSUME T # {} PROVE FALSE
  <2>1. PICK x \in T : \A y \in T : x <= y
    <3>1. T \in SUBSET Nat
      BY <1>1
    <3> QED  BY <1>5, <3>1, SmallestNumber
  <2>2. x \in 0..N /\ ~covers(x)
    OBVIOUS
  <2>3. x # 0
    <3>1. s[0].mw = << >>
      BY <1>4
    <3>2. covers(0)
      BY <3>1, EmptySeq
    <3> QED  BY <2>2, <3>2
  <2>4. x - 1 \in 0..N /\ ~(x <= x - 1) /\ x \in 1..N
    BY <1>1, <2>2, <2>3
  <2>5. covers(x - 1)
    BY <2>1, <2>4
  <2>6. s[x].mw = s[x - 1].mw \o groups[x].mw
    <3>1. s[x] = Group(s[x - 1], groups[x])
      BY <1>4, <2>4
    <3>2. Group(s[x - 1], groups[x]).mw = s[x - 1].mw \o groups[x].mw
      BY DEF Group
    <3> QED  BY <3>1, <3>2
  <2>7. /\ s[x].mw \in Seq(Middleware)
        /\ ToSet(s[x].mw) = ToSet(s[x - 1].mw) \cup ToSet(groups[x].mw)
    BY <1>1, <2>4, <2>5, <2>6, ConcatSet
  <2>8. ASSUME NEW g \in 1..x PROVE ToSet(groups[g].mw) \subseteq ToSet(s[x].mw)
    <3>1. g = x \/ g \in 1..(x - 1)
      BY <2>4
    <3> QED  BY <2>5, <2>7, <3>1
  <2> QED  BY <2>2, <2>7, <2>8
<1>6. covers(N)
  <2>1. N \in 0..N
    BY <1>1
  <2>2. T = {}
    BY <1>5
  <2> HIDE DEF covers
  <2> QED  BY <2>1, <2>2
<1> QED  BY <1>1, <1>2, <1>6


(* What the server registers: the health route and the table's.            *)
Registered == {Handle(Health)} \cup {Handle(Table[i]) : i \in DOMAIN Table}

(* A route's chain keeps what its handler is declared behind.              *)
LEMMA ChainKeepsDeclared ==
  ASSUME NEW r \in Registered
  PROVE  /\ r.chain \in Seq(Middleware)
         /\ DeclaredMiddleware(r.name) \subseteq ToSet(r.chain)
<1>1. CASE r = Handle(Health)
  <2>1. r.name = "health"
    BY <1>1 DEF Handle, Health
  <2>2. r.chain = Scope(<< >>).mw \o << >>
    BY <1>1 DEF Handle, Health, ChainOf
  <2>3. Scope(<< >>).mw \in Seq(Middleware)
    <3> DEFINE none == << >>
    <3>1. none \in Seq(ToSet(none)) /\ DOMAIN none = {}
      BY EmptySeq
    <3> HIDE DEF none
    <3>2. Scope(none).mw \in Seq(Middleware)
      BY <3>1, ScopeCovers
    <3> QED  BY <3>2 DEF none
  <2>4. r.chain \in Seq(Middleware)
    BY <2>2, <2>3, ConcatSet, EmptySeq
  <2>5. DeclaredMiddleware(r.name) = {}
    BY <2>1 DEF DeclaredMiddleware
  <2> QED  BY <2>4, <2>5
<1>2. ASSUME NEW i \in DOMAIN Table, r = Handle(Table[i])
      PROVE  /\ r.chain \in Seq(Middleware)
             /\ DeclaredMiddleware(r.name) \subseteq ToSet(r.chain)
  <2> DEFINE t == Table[i]
  <2>1. /\ t.own \in Seq(Middleware) /\ t.groups \in Seq(ToSet(t.groups))
        /\ \A g \in DOMAIN t.groups : t.groups[g].mw \in Seq(Middleware)
        /\ t.name \notin {"rpc", "health"}
        /\ \A j \in DOMAIN Table : t.name = Table[j].name => i = j
    BY ServicesAssumption
  <2>2. (CHOOSE j \in DOMAIN Table : Table[j].name = t.name) = i
    BY <2>1
  <2>3. DeclaredMiddleware(t.name) =
          ToSet(t.own) \cup UNION {ToSet(t.groups[g].mw) : g \in DOMAIN t.groups}
    BY <2>1, <2>2 DEF DeclaredMiddleware
  <2> HIDE DEF t
  <2>4. /\ Scope(t.groups).mw \in Seq(Middleware)
        /\ \A g \in DOMAIN t.groups : ToSet(t.groups[g].mw) \subseteq ToSet(Scope(t.groups).mw)
    BY <2>1, ScopeCovers
  <2>5. r.name = t.name /\ r.chain = Scope(t.groups).mw \o t.own
    BY <1>2 DEF Handle, ChainOf, t
  <2>6. /\ r.chain \in Seq(Middleware)
        /\ ToSet(r.chain) = ToSet(Scope(t.groups).mw) \cup ToSet(t.own)
    BY <2>1, <2>4, <2>5, ConcatSet
  <2> QED  BY <2>3, <2>4, <2>5, <2>6
<1> QED  BY <1>1, <1>2 DEF Registered

\* The server's tables: registered routes, and chains of known middleware.
TablesOK ==
  /\ routes \in Seq(Registered) /\ routes # << >>
  /\ global \in Seq(Middleware)
  /\ root # Nothing => root \in Seq(Middleware)

(* The route a request is given is a registered one.                       *)
LEMMA RouteIsRegistered ==
  ASSUME TablesOK, NEW method, NEW path, RouteOf(method, path) # Nothing
  PROVE  RouteOf(method, path) \in Registered
<1> DEFINE found == {i \in DOMAIN routes : /\ routes[i].method = method
                                           /\ Matches(routes[i].path, path)}
<1>1. DOMAIN routes = 1..Len(routes) /\ \A i \in DOMAIN routes : routes[i] \in Registered
  BY LenProperties, ElementOfSeq DEF TablesOK
<1>2. found # {} /\ found \in SUBSET Nat
  BY <1>1 DEF RouteOf
<1>3. \E i \in found : \A j \in found : i <= j
  BY <1>2, SmallestNumber
<1>4. (CHOOSE i \in found : \A j \in found : i <= j) \in DOMAIN routes
  BY <1>3
<1>5. RouteOf(method, path) = routes[CHOOSE i \in found : \A j \in found : i <= j]
  BY <1>2 DEF RouteOf
<1> QED  BY <1>1, <1>4, <1>5

(* The interceptors of a call begin with grpcTelemetry.                    *)
LEMMA TelemetryFirst ==
  GrpcChain \in Seq(Middleware) /\ GrpcChain # << >> /\ Head(GrpcChain) = "telemetry"
<1> DEFINE first == <<"telemetry">>
           rest == Interceptors \o PerService
<1>1. first \in Seq(Middleware) /\ Len(first) = 1 /\ first[1] = "telemetry"
  BY DEF Middleware
<1>2. Interceptors \in Seq(Middleware) /\ PerService \in Seq(Middleware)
  BY ServicesAssumption
<1> HIDE DEF first
<1>3. first \o Interceptors \in Seq(Middleware) /\ Len(first \o Interceptors) >= 1
      /\ (first \o Interceptors)[1] = "telemetry"
  BY <1>1, <1>2, ConcatProperties, LenProperties
<1> DEFINE inner == first \o Interceptors
<1> HIDE DEF inner
<1>4. inner \o PerService \in Seq(Middleware) /\ Len(inner \o PerService) >= 1
      /\ (inner \o PerService)[1] = "telemetry"
  BY <1>2, <1>3, ConcatProperties, LenProperties DEF inner
<1>5. GrpcChain = inner \o PerService
  BY DEF GrpcChain, inner, first
<1> QED  BY <1>4, <1>5

LEMMA TablesStep == TablesOK /\ [ServicesNext]_serviceVars => TablesOK'
<1> SUFFICES ASSUME TablesOK, [ServicesNext]_serviceVars PROVE TablesOK'
  OBVIOUS
<1>1. CASE Use
  <2>1. /\ Len(global) < Len(Globals) /\ global' = Append(global, Globals[Len(global) + 1])
        /\ UNCHANGED <<routes, root>>
    BY <1>1 DEF Use
  <2>2. Globals[Len(global) + 1] \in Middleware
    BY <2>1, ServicesAssumption, LenProperties, ElementOfSeq DEF TablesOK
  <2> QED  BY <2>1, <2>2, AppendProperties DEF TablesOK
<1>2. CASE Register
  <2>1. /\ Len(routes) <= Len(Table) /\ routes' = Append(routes, Handle(Table[Len(routes)]))
        /\ UNCHANGED <<global, root>>
    BY <1>2 DEF Register
  <2>2. Len(routes) \in DOMAIN Table
    BY <2>1, ServicesAssumption, LenProperties, EmptySeq DEF TablesOK
  <2>3. Handle(Table[Len(routes)]) \in Registered
    BY <2>2 DEF Registered
  <2> DEFINE h == Handle(Table[Len(routes)])
  <2> HIDE DEF h
  <2>4. h \in Registered /\ routes' = Append(routes, h)
    BY <2>1, <2>3 DEF h
  <2>5. routes' \in Seq(Registered) /\ routes' # << >>
    BY <2>4, AppendProperties DEF TablesOK
  <2> QED  BY <2>1, <2>5 DEF TablesOK
<1>3. CASE Listen
  BY <1>3 DEF Listen, TablesOK
<1>4. CASE Shutdown
  BY <1>4 DEF Shutdown, TablesOK
<1>5. ASSUME NEW q \in Requests, Arrive(q) \/ Step(q) PROVE TablesOK'
  <2>1. UNCHANGED <<routes, global, root>>
    BY <1>5 DEF Arrive, Step, EnterContext, EnterWrapper, EnterTelemetry, EnterAuth, LoadKey,
                CheckSignature, Authenticate, Route, Run, LeaveResponse, LeaveLogger,
                LeaveTelemetry, Answer
  <2> QED  BY <2>1 DEF TablesOK
<1>6. CASE UNCHANGED serviceVars
  BY <1>6 DEF serviceVars, TablesOK
<1> QED  BY <1>1, <1>2, <1>3, <1>4, <1>5, <1>6 DEF ServicesNext


-----------------------------------------------------------------------------
(* The servers: one request.                                               *)

RequestFields == {"pc", "kind", "method", "path", "cred", "todo", "passed", "route", "context",
                  "skip", "claims", "ran", "saw", "out", "lines", "span", "answer"}

Wrappers == Middleware \ {"auth"}
Outs == {"200", "401", "404", "thrown", "coded", "unauthenticated", "notFound"}
Lines == BOOLEAN \X (Outs \cup {"error"}) \X BOOLEAN
Verifying == {"key", "verify", "validate"}
Inward == {"new", "enter"} \cup Verifying
Outward == {"leave", "answered"}

\* Nothing is logged and no handler has run on the way in.
ShapeOK(r) ==
  /\ DOMAIN r = RequestFields
  /\ r.pc \in Inward \cup Outward
  /\ r.passed \in Seq(Wrappers) /\ r.todo \in Seq(Middleware)
  /\ r.lines \in Seq(Lines)
  /\ r.pc \in Inward => r.lines = << >> /\ ~r.ran
  /\ r.pc \in Verifying => r.todo # << >>
  /\ r.pc \in Outward => r.out \in Outs

\* What a handler that ran has seen.
SawOK(q, r) ==
  /\ r.saw \in {Nothing, q}
  /\ r.saw = q => r.cred = "good"
  /\ "auth" \in DeclaredMiddleware(r.route.name) => r.saw = q

\* A request carries no claims but its own, those of a token that passed every
\* check; until it does, the authentication it must pass is still ahead.
ClaimsOK(q, r) ==
  /\ r.pc # "new" => r.cred \in Credentials
  /\ r.claims \in {Nothing, q}
  /\ r.claims = q => r.cred = "good"
  /\ r.pc \in Verifying => r.cred \notin {"none", "scheme", "malformed"}
  /\ r.pc = "validate" => r.cred # "forged"
  /\ r.pc \in Inward /\ r.route # Nothing /\ "auth" \in DeclaredMiddleware(r.route.name) =>
       r.claims = q \/ "auth" \in ToSet(r.todo)
  /\ r.ran => SawOK(q, r)

\* A line after which its logger threw needs a request that fails; any other
\* says how the request ends.
Says(line, out) ==
  IF line[3] THEN Thrown(out) ELSE line[2] = (IF Thrown(out) THEN "error" ELSE out)

\* Once the outermost logger is left, its last line, if any, says how the
\* request ends, and its logger threw after every earlier one: nothing changes
\* the outcome any more.
LinesOK(r) ==
  /\ "logger" \in ToSet(r.passed) => \A i \in DOMAIN r.lines : ~r.lines[i][1]
  /\ "logger" \notin ToSet(r.passed) =>
       /\ \A i, j \in DOMAIN r.lines : r.lines[i][1] /\ r.lines[j][1] /\ i < j => r.lines[i][3]
       /\ \A i \in DOMAIN r.lines : r.lines[i][1] => Says(r.lines[i], r.out)

\* The code a span is ended with.
SpanCode(out) == IF ~Thrown(out) THEN "ok" ELSE IF out = "thrown" THEN "unknown" ELSE out

\* A call is in its telemetry interceptor until the span is ended.
SpanOK(r) ==
  \/ r.pc = "enter" /\ r.passed = << >> /\ r.todo = GrpcChain
  \/ r.pc # "answered" /\ r.passed # << >> /\ r.passed[1] = "telemetry"
  \/ r.pc \in Outward /\ r.passed = << >> /\ r.span = SpanCode(r.out)

ToldOK(r) ==
  /\ r.pc \in Outward => LinesOK(r)
  /\ r.kind = "grpc" => SpanOK(r)
  /\ r.pc = "answered" => r.passed = << >> /\ r.answer = ToAnswer(r)

RequestOK(q, r) == ShapeOK(r) /\ ClaimsOK(q, r) /\ ToldOK(r)

\* s is the request r, further on.
SameRequest(r, s) ==
  /\ DOMAIN s = RequestFields
  /\ s.kind = r.kind /\ s.cred = r.cred

(* What is left of a sequence after its head.                              *)
LEMMA TailSet ==
  ASSUME NEW S, NEW s \in Seq(S), s # << >>
  PROVE  /\ Tail(s) \in Seq(S) /\ Head(s) \in S
         /\ \A x \in ToSet(s) : x = Head(s) \/ x \in ToSet(Tail(s))
<1>1. /\ Head(s) \in S /\ Head(s) = s[1] /\ Tail(s) \in Seq(S) /\ Len(Tail(s)) = Len(s) - 1
      /\ \A i \in 1 .. Len(s) - 1 : Tail(s)[i] = s[i + 1]
  BY HeadTailProperties
<1>2. DOMAIN s = 1..Len(s) /\ Len(s) \in Nat /\ DOMAIN Tail(s) = 1 .. Len(s) - 1
  BY <1>1, LenProperties
<1>3. ASSUME NEW i \in DOMAIN s PROVE s[i] = Head(s) \/ s[i] \in ToSet(Tail(s))
  <2>1. CASE i = 1
    BY <1>1, <2>1
  <2>2. CASE i # 1
    <3>1. i - 1 \in DOMAIN Tail(s) /\ Tail(s)[i - 1] = s[i]
      BY <1>1, <1>2, <2>2
    <3> QED  BY <3>1 DEF ToSet
  <2> QED  BY <2>1, <2>2
<1> QED  BY <1>1, <1>3 DEF ToSet

(* What is left of a sequence before its last element.                     *)
LEMMA FrontSet ==
  ASSUME NEW S, NEW s \in Seq(S), s # << >>
  PROVE  /\ Front(s) \in Seq(S) /\ Len(Front(s)) = Len(s) - 1
         /\ \A i \in 1 .. Len(s) - 1 : Front(s)[i] = s[i]
         /\ ToSet(s) = ToSet(Front(s)) \cup {Last(s)}
<1>1. Len(s) \in Nat /\ Len(s) >= 1 /\ DOMAIN s = 1..Len(s) /\ \A i \in 1..Len(s) : s[i] \in S
  BY LenProperties, EmptySeq, ElementOfSeq
<1>2. /\ Front(s) \in Seq(S) /\ Len(Front(s)) = Len(s) - 1
      /\ \A i \in 1 .. Len(s) - 1 : Front(s)[i] = s[i]
  <2>1. \A i \in 1 .. (Len(s) - 1) : s[i] \in S
    BY <1>1
  <2>2. /\ SubSeq(s, 1, Len(s) - 1) \in Seq(S)
        /\ Len(SubSeq(s, 1, Len(s) - 1)) = IF 1 <= Len(s) - 1 THEN Len(s) - 1 - 1 + 1 ELSE 0
        /\ \A i \in 1 .. (Len(s) - 1) - 1 + 1 : SubSeq(s, 1, Len(s) - 1)[i] = s[1 + i - 1]
    BY <1>1, <2>1, SubSeqProperties
  <2> QED  BY <1>1, <2>2 DEF Front
<1>3. DOMAIN Front(s) = 1 .. Len(s) - 1
  BY <1>2, LenProperties
<1>4. ToSet(s) = ToSet(Front(s)) \cup {Last(s)}
  <2>1. ASSUME NEW i \in 1..Len(s) PROVE s[i] \in ToSet(Front(s)) \cup {Last(s)}
    <3>1. i = Len(s) \/ i \in DOMAIN Front(s)
      <4>1. Len(s) \in Nat
        BY <1>1
      <4>2. i = Len(s) \/ i \in 1 .. Len(s) - 1
        BY <4>1
      <4> QED  BY <1>3, <4>2
    <3>2. i \in DOMAIN Front(s) => Front(s)[i] = s[i]
      BY <1>2, <1>3
    <3> QED  BY <3>1, <3>2 DEF ToSet, Last
  <2>2. ASSUME NEW i \in DOMAIN Front(s) PROVE Front(s)[i] \in ToSet(s)
    <3>1. i \in DOMAIN s /\ Front(s)[i] = s[i]
      BY <1>1, <1>2, <1>3
    <3> QED  BY <3>1 DEF ToSet
  <2>3. Last(s) \in ToSet(s)
    BY <1>1 DEF ToSet, Last
  <2>4. ToSet(s) = {s[i] : i \in 1..Len(s)} /\ ToSet(Front(s)) = {Front(s)[i] : i \in DOMAIN Front(s)}
    BY <1>1 DEF ToSet
  <2> QED  BY <2>1, <2>2, <2>3, <2>4
<1> QED  BY <1>2, <1>4


(* A request enters a middleware that is not authentication.               *)
LEMMA PassKeeps ==
  ASSUME NEW q, NEW r, NEW s, NEW mw \in Wrappers, RequestOK(q, r), SameRequest(r, s),
         r.pc = "enter", r.todo # << >>, Head(r.todo) = mw,
         s.pc = "enter", s.todo = Tail(r.todo), s.passed = Append(r.passed, mw),
         s.route = r.route, s.claims = r.claims, s.ran = r.ran, s.lines = r.lines
  PROVE  RequestOK(q, s)
<1>1. /\ r.passed \in Seq(Wrappers) /\ r.todo \in Seq(Middleware) /\ r.lines = << >> /\ ~r.ran
      /\ r.lines \in Seq(Lines)
  BY DEF RequestOK, ShapeOK, Inward
<1>2. /\ s.todo \in Seq(Middleware)
      /\ \A x \in ToSet(r.todo) : x = mw \/ x \in ToSet(s.todo)
  BY <1>1, TailSet
<1>3. /\ s.passed \in Seq(Wrappers) /\ s.passed # << >>
      /\ s.passed[1] = IF r.passed = << >> THEN mw ELSE r.passed[1]
  <2> DEFINE p == r.passed
  <2> HIDE DEF p
  <2>1. p \in Seq(Wrappers) /\ s.passed = Append(p, mw)
    BY <1>1 DEF p
  <2>2. /\ Append(p, mw) \in Seq(Wrappers) /\ Append(p, mw) # << >>
        /\ Len(Append(p, mw)) = Len(p) + 1 /\ Append(p, mw)[Len(p) + 1] = mw
        /\ \A i \in 1..Len(p) : Append(p, mw)[i] = p[i]
    BY <2>1, AppendProperties
  <2>3. Len(p) \in Nat /\ (p = << >> <=> Len(p) = 0)
    BY <2>1, LenProperties, EmptySeq
  <2>4. Append(p, mw)[1] = IF p = << >> THEN mw ELSE p[1]
    BY <2>2, <2>3
  <2> QED  BY <2>1, <2>2, <2>4 DEF p
<1>4. ShapeOK(s)
  BY <1>1, <1>2, <1>3 DEF ShapeOK, SameRequest, Inward, Verifying, Outward
<1>5. ClaimsOK(q, s)
  <2>1. mw # "auth"
    BY DEF Wrappers
  <2>2. ClaimsOK(q, r)
    BY DEF RequestOK
  <2> QED  BY <1>1, <1>2, <2>1, <2>2 DEF ClaimsOK, SameRequest, Inward, Verifying
<1>6. ToldOK(s)
  <2>1. ASSUME r.kind = "grpc" PROVE s.passed[1] = "telemetry"
    <3>1. SpanOK(r)
      BY <2>1 DEF RequestOK, ToldOK
    <3>2. r.passed = << >> => r.todo = GrpcChain
      BY <3>1 DEF SpanOK, Outward
    <3>3. r.passed # << >> => r.passed[1] = "telemetry"
      BY <3>1 DEF SpanOK
    <3> QED  BY <1>3, <3>2, <3>3, TelemetryFirst
  <2> QED  BY <1>3, <2>1 DEF ToldOK, SpanOK, SameRequest, Outward
<1> QED  BY <1>4, <1>5, <1>6 DEF RequestOK

(* A request's way out begins: it is refused, finds no route, or its       *)
(* handler has run with the claims it carried.                             *)
LEMMA ReturnKeeps ==
  ASSUME NEW q, NEW r, NEW s, RequestOK(q, r), SameRequest(r, s),
         r.pc \in {"enter"} \cup Verifying,
         r.pc = "enter" => r.todo # GrpcChain,
         s.pc = "leave", s.out \in Outs, s.todo = r.todo, s.passed = r.passed,
         s.route = r.route, s.claims = r.claims, s.lines = r.lines,
         s.ran => r.pc = "enter" /\ r.todo = << >> /\ r.route # Nothing /\ s.saw = r.claims
  PROVE  RequestOK(q, s)
<1>1. /\ r.passed \in Seq(Wrappers) /\ r.todo \in Seq(Middleware) /\ r.lines = << >>
      /\ r.lines \in Seq(Lines)
  BY DEF RequestOK, ShapeOK, Inward
<1>2. ShapeOK(s)
  BY <1>1 DEF ShapeOK, SameRequest, Inward, Verifying, Outward
<1>3. ClaimsOK(q, r) /\ ToldOK(r)
  BY DEF RequestOK
<1>4. ASSUME s.ran PROVE SawOK(q, s)
  <2>1. ToSet(r.todo) = {}
    BY <1>4 DEF ToSet
  <2>2. r.pc = "enter" /\ r.route # Nothing /\ s.saw = r.claims
    BY <1>4
  <2> QED  BY <1>3, <2>1, <2>2 DEF SawOK, ClaimsOK, SameRequest, Inward
<1>5. ClaimsOK(q, s)
  BY <1>3, <1>4 DEF ClaimsOK, SameRequest, Inward, Verifying
<1>6. LinesOK(s)
  BY <1>1 DEF LinesOK
<1>7. ASSUME s.kind = "grpc" PROVE SpanOK(s)
  <2>1. SpanOK(r)
    BY <1>3, <1>7 DEF ToldOK, SameRequest
  <2>2. r.passed # << >> /\ r.passed[1] = "telemetry"
    BY <2>1 DEF SpanOK, Outward, Verifying
  <2> QED  BY <2>2 DEF SpanOK
<1> QED  BY <1>2, <1>5, <1>6, <1>7 DEF RequestOK, ToldOK


LEMMA LongerThanOne == \A n \in Nat : n # 1 /\ n >= 1 => 1 \in 1 .. n - 1 /\ n - 1 # 0
OBVIOUS

\* The lines of r and what a logger that is left adds to them.
Added(r, s) ==
  /\ s.lines \in Seq(Lines)
  /\ \A i \in DOMAIN r.lines : i \in DOMAIN s.lines /\ s.lines[i] = r.lines[i]
  /\ \A i \in DOMAIN s.lines \ DOMAIN r.lines :
       /\ s.lines[i][1] <=> "logger" \notin ToSet(Front(r.passed))
       /\ Says(s.lines[i], s.out)
       /\ \A j \in DOMAIN s.lines : i < j => s.lines[i][3]

(* A middleware is left.  A logger may add lines or fail; grpcTelemetry    *)
(* ends the span.                                                          *)
LEMMA PopKeeps ==
  ASSUME NEW q, NEW r, NEW s, RequestOK(q, r), SameRequest(r, s),
         r.pc = "leave", r.passed # << >>,
         s.pc = "leave", s.out \in Outs, s.todo = r.todo, s.passed = Front(r.passed),
         s.route = r.route, s.claims = r.claims, s.ran = r.ran, s.saw = r.saw,
         \/ Last(r.passed) # "logger" /\ s.lines = r.lines /\ s.out = r.out
         \/ Last(r.passed) = "logger" /\ Added(r, s),
         Last(r.passed) = "telemetry" => s.span = SpanCode(s.out)
  PROVE  RequestOK(q, s)
<1>1. /\ r.passed \in Seq(Wrappers) /\ r.todo \in Seq(Middleware) /\ r.lines \in Seq(Lines)
  BY DEF RequestOK, ShapeOK
<1>2. ClaimsOK(q, r) /\ ToldOK(r) /\ LinesOK(r)
  BY DEF RequestOK, ToldOK, Outward
<1>3. /\ s.passed \in Seq(Wrappers) /\ Len(s.passed) = Len(r.passed) - 1
      /\ \A i \in 1 .. Len(r.passed) - 1 : s.passed[i] = r.passed[i]
      /\ ToSet(r.passed) = ToSet(s.passed) \cup {Last(r.passed)}
  BY <1>1, FrontSet
<1>4. s.lines \in Seq(Lines)
  BY <1>1 DEF Added
<1>6. ShapeOK(s)
  BY <1>1, <1>3, <1>4 DEF ShapeOK, SameRequest, Inward, Verifying, Outward
<1>7. ClaimsOK(q, s)
  BY <1>2 DEF ClaimsOK, SawOK, SameRequest, Inward, Verifying
<1>8. LinesOK(s)
  <2>1. CASE Last(r.passed) # "logger" /\ s.lines = r.lines /\ s.out = r.out
    BY <1>2, <1>3, <2>1 DEF LinesOK
  <2>2. CASE Last(r.passed) = "logger" /\ Added(r, s)
    <3>1. \A i \in DOMAIN r.lines : ~r.lines[i][1]
      BY <1>2, <1>3, <2>2 DEF LinesOK
    <3>2. \A i \in DOMAIN s.lines : s.lines[i][1] =>
            /\ "logger" \notin ToSet(s.passed)
            /\ Says(s.lines[i], s.out)
            /\ \A j \in DOMAIN s.lines : i < j => s.lines[i][3]
      BY <2>2, <3>1 DEF Added
    <3> QED  BY <3>2 DEF LinesOK
  <2> QED  BY <2>1, <2>2
<1>9. ASSUME s.kind = "grpc" PROVE SpanOK(s)
  <2>1. r.passed[1] = "telemetry"
    BY <1>2, <1>9 DEF ToldOK, SpanOK, SameRequest
  <2>2. Len(r.passed) \in Nat /\ Len(r.passed) >= 1
    BY <1>1, LenProperties, EmptySeq
  <2>3. CASE Len(r.passed) = 1
    <3>1. s.passed = << >>
      BY <1>3, <2>3, EmptySeq
    <3>2. Last(r.passed) = "telemetry"
      BY <2>1, <2>3 DEF Last
    <3> QED  BY <3>1, <3>2 DEF SpanOK, Outward
  <2>4. CASE Len(r.passed) # 1
    <3>1. s.passed # << >> /\ s.passed[1] = "telemetry"
      <4>1. 1 \in 1 .. Len(r.passed) - 1 /\ Len(s.passed) # 0
        <5>1. Len(s.passed) = Len(r.passed) - 1
          BY <1>3
        <5> QED  BY <2>2, <2>4, <5>1, LongerThanOne
      <4>2. s.passed[1] = r.passed[1]
        BY <1>3, <4>1
      <4> QED  BY <2>1, <4>1, <4>2, EmptySeq
    <3> QED  BY <3>1 DEF SpanOK
  <2> QED  BY <2>3, <2>4
<1> QED  BY <1>6, <1>7, <1>8, <1>9 DEF RequestOK, ToldOK

(* A token is read, its key loaded and its signature checked.              *)
LEMMA VerifyKeeps ==
  ASSUME NEW q, NEW r, NEW s, RequestOK(q, r), SameRequest(r, s),
         r.pc \in {"enter"} \cup Verifying, r.todo # << >>, s.pc \in Verifying,
         r.pc = "enter" => r.todo # GrpcChain,
         r.pc = "enter" => r.cred \notin {"none", "scheme", "malformed"},
         s.pc = "validate" => r.cred # "forged",
         s.todo = r.todo, s.passed = r.passed, s.route = r.route, s.claims = r.claims,
         s.ran = r.ran, s.lines = r.lines
  PROVE  RequestOK(q, s)
<1>1. ShapeOK(r) /\ ClaimsOK(q, r) /\ ToldOK(r)
  BY DEF RequestOK
<1>2. ShapeOK(s)
  BY <1>1 DEF ShapeOK, SameRequest, Inward, Verifying, Outward
<1>3. ClaimsOK(q, s)
  BY <1>1 DEF ShapeOK, ClaimsOK, SameRequest, Inward, Verifying
<1>4. ToldOK(s)
  BY <1>1 DEF ToldOK, SpanOK, SameRequest, Verifying, Outward
<1> QED  BY <1>2, <1>3, <1>4 DEF RequestOK

(* The validators accept: the request gets its own claims and goes on.     *)
LEMMA AuthenticateKeeps ==
  ASSUME NEW q, NEW r, NEW s, RequestOK(q, r), SameRequest(r, s),
         r.pc = "validate", r.cred # "rejected",
         s.pc = "enter", s.todo = Tail(r.todo), s.passed = r.passed, s.route = r.route,
         s.claims = q, s.ran = r.ran, s.lines = r.lines
  PROVE  RequestOK(q, s)
<1>1. ShapeOK(r) /\ ClaimsOK(q, r) /\ ToldOK(r)
  BY DEF RequestOK
<1>2. s.todo \in Seq(Middleware)
  BY <1>1, TailSet DEF ShapeOK, Verifying
<1>3. ShapeOK(s)
  BY <1>1, <1>2 DEF ShapeOK, SameRequest, Inward, Verifying, Outward
<1>4. r.cred = "good"
  BY <1>1 DEF ClaimsOK, Verifying, Credentials
<1>5. ClaimsOK(q, s)
  BY <1>1, <1>3, <1>4 DEF ShapeOK, ClaimsOK, SameRequest, Inward, Verifying
<1>6. ToldOK(s)
  BY <1>1 DEF ToldOK, SpanOK, SameRequest, Outward
<1> QED  BY <1>3, <1>5, <1>6 DEF RequestOK

(* A request is given its route, whose chain it has yet to pass.           *)
LEMMA RouteKeeps ==
  ASSUME NEW q, NEW r, NEW s, NEW route \in Registered, RequestOK(q, r), SameRequest(r, s),
         r.pc = "enter", r.todo = << >>,
         s.pc = "enter", s.todo = route.chain, s.passed = r.passed, s.route = route,
         s.claims = r.claims, s.ran = r.ran, s.lines = r.lines
  PROVE  RequestOK(q, s)
<1>1. ShapeOK(r) /\ ClaimsOK(q, r) /\ ToldOK(r)
  BY DEF RequestOK
<1>2. s.todo \in Seq(Middleware) /\ DeclaredMiddleware(route.name) \subseteq ToSet(s.todo)
  BY ChainKeepsDeclared
<1>3. ShapeOK(s)
  BY <1>1, <1>2 DEF ShapeOK, SameRequest, Inward, Verifying, Outward
<1>4. ClaimsOK(q, s)
  BY <1>1, <1>2 DEF ShapeOK, ClaimsOK, SameRequest, Inward, Verifying
<1>5. ToldOK(s)
  <2>1. r.todo # GrpcChain
    BY TelemetryFirst
  <2> QED  BY <1>1, <2>1 DEF ToldOK, SpanOK, SameRequest, Outward
<1> QED  BY <1>3, <1>4, <1>5 DEF RequestOK


(* A request arrives.                                                      *)
LEMMA ArriveKeeps ==
  ASSUME NEW q, NEW s, Nothing # q, NEW kind, NEW chain \in Seq(Middleware),
         DOMAIN s = RequestFields, s.pc = "enter", s.kind = kind, s.cred \in Credentials,
         s.todo = IF kind = "http" THEN chain ELSE GrpcChain,
         kind = "http" => s.route = Nothing,
         kind # "http" => s.route.name = "rpc",
         s.passed = << >>, s.claims = Nothing, s.ran = FALSE, s.lines = << >>
  PROVE  RequestOK(q, s)
<1>1. s.todo \in Seq(Middleware)
  BY TelemetryFirst
<1>2. ShapeOK(s)
  <2>1. s.passed \in Seq(Wrappers) /\ s.lines \in Seq(Lines)
    BY EmptySeq
  <2> QED  BY <1>1, <2>1 DEF ShapeOK, Inward, Verifying, Outward
<1>3. kind # "http" => DeclaredMiddleware(s.route.name) = ToSet(s.todo)
  BY DEF DeclaredMiddleware
<1>4. ClaimsOK(q, s)
  BY <1>3 DEF ClaimsOK, Verifying
<1>5. ToldOK(s)
  BY DEF ToldOK, SpanOK, Outward
<1> QED  BY <1>2, <1>4, <1>5 DEF RequestOK

(* A request is answered.                                                  *)
LEMMA AnswerKeeps ==
  ASSUME NEW q, NEW r, RequestOK(q, r), r.pc = "leave", r.passed = << >>
  PROVE  RequestOK(q, [r EXCEPT !.pc = "answered", !.answer = ToAnswer(r)])
<1> DEFINE s == [r EXCEPT !.pc = "answered", !.answer = ToAnswer(r)]
<1>1. ShapeOK(r) /\ ClaimsOK(q, r) /\ ToldOK(r)
  BY DEF RequestOK
<1>2. /\ DOMAIN s = RequestFields /\ s.pc = "answered" /\ s.answer = ToAnswer(r)
      /\ \A f \in RequestFields \ {"pc", "answer"} : s[f] = r[f]
  BY <1>1 DEF ShapeOK, RequestFields
<1>3. /\ s.kind = r.kind /\ s.cred = r.cred /\ s.todo = r.todo /\ s.passed = r.passed
      /\ s.route = r.route /\ s.claims = r.claims /\ s.ran = r.ran /\ s.saw = r.saw
      /\ s.out = r.out /\ s.lines = r.lines /\ s.span = r.span
  BY <1>2 DEF RequestFields
<1> HIDE DEF s
<1>4. ShapeOK(s)
  BY <1>1, <1>2, <1>3 DEF ShapeOK, Inward, Verifying, Outward
<1>5. ClaimsOK(q, s)
  BY <1>1, <1>2, <1>3 DEF ClaimsOK, SawOK, Inward, Verifying
<1>6. ToAnswer(s) = ToAnswer(r)
  BY <1>3 DEF ToAnswer
<1>7. LinesOK(s)
  BY <1>1, <1>3 DEF ToldOK, LinesOK, Outward
<1>8. s.kind = "grpc" => SpanOK(s)
  BY <1>1, <1>2, <1>3 DEF ToldOK, SpanOK, Outward
<1>9. ToldOK(s)
  BY <1>2, <1>3, <1>6, <1>7, <1>8 DEF ToldOK
<1> QED  BY <1>4, <1>5, <1>9 DEF RequestOK, s

ServicesInv == TablesOK /\ DOMAIN req = Requests /\ \A q \in Requests : RequestOK(q, req[q])

(* The way in: a request passes or is refused by its middleware.           *)
LEMMA EnterSteps ==
  ASSUME ServicesInv, NEW q \in Requests,
         EnterContext(q) \/ EnterWrapper(q) \/ EnterTelemetry(q)
  PROVE  \E s : req' = [req EXCEPT ![q] = s] /\ RequestOK(q, s)
<1> DEFINE r == req[q]
<1>1. RequestOK(q, r) /\ DOMAIN r = RequestFields
  BY DEF ServicesInv, RequestOK, ShapeOK
<1>2. CASE EnterContext(q)
  <2> DEFINE s == [Pass(r, "context") EXCEPT !.context = TRUE]
  <2>1. r.pc = "enter" /\ r.todo # << >> /\ Head(r.todo) = "context" /\ req' = [req EXCEPT ![q] = s]
    BY <1>2 DEF EnterContext, Entering
  <2>2. /\ SameRequest(r, s) /\ s.pc = r.pc /\ s.todo = Tail(r.todo)
        /\ s.passed = Append(r.passed, "context")
        /\ s.route = r.route /\ s.claims = r.claims /\ s.ran = r.ran /\ s.lines = r.lines
    BY <1>1 DEF Pass, SameRequest, RequestFields
  <2>3. "context" \in Wrappers
    BY DEF Wrappers, Middleware
  <2> HIDE DEF s, r
  <2>4. RequestOK(q, s)
    BY <1>1, <2>1, <2>2, <2>3, PassKeeps
  <2> QED  BY <2>1, <2>4
<1>3. CASE EnterWrapper(q)
  <2>1. PICK mw \in {"logger", "headers"} : Entering(q, mw) /\ req' = [req EXCEPT ![q] = Pass(r, mw)]
    BY <1>3 DEF EnterWrapper
  <2> DEFINE s == Pass(r, mw)
  <2>2. r.pc = "enter" /\ r.todo # << >> /\ Head(r.todo) = mw /\ req' = [req EXCEPT ![q] = s]
    BY <2>1 DEF Entering
  <2>3. /\ SameRequest(r, s) /\ s.pc = r.pc /\ s.todo = Tail(r.todo)
        /\ s.passed = Append(r.passed, mw)
        /\ s.route = r.route /\ s.claims = r.claims /\ s.ran = r.ran /\ s.lines = r.lines
    BY <1>1 DEF Pass, SameRequest, RequestFields
  <2>4. mw \in Wrappers
    BY DEF Wrappers, Middleware
  <2> HIDE DEF s, r
  <2>5. RequestOK(q, s)
    BY <1>1, <2>2, <2>3, <2>4, PassKeeps
  <2> QED  BY <2>2, <2>5
<1>4. CASE EnterTelemetry(q)
  <2> DEFINE s == [Pass(r, "telemetry") EXCEPT !.span = "open"]
  <2>1. r.pc = "enter" /\ r.todo # << >> /\ Head(r.todo) = "telemetry" /\ req' = [req EXCEPT ![q] = s]
    BY <1>4 DEF EnterTelemetry, Entering
  <2>2. /\ SameRequest(r, s) /\ s.pc = r.pc /\ s.todo = Tail(r.todo)
        /\ s.passed = Append(r.passed, "telemetry")
        /\ s.route = r.route /\ s.claims = r.claims /\ s.ran = r.ran /\ s.lines = r.lines
    BY <1>1 DEF Pass, SameRequest, RequestFields
  <2>3. "telemetry" \in Wrappers
    BY DEF Wrappers, Middleware
  <2> HIDE DEF s, r
  <2>4. RequestOK(q, s)
    BY <1>1, <2>1, <2>2, <2>3, PassKeeps
  <2> QED  BY <2>1, <2>4
<1> QED  BY <1>2, <1>3, <1>4

(* A refused request is on its way out.                                    *)
LEMMA RefuseKeeps ==
  ASSUME NEW q, NEW r, RequestOK(q, r), r.pc \in {"enter"} \cup Verifying,
         r.pc = "enter" => r.todo # GrpcChain
  PROVE  RequestOK(q, Refuse(r))
<1> DEFINE s == Refuse(r)
<1>1. DOMAIN r = RequestFields /\ ~r.ran
  BY DEF RequestOK, ShapeOK, Inward
<1>2. /\ SameRequest(r, s) /\ s.pc = "leave" /\ s.out \in Outs
      /\ s.todo = r.todo /\ s.passed = r.passed /\ s.route = r.route /\ s.claims = r.claims
      /\ s.lines = r.lines /\ s.ran = r.ran
  BY <1>1 DEF Refuse, Return, SameRequest, RequestFields, Outs
<1> HIDE DEF s
<1>3. RequestOK(q, s)
  BY <1>1, <1>2, ReturnKeeps
<1> QED  BY <1>3 DEF s


(* Authentication.                                                         *)
LEMMA AuthSteps ==
  ASSUME ServicesInv, NEW q \in Requests,
         EnterAuth(q) \/ LoadKey(q) \/ CheckSignature(q) \/ Authenticate(q)
  PROVE  \E s : req' = [req EXCEPT ![q] = s] /\ RequestOK(q, s)
<1> DEFINE r == req[q]
<1>1. RequestOK(q, r) /\ DOMAIN r = RequestFields /\ DOMAIN req = Requests
  BY DEF ServicesInv, RequestOK, ShapeOK
<1>2. r.pc \in Verifying => r.todo # << >>
  BY <1>1 DEF RequestOK, ShapeOK
<1>3. ASSUME NEW s, s = [r EXCEPT !.pc = s.pc]
      PROVE  /\ SameRequest(r, s)
             /\ s.todo = r.todo /\ s.passed = r.passed /\ s.route = r.route
             /\ s.claims = r.claims /\ s.ran = r.ran /\ s.lines = r.lines
  BY <1>1, <1>3 DEF SameRequest, RequestFields
<1>4. CASE EnterAuth(q)
  <2>1. r.pc = "enter" /\ r.todo # << >> /\ r.todo # GrpcChain
    <3>1. "auth" # "telemetry"
      OBVIOUS
    <3> QED  BY <1>4, <3>1, TelemetryFirst DEF EnterAuth, Entering
  <2>2. CASE r.cred \in {"none", "scheme", "malformed"} \/ ~HasVerificationKey
    <3>1. req' = [req EXCEPT ![q] = Refuse(r)]
      BY <1>4, <2>2 DEF EnterAuth
    <3>2. RequestOK(q, Refuse(r))
      BY <1>1, <2>1, RefuseKeeps
    <3> QED  BY <3>1, <3>2
  <2>3. CASE ~(r.cred \in {"none", "scheme", "malformed"} \/ ~HasVerificationKey)
    <3> DEFINE s == [r EXCEPT !.pc = "key"]
    <3>1. req' = [req EXCEPT ![q] = s]
      BY <1>4, <2>3 DEF EnterAuth
    <3>2. s.pc = "key" /\ s = [r EXCEPT !.pc = s.pc]
      BY <1>1 DEF RequestFields
    <3> HIDE DEF s, r
    <3>3. RequestOK(q, s)
      BY <1>1, <1>3, <2>1, <2>3, <3>2, VerifyKeeps DEF Verifying
    <3> QED  BY <3>1, <3>3
  <2> QED  BY <2>2, <2>3
<1>5. CASE LoadKey(q)
  <2>1. r.pc = "key" /\ r.pc \in Verifying
    BY <1>5 DEF LoadKey, Verifying
  <2>2. CASE req' = [req EXCEPT ![q] = Refuse(r)]
    <3>1. RequestOK(q, Refuse(r))
      BY <1>1, <2>1, RefuseKeeps
    <3> QED  BY <2>2, <3>1
  <2>3. CASE req' = [req EXCEPT ![q].pc = "verify"]
    <3> DEFINE s == [r EXCEPT !.pc = "verify"]
    <3>1. req' = [req EXCEPT ![q] = s]
      BY <2>3
    <3>2. s.pc = "verify" /\ s = [r EXCEPT !.pc = s.pc]
      BY <1>1 DEF RequestFields
    <3> HIDE DEF s, r
    <3>3. RequestOK(q, s)
      BY <1>1, <1>2, <1>3, <2>1, <3>2, VerifyKeeps DEF Verifying
    <3> QED  BY <3>1, <3>3
  <2> QED  BY <1>5, <2>2, <2>3 DEF LoadKey
<1>6. CASE CheckSignature(q)
  <2>1. r.pc = "verify" /\ r.pc \in Verifying
    BY <1>6 DEF CheckSignature, Verifying
  <2>2. CASE r.cred = "forged"
    <3>1. RequestOK(q, Refuse(r))
      BY <1>1, <2>1, RefuseKeeps
    <3>2. req' = [req EXCEPT ![q] = Refuse(r)]
      BY <1>6, <2>2 DEF CheckSignature
    <3> QED  BY <3>1, <3>2
  <2>3. CASE r.cred # "forged"
    <3> DEFINE s == [r EXCEPT !.pc = "validate"]
    <3>1. req' = [req EXCEPT ![q] = s]
      BY <1>6, <2>3 DEF CheckSignature
    <3>2. s.pc = "validate" /\ s = [r EXCEPT !.pc = s.pc]
      BY <1>1 DEF RequestFields
    <3> HIDE DEF s, r
    <3>3. RequestOK(q, s)
      BY <1>1, <1>2, <1>3, <2>1, <2>3, <3>2, VerifyKeeps DEF Verifying
    <3> QED  BY <3>1, <3>3
  <2> QED  BY <2>2, <2>3
<1>7. CASE Authenticate(q)
  <2>1. r.pc = "validate" /\ r.pc \in Verifying
    BY <1>7 DEF Authenticate, Verifying
  <2>2. CASE r.cred = "rejected"
    <3>1. RequestOK(q, Refuse(r))
      BY <1>1, <2>1, RefuseKeeps
    <3>2. req' = [req EXCEPT ![q] = Refuse(r)]
      BY <1>7, <2>2 DEF Authenticate
    <3> QED  BY <3>1, <3>2
  <2>3. CASE r.cred # "rejected"
    <3> DEFINE s == [r EXCEPT !.claims = q, !.pc = "enter", !.todo = Tail(r.todo)]
    <3>1. req' = [[req EXCEPT ![q].claims = q] EXCEPT ![q].pc = "enter", ![q].todo = Tail(@)]
      BY <1>7, <2>3 DEF Authenticate, SetClaims
    <3>2. req' = [req EXCEPT ![q] = s]
      BY <1>1, <3>1 DEF RequestFields
    <3>3. /\ SameRequest(r, s) /\ s.pc = "enter" /\ s.todo = Tail(r.todo) /\ s.passed = r.passed
          /\ s.route = r.route /\ s.claims = q /\ s.ran = r.ran /\ s.lines = r.lines
      BY <1>1 DEF SameRequest, RequestFields
    <3> HIDE DEF s, r
    <3>4. RequestOK(q, s)
      BY <1>1, <2>1, <2>3, <3>3, AuthenticateKeeps
    <3> QED  BY <3>2, <3>4
  <2> QED  BY <2>2, <2>3
<1> QED  BY <1>4, <1>5, <1>6, <1>7

(* The route, and the handler at its end.                                  *)
LEMMA HandlerSteps ==
  ASSUME ServicesInv, NEW q \in Requests, Route(q) \/ Run(q)
  PROVE  \E s : req' = [req EXCEPT ![q] = s] /\ RequestOK(q, s)
<1> DEFINE r == req[q]
<1>1. /\ RequestOK(q, r) /\ DOMAIN r = RequestFields /\ TablesOK
  BY DEF ServicesInv, RequestOK, ShapeOK
<1>2. r.pc = "enter" /\ r.todo = << >> /\ r.todo # GrpcChain
  BY TelemetryFirst DEF Route, Run
<1>3. ~r.ran
  BY <1>1, <1>2 DEF RequestOK, ShapeOK, Inward
<1>4. CASE Route(q)
  <2> DEFINE route == RouteOf(r.method, r.path)
  <2>1. CASE route = Nothing
    <3> DEFINE s == Return(r, "404")
    <3>1. req' = [req EXCEPT ![q] = s]
      BY <1>4, <2>1 DEF Route
    <3>2. /\ SameRequest(r, s) /\ s.pc = "leave" /\ s.out \in Outs
          /\ s.todo = r.todo /\ s.passed = r.passed /\ s.route = r.route /\ s.claims = r.claims
          /\ s.lines = r.lines /\ s.ran = r.ran
      BY <1>1 DEF Return, SameRequest, RequestFields, Outs
    <3> HIDE DEF s, r
    <3>3. RequestOK(q, s)
      BY <1>1, <1>2, <1>3, <3>2, ReturnKeeps
    <3> QED  BY <3>1, <3>3
  <2>2. CASE route # Nothing
    <3> DEFINE s == [r EXCEPT !.route = route, !.todo = route.chain]
    <3>0. route \in Registered
      BY <1>1, <2>2, RouteIsRegistered
    <3>1. req' = [req EXCEPT ![q] = s]
      BY <1>4, <2>2 DEF Route
    <3> HIDE DEF route
    <3>2. /\ SameRequest(r, s) /\ s.pc = r.pc
          /\ s.todo = route.chain /\ s.passed = r.passed /\ s.route = route /\ s.claims = r.claims
          /\ s.lines = r.lines /\ s.ran = r.ran
      BY <1>1 DEF SameRequest, RequestFields
    <3> HIDE DEF s, r
    <3>3. RequestOK(q, s)
      BY <1>1, <1>2, <3>0, <3>2, RouteKeeps
    <3> QED  BY <3>1, <3>3
  <2> QED  BY <2>1, <2>2
<1>5. CASE Run(q)
  <2>1. PICK out \in {"200", "thrown", "coded", "notFound"}, skip \in {FALSE, r.context} :
          req' = [req EXCEPT ![q] =
            [Return(r, out) EXCEPT !.ran = TRUE, !.saw = r.claims, !.skip = skip]]
    BY <1>5 DEF Run
  <2> DEFINE s == [Return(r, out) EXCEPT !.ran = TRUE, !.saw = r.claims, !.skip = skip]
  <2>2. /\ SameRequest(r, s) /\ s.pc = "leave" /\ s.out \in Outs
        /\ s.todo = r.todo /\ s.passed = r.passed /\ s.route = r.route /\ s.claims = r.claims
        /\ s.lines = r.lines /\ s.saw = r.claims
    BY <1>1 DEF Return, SameRequest, RequestFields, Outs
  <2>3. r.route # Nothing /\ req' = [req EXCEPT ![q] = s]
    BY <1>5, <2>1 DEF Run
  <2> HIDE DEF s, r
  <2>4. RequestOK(q, s)
    BY <1>1, <1>2, <2>2, <2>3, ReturnKeeps
  <2> QED  BY <2>3, <2>4
<1> QED  BY <1>4, <1>5


(* What one call of a logger does to a request.                            *)
LEMMA EmitIs ==
  ASSUME NEW r, DOMAIN r = RequestFields, NEW out, NEW e
  PROVE  /\ DOMAIN Emit(r, out, e) = RequestFields
         /\ \A f \in RequestFields \ {"out", "lines"} : Emit(r, out, e)[f] = r[f]
         /\ Emit(r, out, e).out = IF e.throws THEN "thrown" ELSE r.out
         /\ Emit(r, out, e).lines \in
              {r.lines, Append(r.lines, <<"logger" \notin ToSet(Front(r.passed)), out, e.throws>>)}
BY DEF Emit, Line, RequestFields

\* The lines a logger may write of a request that ends with out.
Fit(r, out) ==
  {l \in Lines : (l[1] <=> "logger" \notin ToSet(Front(r.passed))) /\ Says(l, out)}

(* A request with one line more.                                           *)
LEMMA OneLineAdded ==
  ASSUME NEW r, NEW s, r.lines \in Seq(Lines), NEW a \in Fit(r, s.out),
         s.lines \in {r.lines, Append(r.lines, a)}
  PROVE  Added(r, s)
<1> DEFINE p == r.lines
           n == Len(p)
           pa == Append(p, a)
<1>1. p \in Seq(Lines) /\ n \in Nat /\ DOMAIN p = 1..n /\ a \in Lines
  BY LenProperties DEF Fit
<1>2. /\ pa \in Seq(Lines) /\ Len(pa) = n + 1 /\ pa[n + 1] = a /\ \A i \in 1..n : pa[i] = p[i]
  BY <1>1, AppendProperties
<1> HIDE DEF p, n, pa
<1>3. DOMAIN pa = 1 .. n + 1
  BY <1>2, LenProperties
<1>4. (a[1] <=> "logger" \notin ToSet(Front(r.passed))) /\ Says(a, s.out)
  BY DEF Fit
<1>5. /\ \A i \in 1 .. n + 1 : i \notin 1..n => i = n + 1
      /\ \A i \in 1..n : i \in 1 .. n + 1
      /\ \A j \in 1 .. n + 1 : ~(n + 1 < j)
  BY <1>1
<1>6. CASE s.lines = p
  BY <1>1, <1>6 DEF Added, p
<1>7. CASE s.lines = pa
  BY <1>1, <1>2, <1>3, <1>4, <1>5, <1>7 DEF Added, p
<1> QED  BY <1>6, <1>7 DEF p, pa

(* A request with two lines more, of which the first was torn.             *)
LEMMA TwoLinesAdded ==
  ASSUME NEW r, NEW s, r.lines \in Seq(Lines), NEW a \in Fit(r, s.out), NEW b \in Fit(r, s.out), b[3],
         s.lines = Append(Append(r.lines, b), a)
  PROVE  Added(r, s)
<1> DEFINE p == r.lines
           n == Len(p)
           pb == Append(p, b)
           pab == Append(pb, a)
<1>1. p \in Seq(Lines) /\ n \in Nat /\ DOMAIN p = 1..n /\ a \in Lines /\ b \in Lines
  BY LenProperties DEF Fit
<1>2. /\ pb \in Seq(Lines) /\ Len(pb) = n + 1 /\ pb[n + 1] = b /\ \A i \in 1..n : pb[i] = p[i]
  BY <1>1, AppendProperties
<1> HIDE DEF p, n, pb
<1>3. /\ pab \in Seq(Lines) /\ Len(pab) = Len(pb) + 1 /\ pab[Len(pb) + 1] = a
      /\ \A i \in 1..Len(pb) : pab[i] = pb[i]
  BY <1>1, <1>2, AppendProperties
<1> HIDE DEF pab
<1>4. /\ Len(pb) + 1 = n + 2 /\ n + 1 \in 1..Len(pb) /\ \A i \in 1..n : i \in 1..Len(pb)
      /\ \A i \in 1..n : i \in 1 .. n + 2
      /\ \A i \in 1 .. n + 2 : i \notin 1..n => i \in {n + 1, n + 2}
      /\ \A j \in 1 .. n + 2 : ~(n + 2 < j)
  BY <1>1, <1>2
<1>5. /\ DOMAIN pab = 1 .. n + 2 /\ pab[n + 2] = a /\ pab[n + 1] = b
      /\ \A i \in 1..n : pab[i] = p[i]
  BY <1>2, <1>3, <1>4, LenProperties
<1>6. \A x \in {a, b} : (x[1] <=> "logger" \notin ToSet(Front(r.passed))) /\ Says(x, s.out)
  BY DEF Fit
<1>7. s.lines = pab
  BY DEF p, pb, pab
<1> QED  BY <1>1, <1>3, <1>4, <1>5, <1>6, <1>7 DEF Added, p

(* What a logger may do to a request on its way out.                       *)
LEMMA LoggerOutcome ==
  ASSUME NEW r, DOMAIN r = RequestFields, r.out \in Outs, r.lines \in Seq(Lines),
         NEW x \in LoggerOutcomes(r)
  PROVE  /\ DOMAIN x = RequestFields /\ x.out \in Outs
         /\ \A f \in RequestFields \ {"out", "lines"} : x[f] = r[f]
         /\ Added(r, x)
<1> DEFINE o == "logger" \notin ToSet(Front(r.passed))
<1>1. \/ x = r
      \/ Thrown(r.out) /\ x \in Caught(r)
      \/ \E e \in Emissions : ~Thrown(r.out) /\ ~e.throws /\ x = Emit(r, r.out, e)
      \/ \E e \in Emissions : ~Thrown(r.out) /\ e.throws /\ x \in Caught(Emit(r, r.out, e))
  BY DEF LoggerOutcomes
<1>2. \A torn \in BOOLEAN, out \in Outs \cup {"error"} :
        /\ <<o, out, torn>> \in Lines
        /\ <<o, out, torn>>[1] = o /\ <<o, out, torn>>[2] = out /\ <<o, out, torn>>[3] = torn
  <2>1. o \in BOOLEAN
    OBVIOUS
  <2> QED  BY <2>1 DEF Lines
<1>3. Thrown("thrown") /\ "thrown" \in Outs
  BY DEF Thrown, Outs
<1>4. CASE x = r
  BY <1>4 DEF Added
<1>5. CASE Thrown(r.out) /\ x \in Caught(r)
  <2>1. PICK e \in Emissions : x = Emit(r, "error", e)
    BY <1>5 DEF Caught
  <2> DEFINE a == <<o, "error", e.throws>>
  <2>2. /\ DOMAIN x = RequestFields
        /\ \A f \in RequestFields \ {"out", "lines"} : x[f] = r[f]
        /\ x.out = IF e.throws THEN "thrown" ELSE r.out
        /\ x.lines \in {r.lines, Append(r.lines, a)}
    <3> HIDE DEF o
    <3> QED  BY <2>1, EmitIs DEF o
  <2>3. x.out \in Outs /\ Thrown(x.out) /\ e.throws \in BOOLEAN
    BY <1>3, <1>5, <2>2 DEF Emissions
  <2>4. a \in Fit(r, x.out)
    BY <1>2, <2>3 DEF Fit, Says
  <2> HIDE DEF a
  <2>5. Added(r, x)
    BY <2>2, <2>4, OneLineAdded
  <2> QED  BY <2>2, <2>3, <2>5
<1>6. ASSUME NEW e \in Emissions, ~Thrown(r.out), ~e.throws, x = Emit(r, r.out, e)
      PROVE  /\ DOMAIN x = RequestFields /\ x.out \in Outs
             /\ \A f \in RequestFields \ {"out", "lines"} : x[f] = r[f]
             /\ Added(r, x)
  <2> DEFINE a == <<o, r.out, e.throws>>
  <2>1. e.throws = FALSE
    BY <1>6 DEF Emissions
  <2>2. /\ DOMAIN x = RequestFields
        /\ \A f \in RequestFields \ {"out", "lines"} : x[f] = r[f]
        /\ x.out = IF e.throws THEN "thrown" ELSE r.out
        /\ x.lines \in {r.lines, Append(r.lines, a)}
    BY <1>6, EmitIs
  <2>3. a \in Fit(r, x.out)
    BY <1>2, <1>6, <2>1, <2>2 DEF Fit, Says
  <2> HIDE DEF a
  <2>4. Added(r, x)
    BY <2>2, <2>3, OneLineAdded
  <2> QED  BY <2>1, <2>2, <2>4
<1>7. ASSUME NEW e \in Emissions, ~Thrown(r.out), e.throws, x \in Caught(Emit(r, r.out, e))
      PROVE  /\ DOMAIN x = RequestFields /\ x.out \in Outs
             /\ \A f \in RequestFields \ {"out", "lines"} : x[f] = r[f]
             /\ Added(r, x)
  <2> DEFINE y == Emit(r, r.out, e)
             b == <<o, r.out, e.throws>>
  <2>1. e.throws = TRUE
    BY <1>7 DEF Emissions
  <2>2. /\ DOMAIN y = RequestFields
        /\ \A f \in RequestFields \ {"out", "lines"} : y[f] = r[f]
        /\ y.out = IF e.throws THEN "thrown" ELSE r.out
        /\ y.lines \in {r.lines, Append(r.lines, b)}
    BY EmitIs
  <2>3. PICK d \in Emissions : x = Emit(y, "error", d)
    BY <1>7 DEF Caught
  <2> HIDE DEF y
  <2> DEFINE a == <<o, "error", d.throws>>
  <2>4. y.passed = r.passed
    BY <2>2 DEF RequestFields
  <2>5. /\ DOMAIN x = RequestFields
        /\ \A f \in RequestFields \ {"out", "lines"} : x[f] = y[f]
        /\ x.out = IF d.throws THEN "thrown" ELSE y.out
        /\ x.lines \in {y.lines, Append(y.lines, <<"logger" \notin ToSet(Front(y.passed)), "error", d.throws>>)}
    BY <2>2, <2>3, EmitIs
  <2>6. x.out = "thrown" /\ x.lines \in {y.lines, Append(y.lines, a)}
    BY <2>1, <2>2, <2>4, <2>5
  <2>7. a \in Fit(r, x.out) /\ b \in Fit(r, x.out) /\ b[3]
    <3>1. d.throws \in BOOLEAN
      BY DEF Emissions
    <3> QED  BY <1>2, <1>3, <2>1, <2>6, <3>1 DEF Fit, Says
  <2> HIDE DEF a, b
  <2>8. Added(r, x)
    BY <2>2, <2>6, <2>7, OneLineAdded, TwoLinesAdded
  <2> QED  BY <1>3, <2>2, <2>5, <2>6, <2>8
<1> QED  BY <1>1, <1>4, <1>5, <1>6, <1>7

(* The way out.                                                            *)
LEMMA LeaveSteps ==
  ASSUME ServicesInv, NEW q \in Requests,
         LeaveResponse(q) \/ LeaveLogger(q) \/ LeaveTelemetry(q) \/ Answer(q)
  PROVE  \E s : req' = [req EXCEPT ![q] = s] /\ RequestOK(q, s)
<1> DEFINE r == req[q]
<1>1. RequestOK(q, r) /\ DOMAIN r = RequestFields
  BY DEF ServicesInv, RequestOK, ShapeOK
<1>2. r.pc = "leave" /\ r.out \in Outs
  BY <1>1 DEF LeaveResponse, LeaveLogger, LeaveTelemetry, Answer, Leaving, RequestOK, ShapeOK, Outward
<1>3. CASE LeaveResponse(q)
  <2> DEFINE s == Pop(r)
  <2>1. r.passed # << >> /\ Last(r.passed) \in {"context", "headers"} /\ req' = [req EXCEPT ![q] = s]
    BY <1>3 DEF LeaveResponse, Leaving
  <2>2. /\ SameRequest(r, s) /\ s.pc = r.pc /\ s.out = r.out /\ s.todo = r.todo
        /\ s.passed = Front(r.passed) /\ s.route = r.route /\ s.claims = r.claims
        /\ s.ran = r.ran /\ s.saw = r.saw /\ s.lines = r.lines
    BY <1>1 DEF Pop, SameRequest, RequestFields
  <2> HIDE DEF s, r
  <2>3. RequestOK(q, s)
    BY <1>1, <1>2, <2>1, <2>2, PopKeeps
  <2> QED  BY <2>1, <2>3
<1>4. CASE LeaveLogger(q)
  <2>1. PICK x \in LoggerOutcomes(r) : req' = [req EXCEPT ![q] = Pop(x)]
    BY <1>4 DEF LeaveLogger
  <2> DEFINE s == Pop(x)
  <2>2. r.passed # << >> /\ Last(r.passed) = "logger" /\ req' = [req EXCEPT ![q] = s]
    BY <1>4, <2>1 DEF LeaveLogger, Leaving
  <2> HIDE DEF r
  <2>3. /\ DOMAIN x = RequestFields /\ x.out \in Outs
        /\ \A f \in RequestFields \ {"out", "lines"} : x[f] = r[f]
        /\ Added(r, x)
    BY <1>1, <1>2, LoggerOutcome DEF RequestOK, ShapeOK
  <2>4. /\ DOMAIN s = RequestFields /\ s.passed = Front(x.passed)
        /\ \A f \in RequestFields \ {"passed"} : s[f] = x[f]
    BY <2>3 DEF Pop, RequestFields
  <2> HIDE DEF s
  <2>5. /\ SameRequest(r, s) /\ s.pc = r.pc /\ s.out = x.out /\ s.todo = r.todo
        /\ s.passed = Front(r.passed) /\ s.route = r.route /\ s.claims = r.claims
        /\ s.ran = r.ran /\ s.saw = r.saw /\ s.lines = x.lines
    BY <2>3, <2>4 DEF SameRequest, RequestFields
  <2>6. Added(r, s)
    BY <2>3, <2>5 DEF Added
  <2>7. s.out \in Outs
    BY <2>3, <2>5
  <2>8. RequestOK(q, s)
    BY <1>1, <1>2, <2>2, <2>5, <2>6, <2>7, PopKeeps
  <2> QED  BY <2>2, <2>8
<1>5. CASE LeaveTelemetry(q)
  <2> DEFINE s == Pop(EndSpan(r))
  <2>1. r.passed # << >> /\ Last(r.passed) = "telemetry" /\ req' = [req EXCEPT ![q] = s]
    BY <1>5 DEF LeaveTelemetry, Leaving
  <2>2. /\ SameRequest(r, s) /\ s.pc = r.pc /\ s.out = r.out /\ s.todo = r.todo
        /\ s.passed = Front(r.passed) /\ s.route = r.route /\ s.claims = r.claims
        /\ s.ran = r.ran /\ s.saw = r.saw /\ s.lines = r.lines
        /\ s.span = SpanCode(s.out)
    BY <1>1 DEF Pop, EndSpan, SpanCode, SameRequest, RequestFields
  <2> HIDE DEF s, r
  <2>3. RequestOK(q, s)
    BY <1>1, <1>2, <2>1, <2>2, PopKeeps
  <2> QED  BY <2>1, <2>3
<1>6. CASE Answer(q)
  <2> DEFINE s == [r EXCEPT !.pc = "answered", !.answer = ToAnswer(r)]
  <2>1. req' = [req EXCEPT ![q] = s] /\ r.passed = << >>
    BY <1>6 DEF Answer
  <2>2. RequestOK(q, s)
    BY <1>1, <1>2, <2>1, AnswerKeeps
  <2> QED  BY <2>1, <2>2
<1> QED  BY <1>3, <1>4, <1>5, <1>6

(* Every step of the servers keeps their invariant.                        *)
LEMMA ServicesStep == ServicesInv /\ [ServicesNext]_serviceVars => ServicesInv'
<1> SUFFICES ASSUME ServicesInv, [ServicesNext]_serviceVars PROVE ServicesInv'
  OBVIOUS
<1>1. TablesOK'
  BY TablesStep DEF ServicesInv
<1>2. ASSUME UNCHANGED req PROVE ServicesInv'
  BY <1>1, <1>2 DEF ServicesInv
<1>3. ASSUME NEW q \in Requests, NEW s, req' = [req EXCEPT ![q] = s], RequestOK(q, s)
      PROVE  ServicesInv'
  <2>1. DOMAIN req' = Requests /\ req'[q] = s /\ \A p \in Requests \ {q} : req'[p] = req[p]
    BY <1>3 DEF ServicesInv
  <2>2. \A p \in Requests : RequestOK(p, req'[p])
    BY <1>3, <2>1 DEF ServicesInv
  <2> QED  BY <1>1, <2>1, <2>2 DEF ServicesInv
<1>4. CASE Use \/ Register \/ Listen \/ Shutdown
  BY <1>2, <1>4 DEF Use, Register, Listen, Shutdown
<1>5. ASSUME NEW q \in Requests, Arrive(q) PROVE ServicesInv'
  <2>1. PICK input \in Inputs :
          req' = [req EXCEPT ![q] =
            [Fresh EXCEPT !.pc = "enter", !.kind = input.kind,
               !.method = input.method, !.path = input.path, !.cred = input.cred,
               !.todo = IF input.kind = "http" THEN root ELSE GrpcChain,
               !.route = IF input.kind = "http" THEN Nothing
                         ELSE [name |-> "rpc", chain |-> << >>]]]
    BY <1>5 DEF Arrive
  <2> DEFINE chain == IF input.kind = "http" THEN root ELSE GrpcChain
             route == IF input.kind = "http" THEN Nothing ELSE [name |-> "rpc", chain |-> << >>]
             s == [Fresh EXCEPT !.pc = "enter", !.kind = input.kind,
                     !.method = input.method, !.path = input.path, !.cred = input.cred,
                     !.todo = chain, !.route = route]
  <2>2. req' = [req EXCEPT ![q] = s]
    BY <2>1
  <2>3. /\ input.kind = "http" => route = Nothing
        /\ input.kind # "http" => route.name = "rpc"
    OBVIOUS
  <2>4. /\ input.kind = "http" => chain = root
        /\ input.kind # "http" => chain = GrpcChain
    OBVIOUS
  <2> HIDE DEF chain, route
  <2>5. /\ DOMAIN s = RequestFields /\ s.pc = "enter" /\ s.kind = input.kind /\ s.cred = input.cred
        /\ s.todo = chain /\ s.route = route
        /\ s.passed = << >> /\ s.claims = Nothing /\ s.ran = FALSE /\ s.lines = << >>
    BY DEF Fresh, RequestFields
  <2> HIDE DEF s
  <2>6. root \in Seq(Middleware)
    BY <1>5 DEF Arrive, ServicesInv, TablesOK
  <2>7. Nothing # q /\ input.cred \in Credentials
    BY ServicesAssumption
  <2>8. RequestOK(q, s)
    BY <2>3, <2>4, <2>5, <2>6, <2>7, ArriveKeeps
  <2> QED  BY <1>3, <2>2, <2>8
<1>6. ASSUME NEW q \in Requests, Step(q) PROVE ServicesInv'
  <2>1. \E s : req' = [req EXCEPT ![q] = s] /\ RequestOK(q, s)
    BY <1>6, EnterSteps, AuthSteps, HandlerSteps, LeaveSteps DEF Step
  <2> QED  BY <1>3, <2>1
<1>7. CASE UNCHANGED serviceVars
  BY <1>2, <1>7 DEF serviceVars
<1> QED  BY <1>4, <1>5, <1>6, <1>7 DEF ServicesNext

LEMMA ServicesStart == ServicesInit => ServicesInv
<1> SUFFICES ASSUME ServicesInit PROVE ServicesInv
  OBVIOUS
<1>1. TablesOK
  <2> DEFINE h == Handle(Health)
  <2>1. h \in Registered /\ routes = <<h>>
    BY DEF Registered, ServicesInit
  <2> HIDE DEF h
  <2>2. routes \in Seq(Registered) /\ routes # << >>
    BY <2>1
  <2> QED  BY <2>2, EmptySeq DEF ServicesInit, TablesOK
<1>2. ASSUME NEW q \in Requests PROVE RequestOK(q, Fresh)
  <2>1. Nothing # q
    BY ServicesAssumption
  <2> DEFINE s == Fresh
  <2>2. /\ DOMAIN s = RequestFields /\ s.pc = "new" /\ s.kind = "http" /\ s.todo = << >>
        /\ s.route = Nothing
        /\ s.passed = << >> /\ s.claims = Nothing /\ s.ran = FALSE /\ s.lines = << >>
    BY DEF Fresh, RequestFields
  <2> HIDE DEF s
  <2>3. ShapeOK(s)
    <3>1. /\ s.passed \in Seq(Wrappers) /\ s.lines \in Seq(Lines)
          /\ s.todo \in Seq(Middleware)
      BY <2>2, EmptySeq
    <3> QED  BY <2>2, <3>1 DEF ShapeOK, Inward, Verifying, Outward
  <2>4. ClaimsOK(q, s) /\ ToldOK(s)
    BY <2>1, <2>2 DEF ClaimsOK, ToldOK, Inward, Verifying, Outward
  <2> QED  BY <2>3, <2>4 DEF RequestOK, s
<1> QED  BY <1>1, <1>2 DEF ServicesInit, ServicesInv

(* No handler behind authentication runs without its own request's claims, *)
(* however deeply its group is nested, for any table of routes and any     *)
(* number of requests in flight.                                           *)
THEOREM OwnClaims == ServicesSpec => []RunsWithItsOwnClaims
<1>1. ServicesInv => RunsWithItsOwnClaims
  BY DEF ServicesInv, RequestOK, ClaimsOK, SawOK, RunsWithItsOwnClaims
<1> QED  BY <1>1, ServicesStart, ServicesStep, PTL DEF ServicesSpec

(* The log, the span and the client agree on how every request ended, for  *)
(* any chain of middleware and whatever the loggers do.  Excepted, as the  *)
(* property says, are the lines after which a logger threw, and the span   *)
(* of a call that failed with an error that is no GrpcError.               *)
THEOREM AllToldAlike == ServicesSpec => []ToldAlike
<1>1. ServicesInv => ToldAlike
  <2> SUFFICES ASSUME ServicesInv, NEW q \in Requests, req[q].pc = "answered"
               PROVE  LET r == req[q]
                          outermost == {i \in DOMAIN r.lines : r.lines[i][1]}
                          torn(i) == r.lines[i][3]
                          failed == r.answer \in {"500", "internal"} \cup GrpcErrors
                      IN  /\ \A i, j \in outermost : i < j => torn(i)
                          /\ \A i \in outermost :
                               IF torn(i) THEN failed
                               ELSE r.lines[i][2] = (IF failed THEN "error" ELSE r.answer)
                          /\ r.kind = "grpc" =>
                               IF r.answer = "internal" THEN r.span \in {"unknown", "coded"}
                               ELSE r.span = (IF failed THEN r.answer ELSE "ok")
    BY DEF ToldAlike
  <2> DEFINE r == req[q]
             failed == r.answer \in {"500", "internal"} \cup GrpcErrors
  <2>1. ShapeOK(r) /\ ToldOK(r)
    BY DEF ServicesInv, RequestOK
  <2>2. r.out \in Outs /\ r.passed = << >> /\ LinesOK(r) /\ r.answer = ToAnswer(r)
    BY <2>1 DEF ShapeOK, ToldOK, Outward
  <2>3. "logger" \notin ToSet(r.passed)
    BY <2>2 DEF ToSet
  <2>4. (failed <=> Thrown(r.out)) /\ (~failed => r.answer = r.out)
    BY <2>2 DEF ToAnswer, Thrown, GrpcErrors, Outs
  <2>5. /\ \A i, j \in DOMAIN r.lines : r.lines[i][1] /\ r.lines[j][1] /\ i < j => r.lines[i][3]
        /\ \A i \in DOMAIN r.lines : r.lines[i][1] => Says(r.lines[i], r.out)
    BY <2>2, <2>3 DEF LinesOK
  <2>6. r.kind = "grpc" => r.span = SpanCode(r.out)
    BY <2>1 DEF ToldOK, SpanOK
  <2>7. ASSUME r.kind = "grpc"
        PROVE  IF r.answer = "internal" THEN r.span \in {"unknown", "coded"}
               ELSE r.span = (IF failed THEN r.answer ELSE "ok")
    <3>1. r.answer = IF r.out \in {"thrown", "coded"} THEN "internal" ELSE r.out
      BY <2>2, <2>7 DEF ToAnswer
    <3> QED  BY <2>2, <2>6, <2>7, <3>1 DEF SpanCode, Thrown, GrpcErrors, Outs
  <2> HIDE DEF failed
  <2>8. \A i \in DOMAIN r.lines : r.lines[i][1] =>
          IF r.lines[i][3] THEN failed
          ELSE r.lines[i][2] = (IF failed THEN "error" ELSE r.answer)
    BY <2>4, <2>5 DEF Says
  <2> QED  BY <2>5, <2>7, <2>8 DEF failed
<1> QED  BY <1>1, ServicesStart, ServicesStep, PTL DEF ServicesSpec

-----------------------------------------------------------------------------
(* The logger: paths.                                                      *)

Path == Seq(Words)

(* What is above a path is what is above its parent, and the parent.       *)
LEMMA AbovePath ==
  ASSUME NEW p \in Path
  PROVE  /\ \A q \in Above(p) : q \in Path /\ Len(q) < Len(p) /\ Above(q) \subseteq Above(p)
         /\ p = << >> => Above(p) = {}
         /\ p # << >> => /\ Front(p) \in Path /\ Last(p) \in Words
                         /\ Len(Front(p)) = Len(p) - 1
                         /\ Above(p) = Above(Front(p)) \cup {Front(p)}
                         /\ << >> \in Above(p)
         /\ Prefixes(p) = Above(p) \cup {p}
<1>1. Len(p) \in Nat /\ DOMAIN p = 1 .. Len(p) /\ \A i \in 1 .. Len(p) : p[i] \in Words
  BY LenProperties, ElementOfSeq DEF Path
<1>2. ASSUME NEW l \in 0 .. Len(p)
      PROVE  /\ SubSeq(p, 1, l) \in Path /\ Len(SubSeq(p, 1, l)) = l
             /\ \A i \in 1 .. l : SubSeq(p, 1, l)[i] = p[i]
  <2>1. l \in Int /\ 1 \in Int /\ \A i \in 1 .. l : p[i] \in Words
    BY <1>1
  <2>2. /\ SubSeq(p, 1, l) \in Seq(Words)
        /\ Len(SubSeq(p, 1, l)) = (IF 1 <= l THEN l - 1 + 1 ELSE 0)
        /\ \A i \in 1 .. (l - 1 + 1) : SubSeq(p, 1, l)[i] = p[1 + i - 1]
    BY <2>1, SubSeqProperties
  <2> QED  BY <1>1, <2>2 DEF Path
<1>3. SubSeq(p, 1, Len(p)) = p
  BY SubSeqFull DEF Path
<1>4. Prefixes(p) = Above(p) \cup {p}
  <2>1. Len(p) \in 0 .. Len(p)
    BY <1>1
  <2> QED  BY <1>3, <2>1 DEF Above, Prefixes
<1>5. Above(p) = {SubSeq(p, 1, l) : l \in 0 .. (Len(p) - 1)}
  <2>1. 0 .. Len(p) = (0 .. (Len(p) - 1)) \cup {Len(p)}
    BY <1>1
  <2>2. \A l \in 0 .. (Len(p) - 1) : SubSeq(p, 1, l) # p
    <3> TAKE l \in 0 .. (Len(p) - 1)
    <3>1. l \in 0 .. Len(p) /\ l < Len(p)
      BY <1>1
    <3>2. Len(SubSeq(p, 1, l)) = l
      BY <1>2, <3>1
    <3>3. ASSUME NEW q, q = p, Len(q) = l PROVE FALSE
      BY <1>1, <3>1, <3>3
    <3> QED  BY <3>2, <3>3
  <2> QED  BY <1>3, <2>1, <2>2 DEF Above, Prefixes
<1>6. ASSUME NEW l \in 0 .. Len(p)
      PROVE  Above(SubSeq(p, 1, l)) = {SubSeq(p, 1, n) : n \in 0 .. (l - 1)}
  <2> DEFINE q == SubSeq(p, 1, l)
  <2>1. q \in Path /\ Len(q) = l
    BY <1>2
  <2>2. ASSUME NEW n \in 0 .. l PROVE SubSeq(q, 1, n) = SubSeq(p, 1, n)
    <3>1. /\ SubSeq(p, 1, n) \in Path /\ Len(SubSeq(p, 1, n)) = n
          /\ \A i \in 1 .. n : SubSeq(p, 1, n)[i] = p[i]
      BY <1>1, <1>2
    <3>2. \A i \in 1 .. n : q[i] = p[i] /\ q[i] \in Words
      BY <1>1, <1>2
    <3>3. /\ SubSeq(q, 1, n) \in Seq(Words)
          /\ Len(SubSeq(q, 1, n)) = (IF 1 <= n THEN n - 1 + 1 ELSE 0)
          /\ \A i \in 1 .. (n - 1 + 1) : SubSeq(q, 1, n)[i] = q[1 + i - 1]
      <4> HIDE DEF q
      <4> QED  BY <3>2, SubSeqProperties
    <3>4. Len(SubSeq(q, 1, n)) = n /\ \A i \in 1 .. n : SubSeq(q, 1, n)[i] = q[i]
      <4> HIDE DEF q
      <4> QED  BY <3>3
    <3> QED
      <4> HIDE DEF q
      <4> QED  BY <3>1, <3>2, <3>3, <3>4, SeqEqual DEF Path
  <2>3. Prefixes(q) = {SubSeq(p, 1, n) : n \in 0 .. l}
    <3> HIDE DEF q
    <3> QED  BY <2>1, <2>2 DEF Prefixes
  <2>4. 0 .. l = (0 .. (l - 1)) \cup {l}
    BY <1>1
  <2>5. \A n \in 0 .. (l - 1) : SubSeq(p, 1, n) # q
    BY <1>1, <1>2
  <2> QED  BY <2>3, <2>4, <2>5 DEF Above
<1>7. ASSUME NEW q \in Above(p) PROVE q \in Path /\ Len(q) < Len(p) /\ Above(q) \subseteq Above(p)
  <2>1. PICK l \in 0 .. (Len(p) - 1) : q = SubSeq(p, 1, l)
    BY <1>5
  <2>2. l \in 0 .. Len(p) /\ l < Len(p)
    BY <1>1, <2>1
  <2>3. 0 .. (l - 1) \subseteq 0 .. (Len(p) - 1)
    BY <1>1, <2>2
  <2>4. q \in Path /\ Len(q) = l
    BY <1>2, <2>1, <2>2
  <2>5. Above(q) = {SubSeq(p, 1, n) : n \in 0 .. (l - 1)}
    BY <1>6, <2>1, <2>2
  <2>6. Above(q) \subseteq Above(p)
    BY <1>5, <2>3, <2>5
  <2> QED  BY <2>2, <2>4, <2>6
<1>8. p = << >> => Above(p) = {}
  <2>1. p = << >> => 0 .. (Len(p) - 1) = {}
    BY <1>1
  <2> QED  BY <1>5, <2>1
<1>9. ASSUME p # << >>
      PROVE  /\ Front(p) \in Path /\ Last(p) \in Words /\ Len(Front(p)) = Len(p) - 1
             /\ Above(p) = Above(Front(p)) \cup {Front(p)} /\ << >> \in Above(p)
  <2>1. Len(p) \in Nat \ {0}
    BY <1>9, EmptySeq DEF Path
  <2>2. Front(p) = SubSeq(p, 1, Len(p) - 1) /\ Len(p) - 1 \in 0 .. Len(p)
    BY <2>1 DEF Front
  <2>3. Front(p) \in Path /\ Len(Front(p)) = Len(p) - 1
    BY <1>2, <2>2
  <2>4. Last(p) \in Words
    BY <1>1, <2>1 DEF Last
  <2>5. 0 .. (Len(p) - 1) = (0 .. (Len(p) - 1 - 1)) \cup {Len(p) - 1}
    BY <2>1
  <2>6. Above(p) = Above(Front(p)) \cup {Front(p)}
    BY <1>5, <1>6, <2>2, <2>5
  <2>7. << >> \in Above(p)
    <3>1. SubSeq(p, 1, 0) = << >>
      BY SubSeqEmpty
    <3>2. 0 \in 0 .. (Len(p) - 1)
      BY <2>1
    <3> QED  BY <1>5, <3>1, <3>2
  <2> QED  BY <2>3, <2>4, <2>6, <2>7
<1> QED  BY <1>4, <1>7, <1>8, <1>9

(* The paths below a key.                                                  *)
LEMMA BelowKey ==
  ASSUME NEW k \in Words, NEW r \in Path
  PROVE  /\ <<k>> \o r \in Path /\ <<k>> \o r # << >>
         /\ Head(<<k>> \o r) = k /\ Tail(<<k>> \o r) = r
         /\ Above(<<k>> \o r) = {<< >>} \cup {<<k>> \o a : a \in Above(r)}
         /\ r = << >> => Front(<<k>> \o r) = << >> /\ Last(<<k>> \o r) = k
         /\ r # << >> => Front(<<k>> \o r) = <<k>> \o Front(r) /\ Last(<<k>> \o r) = Last(r)
<1> DEFINE p == <<k>> \o r
<1>1. <<k>> \in Path /\ Len(<<k>>) = 1 /\ <<k>>[1] = k /\ Len(r) \in Nat
  <2>1. Len(r) \in Nat
    BY LenProperties DEF Path
  <2>2. <<k>> \in Seq(Words)
    <3>1. ASSUME NEW S, NEW e \in S PROVE <<e>> \in Seq(S)
      OBVIOUS
    <3> QED  BY <3>1
  <2>3. Len(<<k>>) = 1
    OBVIOUS
  <2>4. <<k>>[1] = k
    OBVIOUS
  <2> QED  BY <2>1, <2>2, <2>3, <2>4 DEF Path
<1>2. /\ p \in Path /\ Len(p) = Len(r) + 1
      /\ p[1] = k /\ \A i \in 1 .. Len(r) : p[i + 1] = r[i]
  <2>1. /\ <<k>> \o r \in Seq(Words)
        /\ Len(<<k>> \o r) = Len(<<k>>) + Len(r)
        /\ \A i \in 1 .. (Len(<<k>>) + Len(r)) : (<<k>> \o r)[i] =
             IF i <= Len(<<k>>) THEN <<k>>[i] ELSE r[i - Len(<<k>>)]
    BY <1>1, ConcatProperties DEF Path
  <2>2. Len(p) = 1 + Len(r) /\ p[1] = k
    BY <1>1, <2>1
  <2>3. \A i \in 1 .. Len(r) : p[i + 1] = r[i]
    <3> TAKE i \in 1 .. Len(r)
    <3>1. i + 1 \in 1 .. (1 + Len(r)) /\ ~(i + 1 <= 1) /\ i + 1 - 1 = i
      BY <1>1
    <3> HIDE DEF p
    <3> QED  BY <1>1, <2>1, <3>1 DEF p
  <2>4. p \in Path
    BY <2>1 DEF Path
  <2>5. Len(p) = Len(r) + 1
    <3> HIDE DEF p
    <3> QED  BY <1>1, <2>2
  <2> HIDE DEF p
  <2> QED  BY <2>2, <2>3, <2>4, <2>5
<1> HIDE DEF p
<1>3. p # << >> /\ Head(p) = k
  <2>1. p # << >>
    BY <1>1, <1>2, EmptySeq DEF Path
  <2>2. Head(p) = p[1]
    <3>1. ASSUME NEW S, NEW s \in Seq(S), s # << >> PROVE Head(s) = s[1]
      OBVIOUS
    <3> QED  BY <1>2, <2>1, <3>1 DEF Path
  <2> QED  BY <1>2, <2>1, <2>2
<1>4. Tail(p) = r
  <2>1. /\ Tail(p) \in Seq(Words) /\ Len(Tail(p)) = Len(p) - 1
        /\ \A i \in 1 .. Len(Tail(p)) : Tail(p)[i] = p[i + 1]
    BY <1>2, <1>3, HeadTailProperties DEF Path
  <2>2. Len(Tail(p)) = Len(r) /\ \A i \in 1 .. Len(r) : Tail(p)[i] = r[i]
    BY <1>1, <1>2, <2>1
  <2> QED  BY <2>1, <2>2, SeqEqual DEF Path
<1>5. ASSUME NEW l \in 0 .. Len(r)
      PROVE  SubSeq(p, 1, l + 1) = <<k>> \o SubSeq(r, 1, l)
  <2>1. l + 1 \in 1 .. Len(p) /\ 1 \in 1 .. Len(p) /\ 1 \in 1 .. (l + 1) /\ l + 1 \in 1 .. Len(p)
    BY <1>1, <1>2
  <2>2. SubSeq(p, 1, l + 1) = <<p[1]>> \o SubSeq(p, 1 + 1, l + 1)
    BY <1>2, <2>1, SubSeqRecursiveFirst DEF Path
  <2>3. SubSeq(p, 1 + 1, l + 1) = SubSeq(r, 1, l)
    <3>1. \A i \in (1 + 1) .. (l + 1) : p[i] \in Words
      BY <1>1, <1>2, ElementOfSeq DEF Path
    <3>2. \A i \in 1 .. l : r[i] \in Words
      BY <1>1, ElementOfSeq DEF Path
    <3>3. /\ SubSeq(p, 1 + 1, l + 1) \in Seq(Words)
          /\ Len(SubSeq(p, 1 + 1, l + 1)) = (IF 1 + 1 <= l + 1 THEN l + 1 - (1 + 1) + 1 ELSE 0)
          /\ \A i \in 1 .. (l + 1 - (1 + 1) + 1) : SubSeq(p, 1 + 1, l + 1)[i] = p[1 + 1 + i - 1]
      <4>1. 1 + 1 \in Int /\ l + 1 \in Int
        OBVIOUS
      <4> QED  BY <3>1, <4>1, SubSeqProperties
    <3>4. /\ SubSeq(r, 1, l) \in Seq(Words)
          /\ Len(SubSeq(r, 1, l)) = (IF 1 <= l THEN l - 1 + 1 ELSE 0)
          /\ \A i \in 1 .. (l - 1 + 1) : SubSeq(r, 1, l)[i] = r[1 + i - 1]
      BY <3>2, SubSeqProperties
    <3>5. Len(SubSeq(p, 1 + 1, l + 1)) = l /\ Len(SubSeq(r, 1, l)) = l
      BY <3>3, <3>4
    <3>6. \A i \in 1 .. l : SubSeq(p, 1 + 1, l + 1)[i] = p[i + 1]
      BY <3>3
    <3>7. \A i \in 1 .. l : SubSeq(r, 1, l)[i] = r[i]
      BY <3>4
    <3>8. \A i \in 1 .. l : i \in 1 .. Len(r)
      BY <1>1
    <3> QED  BY <1>2, <3>3, <3>4, <3>5, <3>6, <3>7, <3>8, SeqEqual
  <2> QED  BY <1>2, <2>2, <2>3
<1>6. Prefixes(p) = {<< >>} \cup {<<k>> \o a : a \in Prefixes(r)}
  <2>1. SubSeq(p, 1, 0) = << >>
    BY SubSeqEmpty
  <2>2. 0 .. Len(p) = {0} \cup {l + 1 : l \in 0 .. Len(r)}
    <3>1. ASSUME NEW n \in 0 .. Len(p), n # 0 PROVE n \in {l + 1 : l \in 0 .. Len(r)}
      <4>1. n - 1 \in 0 .. Len(r) /\ n = (n - 1) + 1
        BY <1>1, <1>2, <3>1
      <4> QED  BY <4>1
    <3>2. \A l \in 0 .. Len(r) : l + 1 \in 0 .. Len(p)
      BY <1>1, <1>2
    <3>3. 0 \in 0 .. Len(p)
      BY <1>1, <1>2
    <3> QED  BY <3>1, <3>2, <3>3
  <2>3. {SubSeq(p, 1, n) : n \in 0 .. Len(p)}
          = {SubSeq(p, 1, 0)} \cup {SubSeq(p, 1, l + 1) : l \in 0 .. Len(r)}
    BY <2>2
  <2>4. {SubSeq(p, 1, l + 1) : l \in 0 .. Len(r)}
          = {<<k>> \o SubSeq(r, 1, l) : l \in 0 .. Len(r)}
    BY <1>5
  <2>5. {<<k>> \o SubSeq(r, 1, l) : l \in 0 .. Len(r)} = {<<k>> \o a : a \in Prefixes(r)}
    BY DEF Prefixes
  <2> QED  BY <2>1, <2>3, <2>4, <2>5 DEF Prefixes
<1>7. \A a \in Path : Head(<<k>> \o a) = k /\ (<<k>> \o a = p => a = r)
  <2> TAKE a \in Path
  <2>1. Head(<<k>> \o a) = k
    BY ConcatProperties DEF Path
  <2>2. ASSUME <<k>> \o a = <<k>> \o r PROVE a = r
    <3>1. a \in Seq(Words) /\ r \in Seq(Words) /\ <<k>> \in Seq(Words)
      BY <1>1 DEF Path
    <3> QED  BY <2>2, <3>1, ConcatSimplifications
  <2> QED  BY <2>1, <2>2 DEF p
<1>8. \A a \in Prefixes(r) : a \in Path
  BY AbovePath
<1>9. Above(p) = {<< >>} \cup {<<k>> \o a : a \in Above(r)}
  <2>1. Above(p) = ({<< >>} \cup {<<k>> \o a : a \in Prefixes(r)}) \ {p}
    BY <1>6 DEF Above
  <2>2. {<<k>> \o a : a \in Prefixes(r)} \ {p} = {<<k>> \o a : a \in Above(r)}
    BY <1>7, <1>8 DEF Above, p
  <2> QED  BY <1>3, <2>1, <2>2
<1>10. ASSUME r = << >> PROVE Front(p) = << >> /\ Last(p) = k
  <2>1. Len(p) = 1
    BY <1>2, <1>10
  <2>2. SubSeq(p, 1, 0) = << >>
    BY SubSeqEmpty
  <2>3. Front(p) = << >>
    BY <2>1, <2>2 DEF Front
  <2>4. Last(p) = k
    BY <1>2, <2>1 DEF Last
  <2> QED  BY <2>3, <2>4
<1>11. ASSUME r # << >> PROVE Front(p) = <<k>> \o Front(r) /\ Last(p) = Last(r)
  <2>1. Len(r) \in Nat \ {0}
    BY <1>11, EmptySeq DEF Path
  <2>2. Front(r) = SubSeq(r, 1, Len(r) - 1) /\ Front(p) = SubSeq(p, 1, (Len(r) - 1) + 1)
    <3>1. Len(p) - 1 = (Len(r) - 1) + 1
      BY <1>2, <2>1
    <3> QED  BY <3>1 DEF Front
  <2>3. Len(r) - 1 \in 0 .. Len(r)
    BY <2>1
  <2>4. Last(p) = Last(r)
    <3>1. Len(r) \in 1 .. Len(r)
      BY <2>1
    <3> QED  BY <1>2, <3>1 DEF Last
  <2> QED  BY <1>5, <2>2, <2>3, <2>4
<1> QED  BY <1>2, <1>3, <1>4, <1>9, <1>10, <1>11 DEF p

LEMMA AboveBelowKey ==
  ASSUME NEW k \in Words, NEW r \in Path
  PROVE  Above(<<k>> \o r) = {<< >>} \cup {<<k>> \o a : a \in Above(r)}
BY BelowKey

(* A path that is not empty is below its first key.                        *)
LEMMA PathSplit ==
  ASSUME NEW p \in Path, p # << >>
  PROVE  Head(p) \in Words /\ Tail(p) \in Path /\ p = <<Head(p)>> \o Tail(p)
<1>1. /\ Head(p) \in Words /\ Tail(p) \in Seq(Words)
      /\ Len(Tail(p)) = Len(p) - 1 /\ \A i \in 1 .. Len(Tail(p)) : Tail(p)[i] = p[i + 1]
  BY HeadTailProperties DEF Path
<1>2. Len(p) \in Nat \ {0}
  BY EmptySeq DEF Path
<1>3. Tail(p) = SubSeq(p, 2, Len(p))
  BY TailIsSubSeq DEF Path
<1>4. SubSeq(p, 1, Len(p)) = <<p[1]>> \o SubSeq(p, 1 + 1, Len(p))
  <2>1. 1 \in 1 .. Len(p) /\ Len(p) \in 1 .. Len(p)
    BY <1>2
  <2> QED  BY <2>1, SubSeqRecursiveFirst DEF Path
<1>5. SubSeq(p, 1, Len(p)) = p /\ Head(p) = p[1]
  BY SubSeqFull DEF Path
<1> QED  BY <1>1, <1>3, <1>4, <1>5 DEF Path


(* On the way from a path to one below it there is a first step.           *)
LEMMA FirstBelow ==
  ASSUME NEW p \in Path, NEW q \in Above(p)
  PROVE  \E c \in Prefixes(p) : c \in Path /\ c # << >> /\ Front(c) = q
<1>1. Len(p) \in Nat /\ \A i \in 1 .. Len(p) : p[i] \in Words
  BY LenProperties, ElementOfSeq DEF Path
<1>2. q \in Path /\ Len(q) < Len(p) /\ Prefixes(p) = Above(p) \cup {p}
  BY AbovePath
<1>3. PICK n \in 0 .. Len(p) : q = SubSeq(p, 1, n)
  BY <1>2 DEF Above, Prefixes
<1>4. ASSUME NEW m \in 0 .. Len(p)
      PROVE  /\ SubSeq(p, 1, m) \in Path /\ Len(SubSeq(p, 1, m)) = m
             /\ \A i \in 1 .. m : SubSeq(p, 1, m)[i] = p[i]
  <2>1. m \in Int /\ 1 \in Int /\ \A i \in 1 .. m : p[i] \in Words
    BY <1>1
  <2>2. /\ SubSeq(p, 1, m) \in Seq(Words)
        /\ Len(SubSeq(p, 1, m)) = (IF 1 <= m THEN m - 1 + 1 ELSE 0)
        /\ \A i \in 1 .. (m - 1 + 1) : SubSeq(p, 1, m)[i] = p[1 + i - 1]
    BY <2>1, SubSeqProperties
  <2> QED  BY <1>1, <2>2 DEF Path
<1>5. Len(q) = n /\ n < Len(p)
  BY <1>2, <1>3, <1>4
<1> DEFINE c == SubSeq(p, 1, n + 1)
<1>6. n + 1 \in 0 .. Len(p) /\ n \in 0 .. n + 1
  BY <1>1, <1>5
<1>7. /\ c \in Path /\ Len(c) = n + 1 /\ c \in Prefixes(p)
      /\ \A i \in 1 .. n + 1 : c[i] = p[i] /\ c[i] \in Words
  <2>1. \A i \in 1 .. n + 1 : i \in 1 .. Len(p)
    BY <1>1, <1>6
  <2> QED  BY <1>1, <1>4, <1>6, <2>1 DEF Prefixes
<1> HIDE DEF c
<1>8. Front(c) = SubSeq(c, 1, n)
  <2>1. Len(c) - 1 = n
    BY <1>3, <1>7
  <2> QED  BY <2>1 DEF Front
<1>9. SubSeq(c, 1, n) = q
  <2>1. \A i \in 1 .. n : i \in 1 .. n + 1
    BY <1>3
  <2>2. /\ SubSeq(c, 1, n) \in Seq(Words)
        /\ Len(SubSeq(c, 1, n)) = (IF 1 <= n THEN n - 1 + 1 ELSE 0)
        /\ \A i \in 1 .. (n - 1 + 1) : SubSeq(c, 1, n)[i] = c[1 + i - 1]
    <3>1. n \in Int /\ 1 \in Int /\ \A i \in 1 .. n : c[i] \in Words
      BY <1>7, <2>1
    <3> QED  BY <3>1, SubSeqProperties
  <2>3. Len(SubSeq(c, 1, n)) = n /\ \A i \in 1 .. n : SubSeq(c, 1, n)[i] = c[i]
    BY <2>2
  <2>4. q \in Seq(Words) /\ \A i \in 1 .. n : q[i] = p[i]
    BY <1>2, <1>3, <1>4 DEF Path
  <2> QED  BY <1>5, <1>7, <2>1, <2>2, <2>3, <2>4, SeqEqual
<1>10. c # << >>
  <2>1. Len(<< >>) = 0
    OBVIOUS
  <2> QED  BY <1>3, <1>7, <2>1
<1> QED  BY <1>7, <1>8, <1>9, <1>10


-----------------------------------------------------------------------------
(* The logger: trees.                                                      *)

IsRecord(f) == DOMAIN f \subseteq Words /\ \A k \in DOMAIN f : IsTree(f[k])

\* The tree v with less of it, and with labels that say as much of headers.
Thinned(w, v) ==
  /\ w \in [DOMAIN w -> Words] /\ DOMAIN w \subseteq DOMAIN v /\ << >> \in DOMAIN w
  /\ \A p \in DOMAIN w :
       /\ Above(p) \subseteq DOMAIN w
       /\ \/ w[p] = v[p]
          \/ v[p] = "headers" /\ w[p] = "record"
          \/ w[p] \notin Branches /\ \A q \in DOMAIN w : p \notin Above(q)

(* Whatever a Headers object has further below it than its values is in a  *)
(* JSON text that is one of them.                                          *)
LEMMA InHeadersIsText ==
  ASSUME NEW v, IsTree(v), NEW p \in DOMAIN v, v[p] \in Objects, NEW q \in Above(p), v[q] = "headers"
  PROVE  \E c \in Above(p) \ {<< >>} : v[c] = "json" /\ Front(c) = q
<1>1. p \in Path /\ Prefixes(p) = Above(p) \cup {p}
  <2>1. p \in Path
    BY DEF IsTree, Path
  <2> QED  BY <2>1, AbovePath
<1>2. PICK c \in Prefixes(p) : c \in Path /\ c # << >> /\ Front(c) = q
  BY <1>1, FirstBelow
<1>3. c \in DOMAIN v /\ v[c] \notin Objects \cup {"list"}
  BY <1>1, <1>2 DEF IsTree
<1>4. c # p /\ c \in Above(p)
  BY <1>1, <1>2, <1>3
<1>5. v[c] = "json"
  BY <1>3, <1>4 DEF IsTree, Branches
<1> QED  BY <1>2, <1>4, <1>5

(* What is thinned is a tree, and where it carries an ignored header the   *)
(* tree it was did.                                                        *)
LEMMA ThinnedTree ==
  ASSUME NEW v, NEW w, IsTree(v), Thinned(w, v)
  PROVE  IsTree(w) /\ \A p \in DOMAIN w : Ignored(w, p) => Ignored(v, p)
<1>1. ASSUME NEW p \in DOMAIN w, NEW q \in Above(p)
      PROVE  /\ q \in DOMAIN w /\ q \in DOMAIN v /\ p \in DOMAIN v /\ v[q] \in Branches
             /\ w[q] = v[q] \/ (v[q] = "headers" /\ w[q] = "record")
  BY <1>1 DEF Thinned, IsTree
<1>2. IsTree(w)
  <2>1. w \in [DOMAIN w -> Words] /\ DOMAIN w \subseteq Seq(Words) /\ << >> \in DOMAIN w
    BY DEF Thinned, IsTree
  <2>2. ASSUME NEW p \in DOMAIN w, NEW q \in Above(p)
        PROVE  q \in DOMAIN w /\ w[q] \in Branches
    BY <1>1, <2>2 DEF Branches, Objects
  <2>3. ASSUME NEW p \in DOMAIN w, p # << >>, w[Front(p)] = "headers"
        PROVE  w[p] \notin Objects \cup {"list"}
    <3>1. p \in DOMAIN v /\ p \in Path
      BY DEF Thinned, IsTree, Path
    <3>2. Front(p) \in Above(p)
      BY <2>3, <3>1, AbovePath
    <3>3. v[Front(p)] = "headers"
      BY <1>1, <2>3, <3>2
    <3>4. v[p] \notin Objects \cup {"list"}
      BY <2>3, <3>1, <3>3 DEF IsTree
    <3>5. v[p] # "headers"
      BY <3>4 DEF Objects
    <3> QED  BY <3>4, <3>5 DEF Thinned, Branches
  <2> QED  BY <2>1, <2>2, <2>3 DEF IsTree
<1>3. ASSUME NEW p \in DOMAIN w, Ignored(w, p) PROVE Ignored(v, p)
  <2> DEFINE q == Front(p)
  <2>1. p \in Path /\ p # << >> /\ Last(p) \in IgnoredHeaders /\ HoldsHeaders(w, q) /\ Searched(w, q)
    BY <1>2, <1>3 DEF Ignored, IsTree, Path
  <2>2. q \in Above(p) /\ Above(q) \subseteq Above(p)
    BY <2>1, AbovePath
  <2> HIDE DEF q
  <2>3. HoldsHeaders(v, q)
    BY <1>1, <2>1, <2>2 DEF HoldsHeaders
  <2>4. ASSUME NEW r \in Above(q) PROVE v[r] \notin {"json", "instance"} /\ ~HoldsHeaders(v, r)
    <3>1. w[r] \notin {"json", "instance"} /\ ~HoldsHeaders(w, r)
      BY <2>1 DEF Searched
    <3>2. w[r] = v[r] \/ (v[r] = "headers" /\ w[r] = "record")
      BY <1>1, <2>2
    <3>3. v[q] \in Objects /\ q \in DOMAIN v
      BY <1>1, <2>2, <2>3 DEF HoldsHeaders, Objects
    <3>4. v[r] # "headers"
      <4> SUFFICES ASSUME v[r] = "headers" PROVE FALSE
        OBVIOUS
      <4>1. PICK c \in Above(q) \ {<< >>} : v[c] = "json" /\ Front(c) = r
        BY <3>3, InHeadersIsText
      <4>2. w[c] = "json"
        BY <1>1, <2>2, <4>1
      <4> QED  BY <2>1, <4>1, <4>2 DEF Searched
    <3> QED  BY <3>1, <3>2, <3>4 DEF HoldsHeaders
  <2> QED  BY <2>1, <2>3, <2>4 DEF Ignored, Searched, q
<1> QED  BY <1>2, <1>3

(* Omitting and redacting thin the tree.                                   *)
LEMMA OmitThins ==
  ASSUME NEW v, IsTree(v)
  PROVE  /\ Thinned(OmitIgnoredHeaders(v), v)
         /\ ~CarriesIgnored(OmitIgnoredHeaders(v))
         /\ Root(v) = "record" => Root(OmitIgnoredHeaders(v)) = "record"
<1> DEFINE w == OmitIgnoredHeaders(v)
<1>1. /\ DOMAIN w = {p \in DOMAIN v : \A q \in Prefixes(p) : ~Ignored(v, q)}
      /\ \A p \in DOMAIN w : w[p] = IF v[p] = "headers" /\ Searched(v, p) THEN "record" ELSE v[p]
      /\ w = [p \in DOMAIN w |-> w[p]]
  BY DEF OmitIgnoredHeaders
<1>2. /\ DOMAIN v \subseteq Path /\ v \in [DOMAIN v -> Words]
      /\ \A p \in DOMAIN v : Above(p) \subseteq DOMAIN v /\ << >> \in DOMAIN v
  BY DEF IsTree, Path
<1> HIDE DEF w
<1>3. \A p \in DOMAIN v : p \in Prefixes(p) /\ \A q \in Above(p) : Prefixes(q) \subseteq Prefixes(p)
  <2> TAKE p \in DOMAIN v
  <2>1. p \in Path
    BY <1>2
  <2>2. Prefixes(p) = Above(p) \cup {p} /\ \A q \in Above(p) : q \in Path /\ Above(q) \subseteq Above(p)
    BY <2>1, AbovePath
  <2>3. \A q \in Above(p) : Prefixes(q) = Above(q) \cup {q}
    BY <2>2, AbovePath
  <2> QED  BY <2>2, <2>3
<1>4. << >> \in DOMAIN w
  <2>1. << >> \in Path /\ << >> \in DOMAIN v
    BY <1>2, EmptySeq DEF Path, IsTree
  <2>2. Prefixes(<< >>) = {<< >>}
    BY <2>1, AbovePath
  <2>3. ~Ignored(v, << >>)
    BY DEF Ignored
  <2> QED  BY <1>1, <2>1, <2>2, <2>3
<1>5. Thinned(w, v)
  <2>1. w \in [DOMAIN w -> Words] /\ DOMAIN w \subseteq DOMAIN v
    <3>1. ASSUME NEW p \in DOMAIN w PROVE w[p] \in Words
      <4>1. v[p] \in Words
        BY <1>1, <1>2
      <4>2. w[p] = v[p] \/ w[p] = "record"
        BY <1>1
      <4>3. "record" \in Words
        BY DEF Words, Branches, Objects
      <4> QED  BY <4>1, <4>2, <4>3
    <3> QED  BY <1>1, <3>1
  <2>2. \A p \in DOMAIN w : Above(p) \subseteq DOMAIN w
    BY <1>1, <1>2, <1>3
  <2>3. \A p \in DOMAIN w : w[p] = v[p] \/ (v[p] = "headers" /\ w[p] = "record")
    BY <1>1
  <2> QED  BY <1>4, <2>1, <2>2, <2>3 DEF Thinned
<1>6. ~CarriesIgnored(w)
  <2> SUFFICES ASSUME NEW p \in DOMAIN w, Ignored(w, p) PROVE FALSE
    BY DEF CarriesIgnored
  <2>1. Ignored(v, p)
    BY <1>5, ThinnedTree
  <2> QED  BY <1>1, <1>3, <2>1
<1>7. Root(v) = "record" => Root(w) = "record"
  BY <1>1, <1>4 DEF Root
<1> QED  BY <1>5, <1>6, <1>7 DEF w

LEMMA RedactThins ==
  ASSUME NEW v, IsTree(v)
  PROVE  Thinned(Redact(v), v) /\ ~Shows(Redact(v))
<1> DEFINE w == Redact(v)
<1>1. /\ DOMAIN w = {p \in DOMAIN v : \A q \in Above(p) : ~Redacted(v, q)}
      /\ \A p \in DOMAIN w : w[p] = IF Redacted(v, p) THEN "[REDACTED]"
                                    ELSE v[p]
      /\ w = [p \in DOMAIN w |-> w[p]]
  BY DEF Redact
<1>2. /\ DOMAIN v \subseteq Path /\ v \in [DOMAIN v -> Words] /\ << >> \in DOMAIN v
      /\ \A p \in DOMAIN v : \A q \in Above(p) : q \in DOMAIN v /\ v[q] \in Branches
  BY DEF IsTree, Path
<1> HIDE DEF w
<1>3. \A p \in DOMAIN v : \A q \in Above(p) : Above(q) \subseteq Above(p)
  BY <1>2, AbovePath
<1>4. << >> \in DOMAIN w
  <2>1. << >> \in Path
    BY <1>2
  <2>2. Above(<< >>) = {}
    BY <2>1, AbovePath
  <2> QED  BY <1>1, <1>2, <2>2
<1>5. \A p \in DOMAIN w : Above(p) \subseteq DOMAIN w
  BY <1>1, <1>2, <1>3
<1>6. Thinned(w, v)
  <2>1. w \in [DOMAIN w -> Words] /\ DOMAIN w \subseteq DOMAIN v
    <3>1. ASSUME NEW p \in DOMAIN w PROVE w[p] \in Words
      <4>1. v[p] \in Words
        BY <1>1, <1>2
      <4>2. w[p] = v[p] \/ w[p] = "[REDACTED]"
        BY <1>1
      <4>3. "[REDACTED]" \in Words
        BY DEF Words
      <4> QED  BY <4>1, <4>2, <4>3
    <3> QED  BY <1>1, <3>1
  <2>2. ASSUME NEW p \in DOMAIN w
        PROVE  \/ w[p] = v[p]
               \/ v[p] = "headers" /\ w[p] = "record"
               \/ w[p] \notin Branches /\ \A q \in DOMAIN w : p \notin Above(q)
    <3>1. CASE Redacted(v, p)
      BY <1>1, <3>1 DEF Branches, Objects
    <3>2. CASE ~Redacted(v, p)
      BY <1>1, <3>2
    <3> QED  BY <3>1, <3>2
  <2> QED  BY <1>4, <1>5, <2>1, <2>2 DEF Thinned
<1>7. ~Shows(w)
  <2> SUFFICES ASSUME NEW p \in DOMAIN w, p # << >>, Len(p) <= MaxDepth, w[Front(p)] \in Objects,
                      ~InHeaderText(w, p), Last(p) \in SensitiveKeys, w[p] # "[REDACTED]"
               PROVE  FALSE
    BY DEF Shows
  <2> DEFINE q == Front(p)
  <2>1. p \in DOMAIN v /\ p \in Path
    BY <1>1, <1>2
  <2>2. q \in Path /\ Len(q) = Len(p) - 1 /\ q \in Above(p) /\ Above(p) = Above(q) \cup {q}
    BY <2>1, AbovePath
  <2>3. q \in DOMAIN w /\ ~Redacted(v, q) /\ v[q] \in Branches
    BY <1>1, <1>2, <1>5, <2>1, <2>2
  <2>4. v[q] \in Objects
    BY <1>1, <2>3 DEF Objects
  <2>5. Walked(v, q)
    <3>1. Len(q) < MaxDepth
      <4>1. Len(p) \in Nat
        BY <2>1, LenProperties DEF Path
      <4> QED  BY <2>2, <4>1, LoggingAssumption
    <3>2. ASSUME NEW r \in Above(q), v[r] = "headers" PROVE FALSE
      <4>1. q \in DOMAIN v
        BY <1>1, <2>3
      <4>2. PICK c \in Above(q) \ {<< >>} : v[c] = "json" /\ Front(c) = r
        BY <2>4, <3>2, <4>1, InHeadersIsText
      <4>3. c \in Above(p) /\ r \in Above(p)
        BY <2>2, <4>2
      <4>4. w[c] = "json" /\ w[r] = "headers"
        BY <1>1, <1>5, <2>1, <3>2, <4>2, <4>3
      <4> QED  BY <4>2, <4>3, <4>4 DEF InHeaderText
    <3> QED  BY <3>1, <3>2 DEF Walked
  <2>6. Redacted(v, p)
    BY <2>4, <2>5 DEF Redacted
  <2> QED  BY <1>1, <2>6
<1> QED  BY <1>6, <1>7 DEF w


\* The tree g has the trees of f below a root with this label.
GrowsFrom(g, label, f) ==
  /\ IsTree(g) /\ Root(g) = label
  /\ \A p \in DOMAIN g : p = << >> \/ \E k \in DOMAIN f : \E r \in DOMAIN f[k] : p = <<k>> \o r
  /\ \A k \in DOMAIN f : \A r \in DOMAIN f[k] : <<k>> \o r \in DOMAIN g /\ g[<<k>> \o r] = f[k][r]
  /\ \A k \in Words, r \in Path : <<k>> \o r \in DOMAIN g => k \in DOMAIN f /\ r \in DOMAIN f[k]

LEMMA GrownIs ==
  ASSUME NEW label \in Words, label \in Branches \ {"headers"}, NEW f, IsRecord(f)
  PROVE  GrowsFrom(Grown(label, f), label, f)
<1> DEFINE g == Grown(label, f)
           P == {<< >>} \cup UNION {{<<k>> \o q : q \in DOMAIN f[k]} : k \in DOMAIN f}
<1>1. \A k \in DOMAIN f : k \in Words /\ IsTree(f[k]) /\ DOMAIN f[k] \subseteq Path
  BY DEF IsRecord, IsTree, Path
<1>2. g = [p \in P |-> IF p = << >> THEN label ELSE f[Head(p)][Tail(p)]]
  BY DEF Grown
<1>3. \A p : p \in P <=> (p = << >> \/ \E k \in DOMAIN f : \E r \in DOMAIN f[k] : p = <<k>> \o r)
  <2>1. ASSUME NEW p \in P, p # << >> PROVE \E k \in DOMAIN f : \E r \in DOMAIN f[k] : p = <<k>> \o r
    <3>1. PICK k \in DOMAIN f : p \in {<<k>> \o q : q \in DOMAIN f[k]}
      BY <2>1
    <3> QED  BY <3>1
  <2>2. ASSUME NEW k \in DOMAIN f, NEW r \in DOMAIN f[k] PROVE <<k>> \o r \in P
    <3>1. <<k>> \o r \in {<<k>> \o q : q \in DOMAIN f[k]}
      OBVIOUS
    <3> QED  BY <3>1
  <2>3. << >> \in P
    OBVIOUS
  <2> HIDE DEF P
  <2> QED  BY <2>1, <2>2, <2>3
<1> HIDE DEF P, g
<1>4. DOMAIN g = P /\ g[<< >>] = label /\ << >> \in DOMAIN g
  BY <1>2, <1>3
<1>5. ASSUME NEW k \in DOMAIN f, NEW r \in DOMAIN f[k]
      PROVE  <<k>> \o r \in DOMAIN g /\ g[<<k>> \o r] = f[k][r]
  <2>1. k \in Words /\ r \in Path
    BY <1>1
  <2>2. <<k>> \o r # << >> /\ Head(<<k>> \o r) = k /\ Tail(<<k>> \o r) = r
    BY <2>1, BelowKey
  <2>3. <<k>> \o r \in P
    BY <1>3
  <2> QED  BY <1>2, <1>4, <2>2, <2>3
<1>6. ASSUME NEW k \in Words, NEW r \in Path, <<k>> \o r \in DOMAIN g
      PROVE  k \in DOMAIN f /\ r \in DOMAIN f[k]
  <2>1. <<k>> \o r # << >> /\ Head(<<k>> \o r) = k /\ Tail(<<k>> \o r) = r
    BY BelowKey
  <2>2. PICK j \in DOMAIN f : \E x \in DOMAIN f[j] : <<k>> \o r = <<j>> \o x
    BY <1>3, <1>4, <1>6, <2>1
  <2>9. PICK x \in DOMAIN f[j] : <<k>> \o r = <<j>> \o x
    BY <2>2
  <2>3. Head(<<j>> \o x) = j /\ Tail(<<j>> \o x) = x
    <3>1. j \in Words /\ x \in Path
      BY <1>1
    <3> QED  BY <3>1, BelowKey
  <2> QED  BY <2>1, <2>9, <2>3
<1>7. IsTree(g)
  <2>1. g \in [DOMAIN g -> Words]
    <3>1. ASSUME NEW p \in DOMAIN g PROVE g[p] \in Words
      <4>1. CASE p = << >>
        BY <1>4, <4>1
      <4>2. CASE p # << >>
        <5>9. PICK k \in DOMAIN f : \E r \in DOMAIN f[k] : p = <<k>> \o r
          BY <1>3, <1>4, <4>2
        <5>1. PICK r \in DOMAIN f[k] : p = <<k>> \o r
          BY <5>9
        <5>2. g[p] = f[k][r]
          BY <1>5, <5>1
        <5>3. f[k] \in [DOMAIN f[k] -> Words]
          BY <1>1 DEF IsTree
        <5> QED  BY <5>2, <5>3
      <4> QED  BY <4>1, <4>2
    <3>2. g = [p \in DOMAIN g |-> g[p]]
      BY <1>2, <1>4
    <3> QED  BY <3>1, <3>2
  <2>2. DOMAIN g \subseteq Path
    <3>1. ASSUME NEW k \in DOMAIN f, NEW r \in DOMAIN f[k] PROVE <<k>> \o r \in Path
      <4>1. k \in Words /\ r \in Path
        BY <1>1
      <4> QED  BY <4>1, BelowKey
    <3>2. << >> \in Path
      BY EmptySeq DEF Path
    <3>3. ASSUME NEW p \in DOMAIN g PROVE p \in Path
      <4>1. CASE p = << >>
        BY <3>2, <4>1
      <4>2. CASE p # << >>
        <5>1. PICK k \in DOMAIN f : \E r \in DOMAIN f[k] : p = <<k>> \o r
          BY <1>3, <1>4, <4>2
        <5> QED  BY <3>1, <5>1
      <4> QED  BY <4>1, <4>2
    <3> QED  BY <3>3
  <2>3. ASSUME NEW p \in DOMAIN g, NEW q \in Above(p)
        PROVE  q \in DOMAIN g /\ g[q] \in Branches
    <3>1. p # << >>
      <4>1. << >> \in Path
        BY EmptySeq DEF Path
      <4> QED  BY <2>3, <4>1, AbovePath
    <3>9. PICK k \in DOMAIN f : \E r \in DOMAIN f[k] : p = <<k>> \o r
      BY <1>3, <1>4, <3>1
    <3>2. PICK r \in DOMAIN f[k] : p = <<k>> \o r
      BY <3>9
    <3>3. k \in Words /\ r \in Path /\ IsTree(f[k])
      BY <1>1
    <3>4. q = << >> \/ \E a \in Above(r) : q = <<k>> \o a
      <4>1. Above(<<k>> \o r) = {<< >>} \cup {<<k>> \o a : a \in Above(r)}
        BY <3>3, AboveBelowKey
      <4> QED  BY <2>3, <3>2, <4>1
    <3>5. CASE q = << >>
      BY <1>4, <3>5
    <3>6. ASSUME NEW a \in Above(r), q = <<k>> \o a
          PROVE  q \in DOMAIN g /\ g[q] \in Branches
      <4>1. a \in DOMAIN f[k] /\ f[k][a] \in Branches
        BY <3>3 DEF IsTree
      <4> QED  BY <1>5, <3>2, <3>6, <4>1
    <3> QED  BY <3>4, <3>5, <3>6
  <2>4. ASSUME NEW p \in DOMAIN g, p # << >>, g[Front(p)] = "headers"
        PROVE  g[p] \notin Objects \cup {"list"}
    <3>9. PICK k \in DOMAIN f : \E r \in DOMAIN f[k] : p = <<k>> \o r
      BY <1>3, <1>4, <2>4
    <3>1. PICK r \in DOMAIN f[k] : p = <<k>> \o r
      BY <3>9
    <3>2. k \in Words /\ r \in Path /\ IsTree(f[k])
      BY <1>1
    <3>3. r # << >> /\ Front(p) = <<k>> \o Front(r)
      BY <1>4, <2>4, <3>1, <3>2, BelowKey
    <3>4. Front(r) \in DOMAIN f[k]
      <4>1. Front(r) \in Above(r)
        BY <3>2, <3>3, AbovePath
      <4> QED  BY <3>2, <4>1 DEF IsTree
    <3>5. f[k][Front(r)] = "headers"
      BY <1>5, <2>4, <3>3, <3>4
    <3>6. f[k][r] \notin Objects \cup {"list"}
      BY <3>2, <3>3, <3>5 DEF IsTree
    <3> QED  BY <1>5, <3>1, <3>6
  <2> QED  BY <1>4, <2>1, <2>2, <2>3, <2>4 DEF IsTree, Path
<1>8. GrowsFrom(g, label, f)
  <2>1. Root(g) = label
    BY <1>4 DEF Root
  <2>2. \A p \in DOMAIN g : p = << >> \/ \E k \in DOMAIN f : \E r \in DOMAIN f[k] : p = <<k>> \o r
    BY <1>3, <1>4
  <2> QED  BY <1>5, <1>6, <1>7, <2>1, <2>2 DEF GrowsFrom
<1> QED  BY <1>8 DEF g

(* A tree is grown from what is below its keys.                            *)
LEMMA Regrown ==
  ASSUME NEW v, IsTree(v), NEW label, label \in Branches \ {"headers"}, Root(v) = label
  PROVE  /\ IsRecord([k \in Keys(v) |-> Below(v, k)])
         /\ Grown(label, [k \in Keys(v) |-> Below(v, k)]) = v
<1> DEFINE f == [k \in Keys(v) |-> Below(v, k)]
           g == Grown(label, f)
<1>1. DOMAIN v \subseteq Path /\ v \in [DOMAIN v -> Words] /\ << >> \in DOMAIN v
  BY DEF IsTree, Path
<1>2. ASSUME NEW p \in DOMAIN v, p # << >>
      PROVE  Head(p) \in Words /\ Tail(p) \in Path /\ p = <<Head(p)>> \o Tail(p) /\ Head(p) \in Keys(v)
  <2>1. p \in Path
    BY <1>1
  <2> QED  BY <1>2, <2>1, PathSplit DEF Keys
<1>3. \A k \in Keys(v) : k \in Words
  BY <1>2 DEF Keys
<1>4. ASSUME NEW k \in Keys(v)
      PROVE  /\ \A r : r \in DOMAIN Below(v, k) <=> (r \in Path /\ <<k>> \o r \in DOMAIN v)
             /\ \A r \in DOMAIN Below(v, k) : Below(v, k)[r] = v[<<k>> \o r]
             /\ Below(v, k) = [r \in DOMAIN Below(v, k) |-> Below(v, k)[r]]
  <2>1. ASSUME NEW r \in Path, <<k>> \o r \in DOMAIN v
        PROVE  r \in DOMAIN Below(v, k)
    <3>1. <<k>> \o r # << >> /\ Head(<<k>> \o r) = k /\ Tail(<<k>> \o r) = r
      BY <1>3, BelowKey
    <3> QED  BY <2>1, <3>1 DEF Below
  <2>2. ASSUME NEW r \in DOMAIN Below(v, k) PROVE r \in Path /\ <<k>> \o r \in DOMAIN v
    <3>1. PICK p \in DOMAIN v \ {<< >>} : Head(p) = k /\ r = Tail(p)
      BY DEF Below
    <3> QED  BY <1>2, <3>1
  <2>3. \A r \in DOMAIN Below(v, k) : Below(v, k)[r] = v[<<k>> \o r]
    BY DEF Below
  <2>4. Below(v, k) = [r \in DOMAIN Below(v, k) |-> Below(v, k)[r]]
    BY DEF Below
  <2> QED  BY <2>1, <2>2, <2>3, <2>4
<1>5. ASSUME NEW k \in Keys(v) PROVE IsTree(Below(v, k))
  <2> DEFINE b == Below(v, k)
  <2>1. /\ \A r : r \in DOMAIN b <=> (r \in Path /\ <<k>> \o r \in DOMAIN v)
        /\ \A r \in DOMAIN b : b[r] = v[<<k>> \o r]
        /\ b = [r \in DOMAIN b |-> b[r]]
    BY <1>4
  <2> HIDE DEF b
  <2>2. b \in [DOMAIN b -> Words]
    <3>1. \A r \in DOMAIN b : b[r] \in Words
      BY <1>1, <2>1
    <3> QED  BY <2>1, <3>1
  <2>3. << >> \in DOMAIN b
    <3>1. PICK p \in DOMAIN v \ {<< >>} : k = Head(p)
      BY DEF Keys
    <3>2. k \in Words /\ Tail(p) \in Path /\ p = <<k>> \o Tail(p) /\ << >> \in Path
      BY <1>2, <3>1, EmptySeq DEF Path
    <3>3. CASE Tail(p) = << >>
      BY <2>1, <3>1, <3>2, <3>3
    <3>4. CASE Tail(p) # << >>
      <4>1. << >> \in Above(Tail(p))
        BY <3>2, <3>4, AbovePath
      <4>2. <<k>> \o << >> \in Above(p)
        <5>1. Above(<<k>> \o Tail(p)) = {<< >>} \cup {<<k>> \o a : a \in Above(Tail(p))}
          BY <3>2, AboveBelowKey
        <5> QED  BY <3>2, <4>1, <5>1
      <4>3. <<k>> \o << >> \in DOMAIN v
        BY <3>1, <4>2 DEF IsTree
      <4> QED  BY <2>1, <3>2, <4>3
    <3> QED  BY <3>3, <3>4
  <2>4. ASSUME NEW r \in DOMAIN b, NEW a \in Above(r)
        PROVE  a \in DOMAIN b /\ b[a] \in Branches
    <3>1. r \in Path /\ <<k>> \o r \in DOMAIN v /\ a \in Path /\ k \in Words
      BY <1>3, <2>1, AbovePath
    <3>2. <<k>> \o a \in Above(<<k>> \o r)
      <4>1. Above(<<k>> \o r) = {<< >>} \cup {<<k>> \o x : x \in Above(r)}
        BY <3>1, AboveBelowKey
      <4> QED  BY <4>1
    <3>3. <<k>> \o a \in DOMAIN v /\ v[<<k>> \o a] \in Branches
      BY <3>1, <3>2 DEF IsTree
    <3> QED  BY <2>1, <3>1, <3>3
  <2>5. DOMAIN b \subseteq Path
    BY <2>1
  <2>6. ASSUME NEW r \in DOMAIN b, r # << >>, b[Front(r)] = "headers"
        PROVE  b[r] \notin Objects \cup {"list"}
    <3>1. r \in Path /\ <<k>> \o r \in DOMAIN v /\ k \in Words
      BY <1>3, <2>1
    <3>2. <<k>> \o r # << >> /\ Front(<<k>> \o r) = <<k>> \o Front(r)
      BY <2>6, <3>1, BelowKey
    <3>3. Front(r) \in DOMAIN b
      <4>1. Front(r) \in Above(r)
        BY <2>6, <3>1, AbovePath
      <4> QED  BY <2>4, <4>1
    <3>4. v[<<k>> \o Front(r)] = "headers"
      BY <2>1, <2>6, <3>3
    <3>5. v[<<k>> \o r] \notin Objects \cup {"list"}
      BY <3>1, <3>2, <3>4 DEF IsTree
    <3> QED  BY <2>1, <3>5
  <2> QED  BY <2>2, <2>3, <2>4, <2>5, <2>6 DEF IsTree, Path, b
<1>6. DOMAIN f = Keys(v) /\ \A k \in Keys(v) : f[k] = Below(v, k)
  OBVIOUS
<1> HIDE DEF f
<1>7. IsRecord(f)
  BY <1>3, <1>5, <1>6 DEF IsRecord
<1>8. label \in Words
  BY <1>1 DEF Root
<1>9. /\ IsTree(g) /\ Root(g) = label
      /\ \A p \in DOMAIN g : p = << >> \/ \E k \in DOMAIN f : \E r \in DOMAIN f[k] : p = <<k>> \o r
      /\ \A k \in DOMAIN f : \A r \in DOMAIN f[k] : <<k>> \o r \in DOMAIN g /\ g[<<k>> \o r] = f[k][r]
  <2>1. GrowsFrom(Grown(label, f), label, f)
    BY <1>7, <1>8, GrownIs
  <2> QED  BY <2>1 DEF GrowsFrom
<1> HIDE DEF g
<1>10. ASSUME NEW p \in DOMAIN g PROVE p \in DOMAIN v /\ g[p] = v[p]
  <2>1. CASE p = << >>
    BY <1>1, <1>9, <2>1 DEF Root
  <2>2. ASSUME NEW k \in DOMAIN f, NEW r \in DOMAIN f[k], p = <<k>> \o r
        PROVE  p \in DOMAIN v /\ g[p] = v[p]
    <3>1. r \in DOMAIN Below(v, k) /\ k \in Keys(v) /\ f[k] = Below(v, k)
      BY <1>6
    <3>2. p \in DOMAIN v /\ Below(v, k)[r] = v[p]
      BY <1>4, <2>2, <3>1
    <3> QED  BY <1>9, <2>2, <3>1, <3>2
  <2> QED  BY <1>9, <2>1, <2>2
<1>11. ASSUME NEW p \in DOMAIN v PROVE p \in DOMAIN g
  <2>1. CASE p = << >>
    BY <1>9, <2>1 DEF IsTree
  <2>2. CASE p # << >>
    <3>1. /\ Head(p) \in Keys(v) /\ Tail(p) \in Path /\ p = <<Head(p)>> \o Tail(p)
      BY <1>2, <2>2
    <3>2. Tail(p) \in DOMAIN Below(v, Head(p))
      BY <1>4, <3>1
    <3>3. Head(p) \in DOMAIN f /\ Tail(p) \in DOMAIN f[Head(p)]
      BY <1>6, <3>1, <3>2
    <3> QED  BY <1>9, <3>1, <3>3
  <2> QED  BY <2>1, <2>2
<1>12. g = v
  <2>1. g \in [DOMAIN g -> Words] /\ DOMAIN g = DOMAIN v
    BY <1>9, <1>10, <1>11 DEF IsTree
  <2> QED  BY <1>1, <1>10, <2>1
<1> QED  BY <1>7, <1>12 DEF f, g


-----------------------------------------------------------------------------
(* The logger: entries.                                                    *)

(* Below a key that is not "headers" the same headers are ignored as in    *)
(* the tree that is there.                                                 *)
LEMMA IgnoredBelow ==
  ASSUME NEW k \in Words, k # "headers", NEW g, Root(g) = "record", NEW t, IsTree(t),
         \A r \in DOMAIN t : g[<<k>> \o r] = t[r], NEW r \in DOMAIN t
  PROVE  Ignored(g, <<k>> \o r) <=> Ignored(t, r)
<1>1. r \in Path /\ \A a \in DOMAIN t : a \in Path
  BY DEF IsTree, Path
<1>2. g[<< >>] = "record" /\ ~HoldsHeaders(g, << >>)
  BY DEF Root, HoldsHeaders
<1>3. ASSUME NEW a \in DOMAIN t PROVE HoldsHeaders(g, <<k>> \o a) <=> HoldsHeaders(t, a)
  <2>1. a \in Path /\ g[<<k>> \o a] = t[a]
    BY <1>1
  <2>2. /\ <<k>> \o a # << >>
        /\ a = << >> => Last(<<k>> \o a) = k
        /\ a # << >> => Last(<<k>> \o a) = Last(a)
    BY <2>1, BelowKey
  <2> QED  BY <2>1, <2>2 DEF HoldsHeaders
<1>4. ASSUME NEW x \in DOMAIN t PROVE Searched(g, <<k>> \o x) <=> Searched(t, x)
  <2>1. Above(<<k>> \o x) = {<< >>} \cup {<<k>> \o a : a \in Above(x)}
    BY <1>1, AboveBelowKey
  <2>2. \A a \in Above(x) : a \in DOMAIN t /\ g[<<k>> \o a] = t[a]
    BY DEF IsTree
  <2>3. \A a \in Above(x) : HoldsHeaders(g, <<k>> \o a) <=> HoldsHeaders(t, a)
    BY <1>3, <2>2
  <2>4. \A b \in Above(<<k>> \o x) : b = << >> \/ \E a \in Above(x) : b = <<k>> \o a
    BY <2>1
  <2>5. ASSUME Searched(t, x) PROVE Searched(g, <<k>> \o x)
    BY <1>2, <2>2, <2>3, <2>4, <2>5 DEF Searched
  <2>6. ASSUME Searched(g, <<k>> \o x) PROVE Searched(t, x)
    <3>1. \A a \in Above(x) : <<k>> \o a \in Above(<<k>> \o x)
      BY <2>1
    <3> QED  BY <2>2, <2>3, <2>6, <3>1 DEF Searched
  <2> QED  BY <2>5, <2>6
<1>5. CASE r = << >>
  <2>1. Front(<<k>> \o r) = << >>
    BY <1>1, <1>5, BelowKey
  <2> QED  BY <1>2, <1>5, <2>1 DEF Ignored
<1>6. CASE r # << >>
  <2>1. /\ <<k>> \o r # << >> /\ Front(<<k>> \o r) = <<k>> \o Front(r)
        /\ Last(<<k>> \o r) = Last(r)
    BY <1>1, <1>6, BelowKey
  <2>2. Front(r) \in DOMAIN t
    <3>1. Front(r) \in Above(r)
      BY <1>1, <1>6, AbovePath
    <3> QED  BY <3>1 DEF IsTree
  <2>3. /\ HoldsHeaders(g, <<k>> \o Front(r)) <=> HoldsHeaders(t, Front(r))
        /\ Searched(g, <<k>> \o Front(r)) <=> Searched(t, Front(r))
    BY <1>3, <1>4, <2>2
  <2> QED  BY <1>6, <2>1, <2>3 DEF Ignored
<1> QED  BY <1>5, <1>6

(* Texts, and strings that hold JSON, carry no headers.                    *)
LEMMA StringsCarryNone ==
  ASSUME NEW t, IsTree(t), IsString(t)
  PROVE  ~CarriesIgnored(t)
<1> SUFFICES ASSUME NEW r \in DOMAIN t, Ignored(t, r) PROVE FALSE
  BY DEF CarriesIgnored
<1>1. r \in Path /\ r # << >> /\ HoldsHeaders(t, Front(r)) /\ Searched(t, Front(r))
  BY DEF Ignored, IsTree, Path
<1>2. /\ Front(r) \in Path /\ << >> \in Above(r)
      /\ Front(r) # << >> => << >> \in Above(Front(r))
  <2>1. Front(r) \in Path /\ << >> \in Above(r)
    BY <1>1, AbovePath
  <2> QED  BY <2>1, AbovePath
<1>3. t[<< >>] = "json"
  BY <1>2 DEF IsTree, IsString, Root, Branches, Objects
<1> QED  BY <1>1, <1>2, <1>3 DEF HoldsHeaders, Searched

LEMMA PlainTree ==
  ASSUME NEW w \in Words
  PROVE  IsTree(Plain(w)) /\ Root(Plain(w)) = w /\ ~CarriesIgnored(Plain(w))
<1>1. << >> \in Path
  BY EmptySeq DEF Path
<1>2. Above(<< >>) = {}
  BY <1>1, AbovePath
<1>3. /\ DOMAIN Plain(w) = {<< >>} /\ Plain(w)[<< >>] = w
      /\ Plain(w) \in [DOMAIN Plain(w) -> Words]
  BY DEF Plain
<1>4. IsTree(Plain(w))
  BY <1>1, <1>2, <1>3 DEF IsTree, Path
<1>5. ~CarriesIgnored(Plain(w))
  BY <1>3 DEF CarriesIgnored, Ignored
<1> QED  BY <1>3, <1>4, <1>5 DEF Root

(* A Headers object that becomes a record is thinned.                      *)
LEMMA NormalizedThins ==
  ASSUME NEW v, IsTree(v), NEW w,
         w = [v EXCEPT ![<< >>] = IF v[<< >>] = "headers" THEN "record" ELSE v[<< >>]]
  PROVE  Thinned(w, v) /\ DOMAIN w = DOMAIN v
<1>1. /\ v \in [DOMAIN v -> Words] /\ DOMAIN v \subseteq Path /\ << >> \in DOMAIN v
      /\ \A p \in DOMAIN v : Above(p) \subseteq DOMAIN v
  BY DEF IsTree, Path
<1>2. DOMAIN w = DOMAIN v
  OBVIOUS
<1>3. \A p \in DOMAIN v : w[p] = v[p] \/ (v[p] = "headers" /\ w[p] = "record")
  OBVIOUS
<1>4. w \in [DOMAIN w -> Words]
  <2>1. "record" \in Words
    BY DEF Words, Branches, Objects
  <2>2. v[<< >>] \in Words
    BY <1>1
  <2> QED  BY <1>1, <2>1, <2>2
<1> QED  BY <1>1, <1>2, <1>3, <1>4 DEF Thinned

(* What omitIgnoredHeaders returns carries none of them.                   *)
LEMMA OmittedCarriesNone ==
  ASSUME NEW attrs, IsRecord(attrs)
  PROVE  IsRecord(OmitHeaders(attrs)) /\ ~CarriesIgnored(Grown("record", OmitHeaders(attrs)))
<1>1. "record" \in Words /\ "record" \in Branches \ {"headers"}
  BY DEF Words, Branches, Objects
<1>2. CASE IgnoredHeaders = {}
  BY <1>2 DEF OmitHeaders, CarriesIgnored, Ignored
<1>3. CASE IgnoredHeaders # {}
  <2> DEFINE u == Grown("record", attrs)
             v == OmitIgnoredHeaders(u)
  <2>1. IsTree(u) /\ Root(u) = "record"
    BY <1>1, GrownIs DEF GrowsFrom
  <2> HIDE DEF u
  <2>2. Thinned(v, u) /\ ~CarriesIgnored(v) /\ Root(v) = "record"
    BY <2>1, OmitThins
  <2>3. IsTree(v)
    BY <2>1, <2>2, ThinnedTree
  <2>4. OmitHeaders(attrs) = [k \in Keys(v) |-> Below(v, k)]
    BY <1>3 DEF OmitHeaders, u
  <2> HIDE DEF v
  <2>5. IsRecord([k \in Keys(v) |-> Below(v, k)]) /\ Grown("record", [k \in Keys(v) |-> Below(v, k)]) = v
    BY <1>1, <2>2, <2>3, Regrown
  <2> QED  BY <2>2, <2>4, <2>5
<1> QED  BY <1>2, <1>3


(* The attributes' headers are under details, or in the list of services.  *)
LEMMA EntryCarriesNone ==
  ASSUME NEW level \in Levels, NEW message, IsTree(message), IsString(message),
         NEW attrs, IsRecord(attrs), ~CarriesIgnored(Grown("record", attrs))
  PROVE  IsTree(BuildEntry(level, message, attrs)) /\ ~CarriesIgnored(BuildEntry(level, message, attrs))
<1> DEFINE u == Grown("record", attrs)
           S == IF "services" \in DOMAIN attrs THEN "services" ELSE "process"
           df == [k \in DOMAIN attrs \ TopLevel |->
                   IF k = "headers"
                   THEN [attrs[k] EXCEPT ![<< >>] = IF attrs[k][<< >>] = "headers" THEN "record" ELSE attrs[k][<< >>]]
                   ELSE attrs[k]]
           d == Grown("record", df)
           f == [level   |-> Plain(LevelNames[level]), message |-> message,
                 traceID |-> Given(attrs, "traceID", IsString, Plain("")),
                 spanID  |-> Given(attrs, "spanID", IsString, Plain("")),
                 process |-> Given(attrs, S, IsList, Plain("list")),
                 details |-> d]
           e == Grown("record", f)
<1>1. e = BuildEntry(level, message, attrs)
  BY DEF BuildEntry
<1>2. "record" \in Words /\ "record" \in Branches \ {"headers"}
  BY DEF Words, Branches, Objects
<1>3. GrowsFrom(u, "record", attrs)
  BY <1>2, GrownIs
<1>4. ASSUME NEW k \in DOMAIN attrs
      PROVE  /\ k \in Words /\ IsTree(attrs[k]) /\ DOMAIN attrs[k] \subseteq Path
             /\ \A r \in DOMAIN attrs[k] : <<k>> \o r \in DOMAIN u /\ u[<<k>> \o r] = attrs[k][r]
  BY <1>3 DEF IsRecord, GrowsFrom, IsTree, Path
<1>5. ASSUME NEW k \in DOMAIN attrs, k # "headers" PROVE ~CarriesIgnored(attrs[k])
  <2> SUFFICES ASSUME NEW r \in DOMAIN attrs[k], Ignored(attrs[k], r) PROVE FALSE
    BY DEF CarriesIgnored
  <2>1. Root(u) = "record"
    BY <1>3 DEF GrowsFrom
  <2> HIDE DEF u
  <2>2. Ignored(u, <<k>> \o r) <=> Ignored(attrs[k], r)
    BY <1>4, <1>5, <2>1, IgnoredBelow
  <2>3. <<k>> \o r \in DOMAIN u
    BY <1>4
  <2> QED  BY <2>2, <2>3 DEF CarriesIgnored, u
<1>6. /\ DOMAIN df = DOMAIN attrs \ TopLevel
      /\ \A k \in DOMAIN df : IsTree(df[k]) /\ Thinned(df[k], attrs[k]) /\ DOMAIN df[k] = DOMAIN attrs[k]
  <2>1. DOMAIN df = DOMAIN attrs \ TopLevel
    OBVIOUS
  <2>2. ASSUME NEW k \in DOMAIN df
        PROVE  Thinned(df[k], attrs[k]) /\ DOMAIN df[k] = DOMAIN attrs[k]
    <3>1. k \in DOMAIN attrs /\ IsTree(attrs[k])
      BY <1>4, <2>1
    <3>2. CASE k = "headers"
      <4>1. df[k] = [attrs[k] EXCEPT ![<< >>] = IF attrs[k][<< >>] = "headers" THEN "record" ELSE attrs[k][<< >>]]
        BY <3>2
      <4> HIDE DEF df
      <4> QED  BY <3>1, <4>1, NormalizedThins
    <3>3. CASE k # "headers"
      <4>1. df[k] = attrs[k]
        BY <3>3
      <4> HIDE DEF df
      <4> QED  BY <3>1, <4>1 DEF Thinned, IsTree
    <3> QED  BY <3>2, <3>3
  <2> HIDE DEF df
  <2>3. \A k \in DOMAIN df : IsTree(df[k])
    BY <1>4, <2>1, <2>2, ThinnedTree
  <2> QED  BY <2>1, <2>2, <2>3
<1>7. \A k \in DOMAIN df : k = "headers" \/ df[k] = attrs[k]
  OBVIOUS
<1> HIDE DEF df
<1>8. IsRecord(df)
  BY <1>4, <1>6 DEF IsRecord
<1>9. GrowsFrom(d, "record", df)
  BY <1>2, <1>8, GrownIs
<1> HIDE DEF d, u
<1>10. Thinned(d, u)
  <2>1. d \in [DOMAIN d -> Words] /\ << >> \in DOMAIN d /\ \A p \in DOMAIN d : Above(p) \subseteq DOMAIN d
    BY <1>9 DEF GrowsFrom, IsTree
  <2>2. ASSUME NEW p \in DOMAIN d
        PROVE  p \in DOMAIN u /\ (d[p] = u[p] \/ (u[p] = "headers" /\ d[p] = "record")
                                  \/ (d[p] \notin Branches /\ \A q \in DOMAIN d : p \notin Above(q)))
    <3>1. CASE p = << >>
      <4>1. d[<< >>] = "record" /\ u[<< >>] = "record" /\ << >> \in DOMAIN u
        BY <1>3, <1>9 DEF GrowsFrom, Root, IsTree
      <4> QED  BY <3>1, <4>1
    <3>2. CASE p # << >>
      <4>1. PICK k \in DOMAIN df : \E r \in DOMAIN df[k] : p = <<k>> \o r
        BY <1>9, <3>2 DEF GrowsFrom
      <4>2. PICK r \in DOMAIN df[k] : p = <<k>> \o r
        BY <4>1
      <4>3. k \in DOMAIN attrs /\ r \in DOMAIN attrs[k] /\ Thinned(df[k], attrs[k])
        BY <1>6
      <4>4. d[p] = df[k][r] /\ p \in DOMAIN u /\ u[p] = attrs[k][r]
        BY <1>3, <1>9, <4>2, <4>3 DEF GrowsFrom
      <4>5. CASE \/ df[k][r] = attrs[k][r]
                 \/ attrs[k][r] = "headers" /\ df[k][r] = "record"
        BY <4>4, <4>5
      <4>6. CASE df[k][r] \notin Branches /\ \A q \in DOMAIN df[k] : r \notin Above(q)
        <5>1. ASSUME NEW q \in DOMAIN d, p \in Above(q) PROVE FALSE
          <6>1. d[p] \in Branches
            BY <1>9, <5>1 DEF GrowsFrom, IsTree
          <6> QED  BY <4>4, <4>6, <6>1
        <5> QED  BY <4>4, <4>6, <5>1
      <4> QED  BY <4>3, <4>5, <4>6 DEF Thinned
    <3> QED  BY <3>1, <3>2
  <2> QED  BY <2>1, <2>2 DEF Thinned
<1>11. IsTree(d) /\ ~CarriesIgnored(d)
  <2>1. IsTree(u) /\ ~CarriesIgnored(u)
    BY <1>3 DEF GrowsFrom, u
  <2>2. IsTree(d) /\ \A p \in DOMAIN d : Ignored(d, p) => Ignored(u, p)
    BY <1>10, <2>1, ThinnedTree
  <2>3. DOMAIN d \subseteq DOMAIN u
    BY <1>10 DEF Thinned
  <2> QED  BY <2>1, <2>2, <2>3 DEF CarriesIgnored
<1>12. /\ DOMAIN f = Slots
       /\ f["level"] = Plain(LevelNames[level]) /\ f["message"] = message /\ f["details"] = d
       /\ f["traceID"] = Plain("") \/ ("traceID" \in DOMAIN attrs /\ f["traceID"] = attrs["traceID"])
       /\ f["spanID"] = Plain("") \/ ("spanID" \in DOMAIN attrs /\ f["spanID"] = attrs["spanID"])
       /\ \/ f["process"] = Plain("list")
          \/ \E k \in DOMAIN attrs : k # "headers" /\ f["process"] = attrs[k]
  <2>1. /\ DOMAIN f = Slots
        /\ f["level"] = Plain(LevelNames[level]) /\ f["message"] = message /\ f["details"] = d
    BY DEF Slots
  <2>2. f["traceID"] = Plain("") \/ ("traceID" \in DOMAIN attrs /\ f["traceID"] = attrs["traceID"])
    BY DEF Given
  <2>3. f["spanID"] = Plain("") \/ ("spanID" \in DOMAIN attrs /\ f["spanID"] = attrs["spanID"])
    BY DEF Given
  <2>4. f["process"] = Given(attrs, S, IsList, Plain("list")) /\ S # "headers"
    OBVIOUS
  <2>5. \/ f["process"] = Plain("list")
        \/ \E k \in DOMAIN attrs : k # "headers" /\ f["process"] = attrs[k]
    <3> HIDE DEF f, S
    <3> QED  BY <2>4 DEF Given
  <2> QED  BY <2>1, <2>2, <2>3, <2>5
<1> HIDE DEF f
<1>13. ASSUME NEW k \in DOMAIN f PROVE IsTree(f[k]) /\ ~CarriesIgnored(f[k])
  <2>1. CASE k = "level"
    <3>1. LevelNames[level] \in Words
      BY DEF Words, Levels
    <3> QED  BY <1>12, <2>1, <3>1, PlainTree
  <2>2. CASE k = "message"
    BY <1>12, <2>2, StringsCarryNone
  <2>3. CASE k = "details"
    BY <1>11, <1>12, <2>3
  <2>4. "" \in Words /\ "list" \in Words
    BY DEF Words, Branches
  <2>5. CASE k \in {"traceID", "spanID", "process"}
    <3>1. \/ f[k] = Plain("") \/ f[k] = Plain("list")
          \/ \E j \in DOMAIN attrs : j # "headers" /\ f[k] = attrs[j]
      BY <1>12, <2>5
    <3> QED  BY <1>4, <1>5, <2>4, <3>1, PlainTree
  <2> QED  BY <1>12, <2>1, <2>2, <2>3, <2>5 DEF Slots
<1>14. IsRecord(f)
  <2>1. DOMAIN f \subseteq Words
    BY <1>12 DEF Words
  <2> QED  BY <1>13, <2>1 DEF IsRecord
<1>15. GrowsFrom(e, "record", f)
  BY <1>2, <1>14, GrownIs
<1> HIDE DEF e
<1>16. ~CarriesIgnored(e)
  <2> SUFFICES ASSUME NEW p \in DOMAIN e, Ignored(e, p) PROVE FALSE
    BY DEF CarriesIgnored
  <2>1. PICK k \in DOMAIN f : \E r \in DOMAIN f[k] : p = <<k>> \o r
    BY <1>15 DEF GrowsFrom, Ignored
  <2>2. PICK r \in DOMAIN f[k] : p = <<k>> \o r
    BY <2>1
  <2>3. k \in Words /\ k # "headers" /\ IsTree(f[k]) /\ ~CarriesIgnored(f[k])
    BY <1>12, <1>13, <1>14 DEF IsRecord, Slots
  <2>4. Root(e) = "record" /\ \A x \in DOMAIN f[k] : e[<<k>> \o x] = f[k][x]
    BY <1>15 DEF GrowsFrom
  <2>5. Ignored(e, <<k>> \o r) <=> Ignored(f[k], r)
    BY <2>3, <2>4, IgnoredBelow
  <2> QED  BY <2>2, <2>3, <2>5 DEF CarriesIgnored
<1>17. IsTree(e)
  BY <1>15 DEF GrowsFrom
<1> QED  BY <1>1, <1>16, <1>17

(* An entry is a tree that shows nothing sensitive.                        *)
LEMMA EntryIsClean ==
  ASSUME NEW level \in Levels, NEW message, IsTree(message), IsString(message),
         NEW attrs, IsRecord(attrs)
  PROVE  LET w == Redact(BuildEntry(level, message, OmitHeaders(attrs)))
         IN  IsTree(w) /\ ~Shows(w) /\ ~CarriesIgnored(w)
<1> DEFINE v == BuildEntry(level, message, OmitHeaders(attrs))
           w == Redact(v)
<1>1. IsTree(v) /\ ~CarriesIgnored(v)
  <2>1. IsRecord(OmitHeaders(attrs)) /\ ~CarriesIgnored(Grown("record", OmitHeaders(attrs)))
    BY OmittedCarriesNone
  <2> QED  BY <2>1, EntryCarriesNone
<1> HIDE DEF v
<1>2. Thinned(w, v) /\ ~Shows(w)
  BY <1>1, RedactThins
<1> HIDE DEF w
<1>3. IsTree(w) /\ \A p \in DOMAIN w : Ignored(w, p) => Ignored(v, p)
  BY <1>1, <1>2, ThinnedTree
<1>4. ~CarriesIgnored(w)
  BY <1>1, <1>2, <1>3 DEF CarriesIgnored, Thinned
<1> QED  BY <1>2, <1>3, <1>4 DEF v, w


-----------------------------------------------------------------------------
(* The logger: its lines.                                                  *)

Trees   == {v \in UNION {[P -> Words] : P \in SUBSET Path} : IsTree(v)}
Records == UNION {[K -> Trees] : K \in SUBSET Words}

\* What loggers add to every line is a record, and the lines are clean.
LoggingInv ==
  /\ base \in Seq(Records) /\ lines \in Seq(Trees)
  /\ NothingSensitiveWritten

LEMMA TreesAreTrees ==
  /\ \A v : IsTree(v) => v \in Trees
  /\ \A f \in Records : IsRecord(f)
  /\ \A f, g : IsRecord(f) /\ IsRecord(g) => Merged(f, g) \in Records
<1>1. ASSUME NEW v, IsTree(v) PROVE v \in Trees
  <2>1. v \in [DOMAIN v -> Words] /\ DOMAIN v \in SUBSET Path
    BY <1>1 DEF IsTree, Path
  <2>2. v \in UNION {[P -> Words] : P \in SUBSET Path}
    BY <2>1
  <2> QED  BY <1>1, <2>2 DEF Trees
<1>2. ASSUME NEW f \in Records PROVE IsRecord(f)
  <2>1. PICK K \in SUBSET Words : f \in [K -> Trees]
    BY DEF Records
  <2> QED  BY <2>1 DEF IsRecord, Trees
<1>3. ASSUME NEW f, NEW g, IsRecord(f), IsRecord(g) PROVE Merged(f, g) \in Records
  <2> DEFINE m == Merged(f, g)
  <2>1. /\ DOMAIN m = DOMAIN f \cup DOMAIN g
        /\ m = [k \in DOMAIN m |-> m[k]]
        /\ \A k \in DOMAIN m : m[k] = IF k \in DOMAIN f THEN f[k] ELSE g[k]
    BY DEF Merged
  <2> HIDE DEF m
  <2>2. DOMAIN m \in SUBSET Words
    BY <1>3, <2>1 DEF IsRecord
  <2>3. ASSUME NEW k \in DOMAIN m PROVE m[k] \in Trees
    <3>1. IsTree(m[k])
      BY <1>3, <2>1 DEF IsRecord
    <3> QED  BY <1>1, <3>1
  <2>4. m \in [DOMAIN m -> Trees]
    BY <2>1, <2>3
  <2> QED  BY <2>2, <2>4 DEF Records, m
<1> QED  BY <1>1, <1>2, <1>3

LEMMA LoggingInvInit == LoggingInit => LoggingInv
<1> SUFFICES ASSUME LoggingInit PROVE LoggingInv
  OBVIOUS
<1>1. << >> \in Records
  <2>1. << >> \in [{} -> Trees]
    OBVIOUS
  <2> QED  BY <2>1 DEF Records
<1>2. base \in Seq(Records)
  <2>1. ASSUME NEW S, NEW e \in S PROVE <<e>> \in Seq(S)
    OBVIOUS
  <2> QED  BY <1>1, <2>1 DEF LoggingInit
<1>3. lines \in Seq(Trees) /\ DOMAIN lines = {}
  BY EmptySeq DEF LoggingInit
<1> QED  BY <1>2, <1>3 DEF LoggingInv, NothingSensitiveWritten

LEMMA LoggingInvNext == LoggingInv /\ [LoggingNext]_loggingVars => LoggingInv'
<1> SUFFICES ASSUME LoggingInv, [LoggingNext]_loggingVars PROVE LoggingInv'
  OBVIOUS
<1>1. /\ base \in Seq(Records) /\ lines \in Seq(Trees) /\ NothingSensitiveWritten
      /\ \A i \in DOMAIN base : base[i] \in Records
      /\ \A attrs \in Attributes : IsRecord(attrs)
  <2>1. DOMAIN base = 1 .. Len(base) /\ base \in Seq(Records)
    BY LenProperties DEF LoggingInv
  <2>2. \A i \in DOMAIN base : base[i] \in Records
    BY <2>1, ElementOfSeq
  <2> QED  BY <2>2, LoggingAssumption DEF LoggingInv, IsRecord
<1>2. ASSUME SwitchTestMode \/ UNCHANGED loggingVars PROVE LoggingInv'
  BY <1>1, <1>2 DEF SwitchTestMode, loggingVars, LoggingInv, NothingSensitiveWritten
<1>3. ASSUME NEW i \in DOMAIN base, With(i) PROVE LoggingInv'
  <2>1. PICK attrs \in Attributes : base' = Append(base, Merged(attrs, base[i]))
    BY <1>3 DEF With
  <2>2. Merged(attrs, base[i]) \in Records
    BY <1>1, TreesAreTrees
  <2>3. base' \in Seq(Records)
    BY <1>1, <2>1, <2>2, AppendProperties
  <2>4. lines' = lines
    BY <1>3 DEF With
  <2> QED  BY <1>1, <2>3, <2>4 DEF LoggingInv, NothingSensitiveWritten
<1>4. ASSUME NEW i \in DOMAIN base, Log(i) PROVE LoggingInv'
  <2>1. base' = base
    BY <1>4 DEF Log
  <2>2. PICK level \in Levels, attrs \in Attributes :
          \E message \in {Plain("m")} \cup {attrs[k] : k \in DOMAIN attrs} :
            /\ IsString(message)
            /\ lines' = IF Enabled(level) THEN Append(lines, Entry(i, level, message, attrs)) ELSE lines
    BY <1>4 DEF Log
  <2>3. PICK message \in {Plain("m")} \cup {attrs[k] : k \in DOMAIN attrs} :
          /\ IsString(message)
          /\ lines' = IF Enabled(level) THEN Append(lines, Entry(i, level, message, attrs)) ELSE lines
    BY <2>2
  <2>4. IsTree(message)
    <3>1. IsTree(Plain("m"))
      <4>1. "m" \in Words
        BY DEF Words
      <4> QED  BY <4>1, PlainTree
    <3>2. \A k \in DOMAIN attrs : IsTree(attrs[k])
      BY <1>1 DEF IsRecord
    <3> QED  BY <3>1, <3>2
  <2>5. IsRecord(Merged(attrs, base[i]))
    BY <1>1, TreesAreTrees
  <2> DEFINE w == Entry(i, level, message, attrs)
  <2>6. IsTree(w) /\ ~Shows(w) /\ ~CarriesIgnored(w)
    BY <2>3, <2>4, <2>5, EntryIsClean DEF Entry
  <2> HIDE DEF w
  <2>7. w \in Trees
    BY <2>6, TreesAreTrees
  <2>8. CASE lines' = lines
    BY <1>1, <2>1, <2>8 DEF LoggingInv, NothingSensitiveWritten
  <2>9. CASE lines' = Append(lines, w)
    <3>1. /\ lines' \in Seq(Trees) /\ Len(lines') = Len(lines) + 1
          /\ \A n \in 1 .. Len(lines) : lines'[n] = lines[n]
          /\ lines'[Len(lines) + 1] = w
      BY <1>1, <2>7, <2>9, AppendProperties
    <3>2. DOMAIN lines = 1 .. Len(lines) /\ DOMAIN lines' = 1 .. Len(lines') /\ Len(lines) \in Nat
      BY <1>1, <3>1, LenProperties
    <3>3. ASSUME NEW n \in DOMAIN lines' PROVE ~Shows(lines'[n]) /\ ~CarriesIgnored(lines'[n])
      <4>1. n \in DOMAIN lines \/ n = Len(lines) + 1
        BY <3>1, <3>2
      <4>2. CASE n \in DOMAIN lines
        <5>1. lines'[n] = lines[n]
          BY <3>1, <3>2, <4>2
        <5> QED  BY <1>1, <4>2, <5>1 DEF NothingSensitiveWritten
      <4>3. CASE n = Len(lines) + 1
        BY <2>6, <3>1, <4>3
      <4> QED  BY <4>1, <4>2, <4>3
    <3>4. NothingSensitiveWritten'
      BY <3>3 DEF NothingSensitiveWritten
    <3> QED  BY <1>1, <2>1, <3>1, <3>4 DEF LoggingInv
  <2> QED  BY <2>3, <2>8, <2>9 DEF w
<1> QED  BY <1>2, <1>3, <1>4 DEF LoggingNext

(***************************************************************************)
(* No line shows the value of a sensitive key above the sanitizer's limit, *)
(* or an ignored header, whatever the attributes, the keys, the ignored    *)
(* headers and the limit are, for any number of loggers and lines; but for *)
(* JSON in the values of a Headers object that the sanitizer meets as one, *)
(* and for headers in an object that is not plain (#log,                   *)
(* omitIgnoredHeaders, #redact).                                           *)
(***************************************************************************)
THEOREM NothingSensitiveIsWritten == LoggingSpec => []NothingSensitiveWritten
<1>1. LoggingInv => NothingSensitiveWritten
  BY DEF LoggingInv
<1> QED  BY <1>1, LoggingInvInit, LoggingInvNext, PTL DEF LoggingSpec


-----------------------------------------------------------------------------
(* The process: the parts in any interleaving.                             *)

ProcessInit == ConfigInit /\ ServicesInit /\ KmsInit /\ CryptoInit /\ LoggingInit

ProcessNext ==
  \/ ConfigNext   /\ UNCHANGED <<serviceVars, kmsVars, cryptoVars, loggingVars>>
  \/ ServicesNext /\ UNCHANGED <<configVars, kmsVars, cryptoVars, loggingVars>>
  \/ KmsNext      /\ UNCHANGED <<configVars, serviceVars, cryptoVars, loggingVars>>
  \/ CryptoNext   /\ UNCHANGED <<configVars, serviceVars, kmsVars, loggingVars>>
  \/ LoggingNext  /\ UNCHANGED <<configVars, serviceVars, kmsVars, cryptoVars>>

processVars == <<configVars, serviceVars, kmsVars, cryptoVars, loggingVars>>
ProcessSpec == ProcessInit /\ [][ProcessNext]_processVars

(***************************************************************************)
(* What Platform follows, one part at a time, a process may do.            *)
(***************************************************************************)
THEOREM PlatformIsAProcess == Spec => ProcessSpec
<1>1. Init => ProcessInit
  BY DEF Init, ProcessInit
<1>2. [Next]_vars => [ProcessNext]_processVars
  BY DEF Next, vars, ProcessNext, processVars
<1> QED  BY <1>1, <1>2, PTL DEF Spec, ProcessSpec

(***************************************************************************)
(* A process is a behaviour of each of its parts, however their steps are  *)
(* interleaved: no handler of one touches the state of another.            *)
(***************************************************************************)
THEOREM PartsOfTheProcess ==
  ProcessSpec => ConfigSpec /\ KmsSpec /\ CryptoSpec /\ ServicesSpec /\ LoggingSpec
<1>1. ProcessInit => ConfigInit /\ KmsInit /\ CryptoInit /\ ServicesInit /\ LoggingInit
  BY DEF ProcessInit
<1>2. ASSUME [ProcessNext]_processVars
      PROVE  /\ [ConfigNext]_configVars /\ [KmsNext]_kmsVars /\ [CryptoNext]_cryptoVars
             /\ [ServicesNext]_serviceVars /\ [LoggingNext]_loggingVars
  BY <1>2 DEF ProcessNext, processVars
<1> QED
  BY <1>1, <1>2, PTL DEF ProcessSpec, ConfigSpec, KmsSpec, CryptoSpec, ServicesSpec, LoggingSpec

(***************************************************************************)
(* All the invariants of the parts hold side by side in the process, in    *)
(* every interleaving of its loads, requests, calls and lines.             *)
(***************************************************************************)
THEOREM ProcessKeepsItsPromises ==
  ProcessSpec => [](/\ ReloadsAgree /\ OneClientServesAll /\ OpensOnlyAsSealed
                    /\ RunsWithItsOwnClaims /\ ToldAlike /\ NothingSensitiveWritten)
BY PartsOfTheProcess, LoadsAgree, OneClient, OpensAsSealed, OwnClaims, AllToldAlike,
   NothingSensitiveIsWritten, PTL
=============================================================================
