------------------------------ MODULE FileSink ------------------------------
(***************************************************************************)
(* src/logger/sink/file.ts: the synchronous file sink, its rotation, the   *)
(* retention of backups, and their compression in the background.          *)
(*                                                                         *)
(* One call of the sink is synchronous and is one action.  compressBackup  *)
(* is asynchronous: each file operation it awaits is an action.  A line is *)
(* its number; the file system is external and may fail any operation.     *)
(* A backup is named by the time of its rotation, in clock ticks.          *)
(***************************************************************************)
EXTENDS Integers, FiniteSetsExt

CONSTANTS
  Sizes,       \* the sizes of lines
  MaxSize,     \* maxSizeBytes; larger than any file if rotation is off
  MaxBackups,  \* maxBackups; 0 keeps all
  MaxAge,      \* maxAge, in clock ticks; 0 disables expiry
  Compress,    \* compress
  Tee,         \* whether there is a tee
  MaxLines,    \* bound on the lines logged
  MaxTime,     \* bound on the clock
  MaxFaults    \* bound on the failures of the file system

ASSUME SinkAssumption ==
  /\ Sizes \subseteq Nat \ {0} /\ MaxSize \in Nat \ {0} /\ MaxTime \in Nat \ {0}
  /\ {MaxBackups, MaxAge, MaxLines, MaxFaults} \subseteq Nat
  /\ {Compress, Tee} \subseteq BOOLEAN

VARIABLES
  active,            \* state.active
  currentSize,       \* state.currentSize
  lastRotationTime,  \* state.lastRotationTime
  log,               \* the active file: its lines, size and time of change
  backups,           \* the files listBackups would list
  jobs,              \* the calls of compressBackup under way
  count,             \* how many lines have been logged
  filed,             \* the lines the sink has taken for written to the file
  shown,             \* the lines given to the tee or the console
  expired,           \* history: the lines of the backups retention removed
  now,               \* external: the clock
  faults             \* external: how many operations have failed

sinkVars == <<active, currentSize, lastRotationTime>>
lineVars == <<count, filed, shown>>
diskVars == <<log, backups, expired>>
vars == <<sinkVars, lineVars, diskVars, jobs, now, faults>>

Backup(at, kind, lines, modified) ==
  [at |-> at, kind |-> kind, lines |-> lines, modified |-> modified]

Named(at, kind) == {b \in backups : b.at = at /\ b.kind = kind}

-----------------------------------------------------------------------------
(* pruneBackups on the files F, of which those of R cannot be removed (all *)
(* of them, if the directory cannot be read): what it tries to remove      *)
(* first for its age, and then for the number, oldest change first.        *)
Old(F) == {b \in F : MaxAge > 0 /\ b.modified < now - MaxAge}

SurplusKeepingOneMore(F) ==
  IF MaxBackups = 0 \/ Cardinality(F) <= MaxBackups THEN {{}}
  ELSE {D \in kSubset(Cardinality(F) - MaxBackups - 1, F) :
          \A d \in D, k \in F \ D : d.modified <= k.modified}

Surplus(F) ==
  IF MaxBackups = 0 \/ Cardinality(F) <= MaxBackups THEN {{}}
  ELSE {D \in kSubset(Cardinality(F) - MaxBackups, F) :
          \A d \in D, k \in F \ D : d.modified <= k.modified}

Prune(F, R) ==
  LET aged == Old(F) \ R
  IN \E D \in Surplus(F \ aged) :
       LET gone == aged \cup (D \ R)
       IN /\ backups' = F \ gone
          /\ expired' = expired \cup UNION {b.lines : b \in gone}

(* The sets of files a prune may fail to remove.                           *)
Irremovable(F) == IF faults < MaxFaults THEN SUBSET F ELSE {{}}

Fault == faults < MaxFaults /\ faults' = faults + 1

-----------------------------------------------------------------------------
(* newFileSink in an empty directory.                                      *)
Init ==
  /\ active = TRUE /\ currentSize = 0 /\ lastRotationTime = 0
  /\ log = [lines |-> {}, bytes |-> 0, modified |-> 1]
  /\ backups = {} /\ jobs = {} /\ expired = {}
  /\ count = 0 /\ filed = {} /\ shown = {}
  /\ now = 1 /\ faults = 0

(* The end of a call of the sink, ok if the line went to the file.         *)
Deliver(ok) ==
  /\ count' = count + 1
  /\ filed' = IF ok THEN filed \cup {count'} ELSE filed
  /\ shown' = IF Tee \/ ~ok THEN shown \cup {count'} ELSE shown

(* appendBytes of n bytes, on the file as it is then.                      *)
Append(file, n) ==
  /\ log' = [lines |-> file.lines \cup {count + 1}, bytes |-> file.bytes + n, modified |-> now]
  /\ currentSize' = file.bytes + n

(* A failed append may have written a part; the sink gives the file up.    *)
AppendFails(file, n) ==
  /\ Fault
  /\ \E k \in 0 .. n : log' = [file EXCEPT !.bytes = @ + k]
  /\ active' = FALSE

CrossesLimit(n) == currentSize > 0 /\ currentSize + n > MaxSize

(* nextBackupPath: the first name, from the clock or from one after the    *)
(* last name on, that no plain backup has.                                 *)
NextBackupTimeUnchecked == now

NextBackupTime ==
  LET from == Max({now, lastRotationTime + 1})
  IN  Min({t \in from .. from + Cardinality(backups) : Named(t, "log") = {}})

(* renameSync of the active file.                                          *)
Renamed == (backups \ Named(NextBackupTime, "log"))
             \cup {Backup(NextBackupTime, "log", log.lines, log.modified)}

EmptyFile == [lines |-> {}, bytes |-> 0, modified |-> now]

(* The sink has given its file up.                                         *)
WriteWithoutFile ==
  /\ count < MaxLines /\ ~active
  /\ Deliver(FALSE)
  /\ UNCHANGED <<sinkVars, diskVars, jobs, now, faults>>

Write(n) ==
  /\ count < MaxLines /\ active /\ ~CrossesLimit(n)
  /\ \/ /\ Append(log, n) /\ Deliver(TRUE)
        /\ UNCHANGED <<active, faults>>
     \/ /\ AppendFails(log, n) /\ Deliver(FALSE)
        /\ UNCHANGED currentSize
  /\ UNCHANGED <<lastRotationTime, backups, expired, jobs, now>>

(* rotateActiveFile, then the append.                                      *)
WriteRotating(n) ==
  /\ count < MaxLines /\ active /\ CrossesLimit(n)
  /\ lastRotationTime' = NextBackupTime
  /\ jobs' = IF Compress
               THEN jobs \cup {[at |-> NextBackupTime, stage |-> "queued", lines |-> {}, modified |-> 0]}
               ELSE jobs
  /\ \/ /\ \E R \in Irremovable(Renamed) :
             /\ Prune(Renamed, R)
             /\ faults' = IF R = {} THEN faults ELSE faults + 1
        /\ Append(EmptyFile, n) /\ Deliver(TRUE)
        /\ UNCHANGED active
     \/ /\ Prune(Renamed, {})
        /\ AppendFails(EmptyFile, n) /\ Deliver(FALSE)
        /\ currentSize' = 0
  /\ UNCHANGED now

(* The rotation itself fails: the rename, or, after it, prepareActiveFile. *)
RotationFails(n) ==
  /\ count < MaxLines /\ active /\ CrossesLimit(n)
  /\ Fault
  /\ active' = FALSE
  /\ lastRotationTime' = NextBackupTime
  /\ \/ UNCHANGED <<log, backups>>
     \/ backups' = Renamed /\ log' = EmptyFile
  /\ Deliver(FALSE)
  /\ UNCHANGED <<currentSize, expired, jobs, now>>

-----------------------------------------------------------------------------
JobEnds(j) == jobs' = jobs \ {j}
JobGoesOn(j, k) == jobs' = (jobs \ {j}) \cup {k}

(* compressBackup rejects: the failure is reported, and nothing is pruned. *)
(* What has been written to the temporary file is removed.                 *)
CompressFails(j) ==
  /\ j \in jobs /\ j.stage # "removed"
  /\ Fault
  /\ JobEnds(j)
  /\ UNCHANGED <<sinkVars, lineVars, diskVars, now>>

(* readFile; the backup may be gone by now.                                *)
CompressReads(j) ==
  /\ j \in jobs /\ j.stage = "queued"
  /\ \/ /\ Named(j.at, "log") = {}
        /\ JobEnds(j)
     \/ \E b \in Named(j.at, "log") :
          JobGoesOn(j, [j EXCEPT !.stage = "read", !.lines = b.lines])
  /\ UNCHANGED <<sinkVars, lineVars, diskVars, now, faults>>

(* writeFile of the temporary file, whose name is not that of a backup.    *)
CompressWrites(j) ==
  /\ j \in jobs /\ j.stage = "read"
  /\ JobGoesOn(j, [j EXCEPT !.stage = "written", !.modified = now])
  /\ UNCHANGED <<sinkVars, lineVars, diskVars, now, faults>>

CompressRenames(j) ==
  /\ j \in jobs /\ j.stage = "written"
  /\ backups' = (backups \ Named(j.at, "gz")) \cup {Backup(j.at, "gz", j.lines, j.modified)}
  /\ JobGoesOn(j, [j EXCEPT !.stage = "renamed"])
  /\ UNCHANGED <<sinkVars, lineVars, log, expired, now, faults>>

(* remove of the plain backup; it fails if retention was there before.     *)
CompressRemoves(j) ==
  /\ j \in jobs /\ j.stage = "renamed"
  /\ IF Named(j.at, "log") = {} THEN JobEnds(j) ELSE JobGoesOn(j, [j EXCEPT !.stage = "removed"])
  /\ backups' = backups \ Named(j.at, "log")
  /\ UNCHANGED <<sinkVars, lineVars, log, expired, now, faults>>

(* ... and only if that succeeded, pruneBackups.                           *)
CompressPrunes(j) ==
  /\ j \in jobs /\ j.stage = "removed"
  /\ \E R \in Irremovable(backups) :
       /\ Prune(backups, R)
       /\ faults' = IF R = {} THEN faults ELSE faults + 1
  /\ JobEnds(j)
  /\ UNCHANGED <<sinkVars, lineVars, log, now>>

-----------------------------------------------------------------------------
(* external: the process ends, and the next one makes the sink again, with *)
(* or without a file.  By then the clock has passed every name given out.  *)
Restart ==
  /\ now > lastRotationTime
  /\ \/ active' = TRUE /\ currentSize' = log.bytes /\ UNCHANGED faults
     \/ active' = FALSE /\ currentSize' = 0 /\ Fault
  /\ lastRotationTime' = 0
  /\ jobs' = {}
  /\ UNCHANGED <<lineVars, diskVars, now>>

(* external.                                                               *)
Tick ==
  /\ now < MaxTime
  /\ now' = now + 1
  /\ UNCHANGED <<sinkVars, lineVars, diskVars, jobs, faults>>

CompressStep(j) ==
  \/ CompressFails(j) \/ CompressReads(j) \/ CompressWrites(j)
  \/ CompressRenames(j) \/ CompressRemoves(j) \/ CompressPrunes(j)

Next ==
  \/ WriteWithoutFile
  \/ \E n \in Sizes : Write(n) \/ WriteRotating(n) \/ RotationFails(n)
  \/ \E j \in jobs : CompressStep(j)
  \/ Restart
  \/ Tick

Spec == Init /\ [][Next]_vars

-----------------------------------------------------------------------------
Lines == 1 .. MaxLines
Stages == {"queued", "read", "written", "renamed", "removed"}

(* The type of the state; two files of one name have the same lines, and a *)
(* name is compressed by one job at a time.                                *)
SinkTypeOK ==
  /\ active \in BOOLEAN /\ currentSize \in Nat /\ lastRotationTime \in Nat
  /\ log.lines \subseteq Lines /\ log.bytes \in Nat /\ log.modified \in 0 .. MaxTime
  /\ \A b \in backups :
       b.at \in Nat /\ b.kind \in {"log", "gz"} /\ b.lines \subseteq Lines /\ b.modified \in 0 .. MaxTime
  /\ \A b, c \in backups : b.at = c.at => b.lines = c.lines /\ (b.kind = c.kind => b = c)
  /\ \A j \in jobs : j.at \in Nat /\ j.stage \in Stages /\ j.lines \subseteq Lines
  /\ \A j, k \in jobs : j.at = k.at => j = k
  /\ count \in 0 .. MaxLines /\ {filed, shown, expired} \subseteq SUBSET Lines
  /\ now \in 0 .. MaxTime /\ faults \in 0 .. MaxFaults

(* No line is lost to a rotation, a compression or a restart, whatever     *)
(* fails.  What the sink does not take for written it has shown; what it   *)
(* does is in the active file or in a backup, unless retention has removed *)
(* that.                                                                   *)
NoLineLost ==
  /\ 1 .. count \subseteq filed \cup shown
  /\ filed \subseteq log.lines \cup (UNION {b.lines : b \in backups}) \cup expired

(* The cached size is that of the file, so the file passes the limit only  *)
(* for a line that is larger than the limit by itself.                     *)
ActiveWithinLimit ==
  /\ active => currentSize = log.bytes
  /\ log.bytes <= MaxSize \/ Cardinality(log.lines) <= 1

(* Retention is exact: a rotation in which nothing failed leaves no more   *)
(* backups than maxBackups, and whoever prunes for the number leaves as    *)
(* many, whatever compressions are in flight.                              *)
RetentionExact ==
  [][/\ lastRotationTime' > lastRotationTime /\ active' /\ faults' = faults /\ MaxBackups > 0
          => Cardinality(backups') <= MaxBackups
     /\ expired' # expired
          => \/ Cardinality(backups') >= MaxBackups
             \/ backups \ backups' \subseteq Old(backups)]_vars
=============================================================================
