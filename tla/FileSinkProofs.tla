--------------------------- MODULE FileSinkProofs ---------------------------
(***************************************************************************)
(* Proofs about FileSink for any sizes, limits and numbers of lines, ticks *)
(* and failures: no line is lost, the active file keeps to its limit, and  *)
(* retention is exact.                                                     *)
(***************************************************************************)
EXTENDS FileSink, FiniteSetTheorems, TLAPS

BackupFiles == [at : Nat, kind : {"log", "gz"}, lines : SUBSET Lines, modified : 0 .. MaxTime]
CompressJobs == [at : Nat, stage : Stages, lines : SUBSET Lines, modified : 0 .. MaxTime]
LogFiles == [lines : SUBSET Lines, bytes : Nat, modified : 0 .. MaxTime]

(* A name with the time a that nextBackupPath will not give out again.     *)
Used(a, last, time) == a <= last \/ a < time

(* The backups B and the jobs J have used names; a name is one backup, in  *)
(* at most two kinds, and one job.                                         *)
NamesInv(B, J, last, time) ==
  /\ B \subseteq BackupFiles /\ IsFiniteSet(B)
  /\ J \subseteq CompressJobs
  /\ \A b \in B : Used(b.at, last, time)
  /\ \A j \in J : Used(j.at, last, time)
  /\ \A b, c \in B : b.at = c.at => b.lines = c.lines /\ (b.kind = c.kind => b = c)
  /\ \A j, k \in J : j.at = k.at => j = k

(* A job that has read its backup holds its lines, and when it is about to *)
(* remove the backup, these are in the compressed file, unless retention   *)
(* has removed that already.                                               *)
JobsInv(B, J, E) ==
  /\ \A j \in J, b \in B : b.at = j.at /\ j.stage # "queued" => b.lines = j.lines
  /\ \A j \in J : j.stage = "renamed" =>
       (\E b \in B : b.at = j.at /\ b.kind = "gz") \/ j.lines \subseteq E

(* The active file: its cached size, its limit, and that a line takes room.*)
LogInv ==
  /\ log \in LogFiles /\ active \in BOOLEAN /\ currentSize \in Nat
  /\ log.bytes = 0 => log.lines = {}
  /\ ActiveWithinLimit

(* The remaining types, and where the lines are.                           *)
LineInv ==
  /\ lastRotationTime \in Nat /\ now \in 1 .. MaxTime /\ faults \in 0 .. MaxFaults
  /\ count \in 0 .. MaxLines
  /\ filed \subseteq Lines /\ shown \subseteq Lines /\ expired \subseteq Lines
  /\ NoLineLost

SinkInv ==
  /\ NamesInv(backups, jobs, lastRotationTime, now)
  /\ JobsInv(backups, jobs, expired)
  /\ LogInv
  /\ LineInv

AllLines(B) == UNION {b.lines : b \in B}

-----------------------------------------------------------------------------
(* newFileSink in an empty directory satisfies the invariant.              *)
LEMMA SinkStart == Init => SinkInv
<1> SUFFICES ASSUME Init PROVE SinkInv
  OBVIOUS
<1>1. NamesInv(backups, jobs, lastRotationTime, now) /\ JobsInv(backups, jobs, expired)
  BY FS_EmptySet DEF Init, NamesInv, JobsInv
<1>2. LogInv
  BY SinkAssumption, FS_EmptySet DEF Init, LogInv, LogFiles, ActiveWithinLimit
<1>3. LineInv
  BY SinkAssumption DEF Init, LineInv, NoLineLost
<1> QED  BY <1>1, <1>2, <1>3 DEF SinkInv

(* The name of a backup is new: it is later than every name in use, and    *)
(* is the clock's or one after the last.                                   *)
LEMMA NextName ==
  ASSUME SinkInv
  PROVE  /\ NextBackupTime \in Nat
         /\ NextBackupTime > lastRotationTime /\ NextBackupTime >= now
         /\ ~ Used(NextBackupTime, lastRotationTime, now)
         /\ Named(NextBackupTime, "log") = {}
<1> DEFINE from == Max({now, lastRotationTime + 1})
           free == {t \in from .. from + Cardinality(backups) : Named(t, "log") = {}}
<1>1. now \in Nat /\ lastRotationTime \in Nat /\ Cardinality(backups) \in Nat
  BY SinkAssumption, FS_CardinalityType DEF SinkInv, LineInv, NamesInv
<1>2. /\ from \in {now, lastRotationTime + 1}
      /\ from >= now /\ from >= lastRotationTime + 1
  <2>1. \E x \in {now, lastRotationTime + 1} : \A y \in {now, lastRotationTime + 1} : x >= y
    BY <1>1
  <2> QED  BY <2>1 DEF Max
<1>3. from \in Nat /\ ~ Used(from, lastRotationTime, now)
  BY <1>1, <1>2 DEF Used
<1>4. Named(from, "log") = {}
  BY <1>3 DEF SinkInv, NamesInv, Named
<1> HIDE DEF from
<1>5. from \in free /\ \A t \in free : from <= t
  BY <1>1, <1>3, <1>4
<1>6. Min(free) \in free /\ Min(free) <= from
  BY <1>5 DEF Min
<1>7. Min(free) = from
  BY <1>5, <1>6, <1>3, <1>1
<1>8. NextBackupTime = from
  BY <1>7 DEF NextBackupTime, from
<1> QED  BY <1>1, <1>2, <1>3, <1>4, <1>8

(* The files pruneBackups leaves are some of those it found; the lines of  *)
(* the others go to expired.                                               *)
LEMMA PruneEffect ==
  ASSUME NEW F, NEW R, Prune(F, R)
  PROVE  /\ backups' \subseteq F
         /\ expired' = expired \cup AllLines(F \ backups')
<1>1. PICK D \in Surplus(F \ (Old(F) \ R)) :
        LET gone == (Old(F) \ R) \cup (D \ R)
        IN /\ backups' = F \ gone
           /\ expired' = expired \cup UNION {b.lines : b \in gone}
  BY DEF Prune
<1>2. D \subseteq F
  BY DEF Surplus, kSubset
<1>3. Old(F) \subseteq F
  BY DEF Old
<1>4. F \ backups' = (Old(F) \ R) \cup (D \ R)
  BY <1>1, <1>2, <1>3
<1> QED  BY <1>1, <1>4 DEF AllLines

(* Removing backups whose lines expire keeps what the jobs rely on.        *)
LEMMA PruneKeeps ==
  ASSUME NEW F, NEW J, NEW E, NEW last, NEW time, NEW B \in SUBSET F,
         NamesInv(F, J, last, time), JobsInv(F, J, E)
  PROVE  NamesInv(B, J, last, time) /\ JobsInv(B, J, E \cup AllLines(F \ B))
<1>1. NamesInv(B, J, last, time)
  BY FS_Subset DEF NamesInv
<1>2. ASSUME NEW j \in J, j.stage = "renamed"
      PROVE  (\E b \in B : b.at = j.at /\ b.kind = "gz") \/ j.lines \subseteq E \cup AllLines(F \ B)
  <2>1. CASE j.lines \subseteq E
    BY <2>1
  <2>2. ASSUME NEW b \in F, b.at = j.at, b.kind = "gz"
        PROVE  b \in B \/ j.lines \subseteq AllLines(F \ B)
    <3>1. b.lines = j.lines
      BY <2>2, <1>2 DEF JobsInv
    <3> QED  BY <3>1 DEF AllLines
  <2> QED  BY <1>2, <2>1, <2>2 DEF JobsInv
<1>3. JobsInv(B, J, E \cup AllLines(F \ B))
  BY <1>2 DEF JobsInv
<1> QED  BY <1>1, <1>3

(* The lines on disk, or removed from it by retention.                     *)
Held == log.lines \cup AllLines(backups) \cup expired

(* The job that rotateActiveFile queues.                                   *)
NewJob == [at |-> NextBackupTime, stage |-> "queued", lines |-> {}, modified |-> 0]

(* renameSync under the new name, with or without a job for it.            *)
LEMMA RenameKeeps ==
  ASSUME SinkInv, NEW J, J = jobs \/ J = jobs \cup {NewJob}
  PROVE  /\ NamesInv(Renamed, J, NextBackupTime, now)
         /\ JobsInv(Renamed, J, expired)
         /\ AllLines(Renamed) = AllLines(backups) \cup log.lines
<1> DEFINE t == NextBackupTime
           new == Backup(t, "log", log.lines, log.modified)
<1>1. /\ t \in Nat /\ t > lastRotationTime /\ t >= now
      /\ ~ Used(t, lastRotationTime, now)
      /\ Renamed = backups \cup {new}
  BY NextName DEF Renamed
<1>2. new \in BackupFiles /\ new.at = t /\ new.kind = "log" /\ new.lines = log.lines
  BY <1>1 DEF SinkInv, LogInv, LogFiles, Backup, BackupFiles
<1>3. NewJob \in CompressJobs /\ NewJob.at = t /\ NewJob.stage = "queued"
  BY <1>1, SinkAssumption DEF NewJob, CompressJobs, Stages
<1>4. \A b \in backups : b.at \in Nat /\ b.at # t /\ Used(b.at, t, now)
  BY <1>1 DEF SinkInv, NamesInv, BackupFiles, Used, LineInv
<1>5. \A j \in jobs : j.at \in Nat /\ j.at # t /\ Used(j.at, t, now)
  BY <1>1 DEF SinkInv, NamesInv, CompressJobs, Used, LineInv
<1>6. Used(t, t, now)
  BY <1>1 DEF Used
<1> HIDE DEF t, new
<1>7. IsFiniteSet(Renamed)
  BY <1>1, FS_AddElement DEF SinkInv, NamesInv
<1>8. NamesInv(Renamed, J, t, now)
  BY <1>1, <1>2, <1>3, <1>4, <1>5, <1>6, <1>7 DEF SinkInv, NamesInv
<1>9. JobsInv(Renamed, J, expired)
  BY <1>1, <1>2, <1>3, <1>4, <1>5 DEF SinkInv, JobsInv
<1>10. AllLines(Renamed) = AllLines(backups) \cup log.lines
  BY <1>1, <1>2 DEF AllLines
<1> QED  BY <1>8, <1>9, <1>10 DEF t

-----------------------------------------------------------------------------
(* What a step does on disk keeps the names and the jobs in order, and no  *)
(* line leaves the disk but for retention.  One lemma for each kind.       *)
DiskKept ==
  /\ NamesInv(backups, jobs, lastRotationTime, now)'
  /\ JobsInv(backups, jobs, expired)'
  /\ Held \subseteq Held'
  /\ expired' \subseteq Lines

(* rotateActiveFile: the new backup has a new name, then retention.        *)
LEMMA WriteRotatingDisk ==
  ASSUME SinkInv, NEW n \in Sizes, WriteRotating(n)
  PROVE  DiskKept
<1>1. PICK R : Prune(Renamed, R)
  BY DEF WriteRotating
<1>2. /\ lastRotationTime' = NextBackupTime /\ now' = now
      /\ jobs' = jobs \/ jobs' = jobs \cup {NewJob}
  BY DEF WriteRotating, NewJob
<1>3. /\ NamesInv(Renamed, jobs', NextBackupTime, now)
      /\ JobsInv(Renamed, jobs', expired)
      /\ AllLines(Renamed) = AllLines(backups) \cup log.lines
  BY <1>2, RenameKeeps
<1>4. backups' \subseteq Renamed /\ expired' = expired \cup AllLines(Renamed \ backups')
  BY <1>1, PruneEffect
<1>5. NamesInv(backups', jobs', NextBackupTime, now) /\ JobsInv(backups', jobs', expired')
  BY <1>3, <1>4, PruneKeeps
<1>6. AllLines(Renamed) \subseteq AllLines(backups') \cup expired'
  BY <1>4 DEF AllLines
<1>7. AllLines(Renamed) \subseteq Lines
  BY <1>3 DEF AllLines, NamesInv, BackupFiles
<1>8. expired' \subseteq Lines
  BY <1>4, <1>7 DEF AllLines, SinkInv, LineInv
<1> QED  BY <1>2, <1>3, <1>4, <1>5, <1>6, <1>8 DEF DiskKept, Held, NamesInv, JobsInv

(* rotateActiveFile that throws, before or after renameSync.               *)
LEMMA RotationFailsDisk ==
  ASSUME SinkInv, NEW n \in Sizes, RotationFails(n)
  PROVE  DiskKept
<1>1. /\ lastRotationTime' = NextBackupTime /\ now' = now /\ jobs' = jobs /\ expired' = expired
      /\ expired \subseteq Lines
  BY DEF RotationFails, SinkInv, LineInv
<1>2. CASE UNCHANGED <<log, backups>>
  <2>1. \A a \in Nat : Used(a, lastRotationTime, now) => Used(a, NextBackupTime, now)
    BY NextName DEF Used, SinkInv, LineInv
  <2>2. NamesInv(backups, jobs, NextBackupTime, now)
    BY <2>1 DEF SinkInv, NamesInv, BackupFiles, CompressJobs
  <2> QED  BY <1>1, <1>2, <2>2 DEF DiskKept, Held, SinkInv, NamesInv, JobsInv, AllLines
<1>3. CASE backups' = Renamed
  <2>1. /\ NamesInv(Renamed, jobs, NextBackupTime, now)
        /\ JobsInv(Renamed, jobs, expired)
        /\ AllLines(Renamed) = AllLines(backups) \cup log.lines
    BY RenameKeeps
  <2> QED  BY <1>1, <1>3, <2>1 DEF DiskKept, Held, NamesInv, JobsInv, AllLines
<1> QED  BY <1>2, <1>3 DEF RotationFails

(* The pruneBackups that follows a compression.                            *)
LEMMA CompressPrunesDisk ==
  ASSUME SinkInv, NEW j \in jobs, CompressPrunes(j)
  PROVE  DiskKept
<1>1. PICK R : Prune(backups, R)
  BY DEF CompressPrunes
<1>2. jobs' = jobs \ {j} /\ UNCHANGED <<lastRotationTime, now, log>>
  BY DEF CompressPrunes, JobEnds, sinkVars
<1>3. backups' \subseteq backups /\ expired' = expired \cup AllLines(backups \ backups')
  BY <1>1, PruneEffect
<1>4. NamesInv(backups', jobs, lastRotationTime, now) /\ JobsInv(backups', jobs, expired')
  BY <1>3, PruneKeeps DEF SinkInv
<1>5. NamesInv(backups', jobs', lastRotationTime, now) /\ JobsInv(backups', jobs', expired')
  BY <1>2, <1>4 DEF NamesInv, JobsInv
<1>6. AllLines(backups) \subseteq AllLines(backups') \cup expired'
  BY <1>3 DEF AllLines
<1>7. expired' \subseteq Lines
  BY <1>3 DEF AllLines, SinkInv, LineInv, NamesInv, BackupFiles
<1> QED  BY <1>2, <1>3, <1>5, <1>6, <1>7 DEF DiskKept, Held, NamesInv, JobsInv

(* compressBackup before its rename touches nothing that is listed.        *)
LEMMA CompressReadsDisk ==
  ASSUME SinkInv, NEW j \in jobs, CompressReads(j) \/ CompressWrites(j) \/ CompressFails(j)
  PROVE  DiskKept
<1>1. UNCHANGED <<lastRotationTime, now, log, backups, expired>>
  BY DEF CompressReads, CompressWrites, CompressFails, sinkVars, diskVars
<1>2. CASE jobs' = jobs \ {j}
  BY <1>1, <1>2 DEF DiskKept, Held, SinkInv, NamesInv, JobsInv, AllLines, LineInv
<1>3. ASSUME NEW k \in CompressJobs, k.at = j.at, jobs' = (jobs \ {j}) \cup {k}, k.stage # "renamed",
             \A b \in backups : b.at = k.at => b.lines = k.lines
      PROVE  DiskKept
  BY <1>1, <1>3 DEF DiskKept, Held, SinkInv, NamesInv, JobsInv, AllLines, LineInv
<1>4. ASSUME NEW b \in Named(j.at, "log"), jobs' = (jobs \ {j}) \cup {[j EXCEPT !.stage = "read", !.lines = b.lines]}
      PROVE  DiskKept
  <2> DEFINE k == [j EXCEPT !.stage = "read", !.lines = b.lines]
  <2>1. j \in CompressJobs /\ b \in BackupFiles /\ b \in backups /\ b.at = j.at
    BY DEF SinkInv, NamesInv, Named
  <2>2. k \in CompressJobs /\ k.at = j.at /\ k.stage # "renamed" /\ k.lines = b.lines
    BY <2>1 DEF CompressJobs, BackupFiles, Stages
  <2>3. \A c \in backups : c.at = k.at => c.lines = k.lines
    BY <2>1, <2>2 DEF SinkInv, NamesInv
  <2> QED  BY <1>3, <1>4, <2>2, <2>3
<1>5. ASSUME j.stage = "read", jobs' = (jobs \ {j}) \cup {[j EXCEPT !.stage = "written", !.modified = now]}
      PROVE  DiskKept
  <2> DEFINE k == [j EXCEPT !.stage = "written", !.modified = now]
  <2>1. j \in CompressJobs /\ now \in 0 .. MaxTime
    BY SinkAssumption DEF SinkInv, NamesInv, LineInv
  <2>2. k \in CompressJobs /\ k.at = j.at /\ k.stage # "renamed" /\ k.lines = j.lines
    BY <2>1 DEF CompressJobs, Stages
  <2>3. \A c \in backups : c.at = k.at => c.lines = k.lines
    BY <1>5, <2>2 DEF SinkInv, JobsInv
  <2> QED  BY <1>3, <1>5, <2>2, <2>3
<1> QED  BY <1>2, <1>4, <1>5 DEF CompressReads, CompressWrites, CompressFails, JobEnds, JobGoesOn

(* compressBackup's rename replaces at most a file with the same lines.    *)
LEMMA CompressRenamesDisk ==
  ASSUME SinkInv, NEW j \in jobs, CompressRenames(j)
  PROVE  DiskKept
<1> DEFINE gz == Backup(j.at, "gz", j.lines, j.modified)
           k == [j EXCEPT !.stage = "renamed"]
<1>1. /\ j \in CompressJobs /\ j.stage = "written"
      /\ backups' = (backups \ Named(j.at, "gz")) \cup {gz}
      /\ jobs' = (jobs \ {j}) \cup {k}
      /\ UNCHANGED <<lastRotationTime, now, log, expired>>
  BY DEF CompressRenames, JobGoesOn, SinkInv, NamesInv, sinkVars
<1>2. gz \in BackupFiles /\ gz.at = j.at /\ gz.kind = "gz" /\ gz.lines = j.lines
  BY <1>1 DEF Backup, CompressJobs, BackupFiles
<1>3. k \in CompressJobs /\ k.at = j.at /\ k.lines = j.lines /\ k.stage = "renamed"
  BY <1>1 DEF CompressJobs, Stages
<1>4. \A b \in backups : b.at = j.at => b.lines = j.lines /\ b.kind \in {"log", "gz"}
  BY <1>1 DEF SinkInv, JobsInv, NamesInv, BackupFiles
<1>5. \A b \in backups : b \in Named(j.at, "gz") <=> b.at = j.at /\ b.kind = "gz"
  BY DEF Named
<1>6. IsFiniteSet(backups')
  <2>1. IsFiniteSet(backups \ Named(j.at, "gz"))
    BY FS_Difference DEF SinkInv, NamesInv
  <2> QED  BY <1>1, <2>1, FS_AddElement
<1> HIDE DEF gz, k
<1>7. NamesInv(backups', jobs', lastRotationTime, now)
  BY <1>1, <1>2, <1>3, <1>4, <1>5, <1>6 DEF SinkInv, NamesInv
<1>8. JobsInv(backups', jobs', expired)
  <2>1. ASSUME NEW i \in jobs', NEW b \in backups', b.at = i.at, i.stage # "queued"
        PROVE  b.lines = i.lines
    BY <1>1, <1>2, <1>3, <1>4, <2>1 DEF SinkInv, JobsInv, NamesInv
  <2>2. ASSUME NEW i \in jobs', i.stage = "renamed"
        PROVE  (\E b \in backups' : b.at = i.at /\ b.kind = "gz") \/ i.lines \subseteq expired
    BY <1>1, <1>2, <1>3, <1>5, <2>2 DEF SinkInv, JobsInv, NamesInv
  <2> QED  BY <2>1, <2>2 DEF JobsInv
<1>9. AllLines(backups) \subseteq AllLines(backups')
  BY <1>1, <1>2, <1>4, <1>5 DEF AllLines
<1> QED  BY <1>1, <1>7, <1>8, <1>9 DEF DiskKept, Held, NamesInv, JobsInv, SinkInv, LineInv

(* compressBackup's remove: the lines are in the compressed file by then.  *)
LEMMA CompressRemovesDisk ==
  ASSUME SinkInv, NEW j \in jobs, CompressRemoves(j)
  PROVE  DiskKept
<1> DEFINE k == [j EXCEPT !.stage = "removed"]
<1>1. /\ j \in CompressJobs /\ j.stage = "renamed"
      /\ backups' = backups \ Named(j.at, "log")
      /\ jobs' = jobs \ {j} \/ jobs' = (jobs \ {j}) \cup {k}
      /\ UNCHANGED <<lastRotationTime, now, log, expired>>
  BY DEF CompressRemoves, JobEnds, JobGoesOn, SinkInv, NamesInv, sinkVars
<1>2. k \in CompressJobs /\ k.at = j.at /\ k.lines = j.lines /\ k.stage = "removed"
  BY <1>1 DEF CompressJobs, Stages
<1>3. \A b \in backups : b \in Named(j.at, "log") <=> b.at = j.at /\ b.kind = "log"
  BY DEF Named
<1>4. \A b \in backups : b.at = j.at => b.lines = j.lines
  BY <1>1 DEF SinkInv, JobsInv
<1>5. IsFiniteSet(backups')
  BY <1>1, FS_Difference DEF SinkInv, NamesInv
<1> HIDE DEF k
<1>6. NamesInv(backups', jobs', lastRotationTime, now)
  BY <1>1, <1>2, <1>5 DEF SinkInv, NamesInv
<1>7. JobsInv(backups', jobs', expired)
  BY <1>1, <1>2, <1>3, <1>4 DEF SinkInv, JobsInv, NamesInv
<1>8. j.lines \subseteq AllLines(backups') \cup expired
  BY <1>1, <1>3, <1>4 DEF SinkInv, JobsInv, AllLines
<1>9. AllLines(backups) \subseteq AllLines(backups') \cup expired
  BY <1>1, <1>3, <1>4, <1>8 DEF AllLines
<1> QED  BY <1>1, <1>6, <1>7, <1>9 DEF DiskKept, Held, NamesInv, JobsInv, SinkInv, LineInv

(* The steps that leave the backups alone: a plain write, the clock, and a *)
(* restart, for which every name given out is older than the clock.        *)
LEMMA QuietDisk ==
  ASSUME SinkInv,
         \/ WriteWithoutFile \/ Restart \/ Tick \/ UNCHANGED vars
         \/ \E n \in Sizes : Write(n)
  PROVE  DiskKept
<1>1. backups' = backups /\ expired' = expired /\ expired \subseteq Lines
  BY DEF WriteWithoutFile, Write, Restart, Tick, diskVars, vars, SinkInv, LineInv
<1>2. jobs' = jobs \/ jobs' = {}
  BY DEF WriteWithoutFile, Write, Restart, Tick, vars
<1>3. log.lines \subseteq log'.lines
  <2>1. ASSUME NEW n \in Sizes, Write(n)
        PROVE  log.lines \subseteq log'.lines
    <3>1. CASE Append(log, n)
      BY <3>1 DEF Append
    <3>2. CASE AppendFails(log, n)
      BY <3>2 DEF AppendFails, SinkInv, LogInv, LogFiles
    <3> QED  BY <2>1, <3>1, <3>2 DEF Write
  <2> QED  BY <2>1 DEF WriteWithoutFile, Restart, Tick, diskVars, vars
<1>4. \A a \in Nat : Used(a, lastRotationTime, now) => Used(a, lastRotationTime', now')
  <2> lastRotationTime \in Nat /\ now \in Nat
    BY SinkAssumption DEF SinkInv, LineInv
  <2>1. CASE Restart
    BY <2>1 DEF Restart, Used
  <2>2. CASE Tick
    BY <2>2 DEF Tick, Used, sinkVars
  <2>3. CASE UNCHANGED <<lastRotationTime, now>>
    BY <2>3 DEF Used
  <2> QED  BY <2>1, <2>2, <2>3 DEF WriteWithoutFile, Write, sinkVars, vars
<1>5. NamesInv(backups', jobs', lastRotationTime', now') /\ JobsInv(backups', jobs', expired')
  BY <1>1, <1>2, <1>4 DEF SinkInv, NamesInv, JobsInv, BackupFiles, CompressJobs
<1> QED  BY <1>1, <1>3, <1>5 DEF DiskKept, Held, AllLines, NamesInv, JobsInv

(* Every step keeps the disk in order.                                     *)
LEMMA DiskStep ==
  ASSUME SinkInv, [Next]_vars
  PROVE  DiskKept
<1>1. ASSUME NEW j \in jobs, CompressStep(j)
      PROVE  DiskKept
  BY <1>1, CompressReadsDisk, CompressRenamesDisk, CompressRemovesDisk, CompressPrunesDisk
     DEF CompressStep
<1> QED  BY <1>1, QuietDisk, WriteRotatingDisk, RotationFailsDisk DEF Next

-----------------------------------------------------------------------------
(* The active file keeps to its limit.                                     *)
LEMMA LogStep ==
  ASSUME SinkInv, [Next]_vars
  PROVE  LogInv'
<1> USE DEF LogInv, ActiveWithinLimit
<1>0. /\ log \in LogFiles /\ active \in BOOLEAN /\ currentSize \in Nat
      /\ now \in 0 .. MaxTime /\ count \in 0 .. MaxLines
      /\ LogInv
  BY SinkAssumption DEF SinkInv, LineInv
<1>1. ASSUME UNCHANGED <<log, active, currentSize>>
      PROVE  LogInv'
  BY <1>0, <1>1
<1>2. /\ EmptyFile \in LogFiles /\ EmptyFile.lines = {} /\ EmptyFile.bytes = 0
  BY <1>0 DEF EmptyFile, LogFiles
<1>3. ASSUME NEW f \in LogFiles, NEW n \in Sizes, count < MaxLines, Append(f, n),
             f.lines = {} \/ f.bytes + n <= MaxSize, active' = active
      PROVE  LogInv'
  <2>1. n \in Nat /\ n > 0 /\ count + 1 \in Lines
    BY SinkAssumption, <1>0, <1>3 DEF Lines
  <2>2. /\ log' \in LogFiles /\ log'.bytes = f.bytes + n /\ log'.bytes # 0
        /\ log'.lines = f.lines \cup {count + 1}
        /\ currentSize' = f.bytes + n /\ currentSize' \in Nat
    BY <1>0, <1>3, <2>1 DEF Append, LogFiles
  <2>3. CASE f.lines = {}
    <3>1. Cardinality(log'.lines) = 1
      BY <2>2, <2>3, FS_Singleton, ZenonT(30)
    <3> QED  BY <1>0, <1>3, <2>2, <3>1
  <2> QED  BY <1>0, <1>3, <2>2, <2>3
<1>4. ASSUME NEW f \in LogFiles, NEW n \in Sizes, AppendFails(f, n),
             f.lines = {} \/ (f.bytes # 0 /\ f.bytes + n <= MaxSize), currentSize' \in Nat
      PROVE  LogInv'
  <2>1. n \in Nat
    BY SinkAssumption
  <2>2. PICK k \in 0 .. n : log' = [f EXCEPT !.bytes = @ + k]
    BY <1>4 DEF AppendFails
  <2>3. log' \in LogFiles /\ log'.lines = f.lines /\ log'.bytes = f.bytes + k
    BY <2>1, <2>2 DEF LogFiles
  <2>4. active' \in BOOLEAN /\ ~ active'
    BY <1>4, Zenon DEF AppendFails
  <2>5. f.bytes \in Nat /\ MaxSize \in Nat
    BY SinkAssumption DEF LogFiles
  <2>6. CASE f.lines = {}
    <3>1. Cardinality(log'.lines) = 0
      BY <2>3, <2>6, FS_EmptySet
    <3> QED  BY <1>4, <2>3, <2>4, <2>6, <3>1
  <2>7. CASE f.bytes # 0 /\ f.bytes + n <= MaxSize
    <3>1. log'.bytes # 0 /\ log'.bytes <= MaxSize
      BY <2>1, <2>3, <2>5, <2>7
    <3> QED  BY <1>4, <2>3, <2>4, <3>1
  <2> QED  BY <1>4, <2>6, <2>7
<1>5. ASSUME NEW n \in Sizes, Write(n)
      PROVE  LogInv'
  <2>1. log.lines = {} \/ (log.bytes # 0 /\ log.bytes + n <= MaxSize)
    BY <1>0, <1>5, SinkAssumption DEF Write, CrossesLimit, LogFiles
  <2> QED  BY <1>0, <1>3, <1>4, <1>5, <2>1 DEF Write
<1>6. ASSUME NEW n \in Sizes, WriteRotating(n)
      PROVE  LogInv'
  <2>1. CASE Append(EmptyFile, n) /\ UNCHANGED active
    BY <1>2, <1>3, <1>6, <2>1 DEF WriteRotating
  <2>2. CASE AppendFails(EmptyFile, n) /\ currentSize' = 0
    BY <1>2, <1>4, <2>2
  <2> QED  BY <1>6, <2>1, <2>2 DEF WriteRotating
<1>7. ASSUME NEW n \in Sizes, RotationFails(n)
      PROVE  LogInv'
  <2>1. active' \in BOOLEAN /\ ~ active'
    BY <1>7, Zenon DEF RotationFails
  <2>2. currentSize' = currentSize
    BY <1>7 DEF RotationFails
  <2>3. CASE UNCHANGED log
    BY <1>0, <2>1, <2>2, <2>3
  <2>4. CASE log' = EmptyFile
    BY <1>0, <1>2, <2>1, <2>2, <2>4, SinkAssumption
  <2> QED  BY <1>7, <2>3, <2>4 DEF RotationFails
<1>8. ASSUME Restart
      PROVE  LogInv'
  <2>1. log' = log
    BY <1>8 DEF Restart, diskVars
  <2>2. currentSize' \in Nat
    BY <1>0, <1>8 DEF Restart, LogFiles
  <2>3. active' \in BOOLEAN /\ (active' => currentSize' = log.bytes)
    BY <1>8, Zenon DEF Restart
  <2> QED  BY <1>0, <2>1, <2>2, <2>3
<1>9. ASSUME NEW j \in jobs, CompressStep(j)
      PROVE  UNCHANGED <<log, active, currentSize>>
  BY <1>9 DEF CompressStep, CompressFails, CompressReads, CompressWrites, CompressRenames,
       CompressRemoves, CompressPrunes, sinkVars, diskVars
<1> QED
  BY <1>1, <1>5, <1>6, <1>7, <1>8, <1>9 DEF Next, WriteWithoutFile, Tick, sinkVars, diskVars, vars

(* Every line is shown or filed, and what is filed is held.                *)
LEMMA LineStep ==
  ASSUME SinkInv, [Next]_vars
  PROVE  LineInv'
<1>0. /\ DiskKept
      /\ lastRotationTime \in Nat /\ now \in 1 .. MaxTime /\ faults \in 0 .. MaxFaults
      /\ count \in 0 .. MaxLines /\ filed \subseteq Lines /\ shown \subseteq Lines
      /\ MaxTime \in Nat /\ MaxLines \in Nat /\ MaxFaults \in Nat
      /\ 1 .. count \subseteq filed \cup shown /\ filed \subseteq Held
  BY DiskStep, SinkAssumption DEF SinkInv, LineInv, NoLineLost, Held, AllLines
<1>1. Held \subseteq Held' /\ expired' \subseteq Lines
  BY <1>0 DEF DiskKept
<1>2. ASSUME NEW j \in jobs, CompressStep(j)
      PROVE  UNCHANGED <<lastRotationTime, now, lineVars>>
  BY <1>2 DEF CompressStep, CompressFails, CompressReads, CompressWrites, CompressRenames,
       CompressRemoves, CompressPrunes, sinkVars
<1>3. lastRotationTime' \in Nat
  <2>1. lastRotationTime' \in {lastRotationTime, NextBackupTime, 0}
    BY <1>2 DEF Next, WriteWithoutFile, Write, WriteRotating, RotationFails, Restart, Tick, sinkVars, vars
  <2> QED  BY <1>0, <2>1, NextName
<1>4. now' \in 1 .. MaxTime
  <2>1. now' = now \/ (now < MaxTime /\ now' = now + 1)
    BY <1>2 DEF Next, WriteWithoutFile, Write, WriteRotating, RotationFails, Restart, Tick, vars
  <2> QED  BY <1>0, <2>1
<1>5. faults' \in 0 .. MaxFaults
  <2>1. ASSUME NEW F, NEW R \in Irremovable(F), faults' = IF R = {} THEN faults ELSE faults + 1
        PROVE  faults' \in 0 .. MaxFaults
    BY <1>0, <2>1 DEF Irremovable
  <2>2. CASE Fault
    BY <1>0, <2>2 DEF Fault
  <2>3. CASE UNCHANGED faults
    BY <1>0, <2>3
  <2> QED
    BY <2>1, <2>2, <2>3
     DEF Next, WriteWithoutFile, Write, AppendFails, WriteRotating, RotationFails, CompressStep,
       CompressFails, CompressReads, CompressWrites, CompressRenames, CompressRemoves, CompressPrunes,
       Restart, Tick, vars
<1>6. CASE UNCHANGED lineVars
  BY <1>0, <1>1, <1>3, <1>4, <1>5, <1>6 DEF LineInv, NoLineLost, lineVars, Held, AllLines
<1>7. ASSUME NEW ok \in BOOLEAN, count < MaxLines, Deliver(ok), ok => count + 1 \in log'.lines
      PROVE  LineInv'
  <2>1. count' = count + 1 /\ count' \in 0 .. MaxLines /\ count' \in Lines
    BY <1>0, <1>7 DEF Deliver, Lines
  <2>2. /\ filed' \subseteq filed \cup {count'} /\ filed \subseteq filed'
        /\ shown' \subseteq shown \cup {count'} /\ shown \subseteq shown'
        /\ count' \in filed' \cup shown'
        /\ ~ ok => filed' = filed
    BY <1>7 DEF Deliver
  <2>3. 1 .. count' = (1 .. count) \cup {count'}
    BY <1>0, <2>1
  <2>4. 1 .. count' \subseteq filed' \cup shown'
    BY <1>0, <2>2, <2>3
  <2>5. filed' \subseteq Held'
    BY <1>0, <1>1, <1>7, <2>1, <2>2 DEF Held
  <2> QED  BY <1>0, <1>1, <1>3, <1>4, <1>5, <2>1, <2>2, <2>4, <2>5 DEF LineInv, NoLineLost, Held, AllLines
<1>8. CASE WriteWithoutFile
  BY <1>7, <1>8 DEF WriteWithoutFile
<1>9. ASSUME NEW n \in Sizes, Write(n) \/ WriteRotating(n) \/ RotationFails(n)
      PROVE  LineInv'
  <2>1. \A f : Append(f, n) => count + 1 \in log'.lines
    BY DEF Append
  <2>2. count < MaxLines
    BY <1>9 DEF Write, WriteRotating, RotationFails
  <2>3. (Deliver(TRUE) /\ \E f : Append(f, n)) \/ Deliver(FALSE)
    BY <1>9 DEF Write, WriteRotating, RotationFails
  <2> QED  BY <1>7, <2>1, <2>2, <2>3
<1> QED  BY <1>6, <1>8, <1>9, <1>2 DEF Next, Restart, Tick, vars

-----------------------------------------------------------------------------
(* The invariant holds throughout.                                         *)
THEOREM SinkInvariant == Spec => []SinkInv
<1>1. SinkInv /\ [Next]_vars => SinkInv'
  BY DiskStep, LogStep, LineStep DEF SinkInv, DiskKept
<1> QED  BY SinkStart, <1>1, PTL DEF Spec

(* The state of the sink and of its files has its type; a name is one      *)
(* backup and one job.                                                     *)
THEOREM SinkTypeCorrect == Spec => []SinkTypeOK
<1>1. SinkInv => SinkTypeOK
  BY SinkAssumption
     DEF SinkInv, NamesInv, LogInv, LineInv, SinkTypeOK, BackupFiles, CompressJobs, LogFiles
<1> QED  BY SinkInvariant, <1>1, PTL

(* No rotation, compression, retention run, restart or failure loses a     *)
(* line that retention has not removed.                                    *)
THEOREM NoLineIsLost == Spec => []NoLineLost
<1>1. SinkInv => NoLineLost
  BY DEF SinkInv, LineInv
<1> QED  BY SinkInvariant, <1>1, PTL

(* The cached size is the file's, and the file passes the limit only for a *)
(* single line.                                                            *)
THEOREM ActiveKeepsLimit == Spec => []ActiveWithinLimit
<1>1. SinkInv => ActiveWithinLimit
  BY DEF SinkInv, LogInv
<1> QED  BY SinkInvariant, <1>1, PTL

(* A prune removes for the number only down to maxBackups; one in which    *)
(* nothing fails leaves no more.                                           *)
LEMMA PruneCount ==
  ASSUME NEW F, IsFiniteSet(F), NEW R, Prune(F, R)
  PROVE  /\ MaxBackups > 0 /\ R = {} => Cardinality(backups') <= MaxBackups
         /\ Cardinality(backups') >= MaxBackups \/ F \ backups' \subseteq Old(F)
<1> DEFINE aged == Old(F) \ R
           rest == F \ aged
<1>1. PICK D \in Surplus(rest) : backups' = F \ (aged \cup (D \ R))
  BY DEF Prune
<1>2. IsFiniteSet(rest) /\ Cardinality(rest) \in Nat /\ MaxBackups \in Nat
  BY FS_Difference, FS_CardinalityType, SinkAssumption
<1>3. Old(F) \subseteq F
  BY DEF Old
<1> HIDE DEF aged, rest
<1>4. backups' = rest \ (D \ R)
  BY <1>1, <1>3 DEF rest
<1>5. CASE MaxBackups = 0 \/ Cardinality(rest) <= MaxBackups
  <2>1. D = {}
    BY <1>1, <1>5 DEF Surplus
  <2>2. backups' = rest
    BY <1>4, <2>1
  <2>3. F \ rest \subseteq Old(F)
    BY DEF rest, aged
  <2> QED  BY <1>2, <1>5, <2>2, <2>3
<1>6. CASE ~ (MaxBackups = 0 \/ Cardinality(rest) <= MaxBackups)
  <2>1. D \subseteq rest /\ Cardinality(D) = Cardinality(rest) - MaxBackups
    BY <1>1, <1>6 DEF Surplus, kSubset
  <2>2. IsFiniteSet(rest \ D) /\ Cardinality(rest \ D) = MaxBackups
    <3>1. Cardinality(rest \ D) = Cardinality(rest) - Cardinality(rest \cap D)
      BY <1>2, FS_Difference
    <3>2. Cardinality(rest \cap D) = Cardinality(D)
      <4>1. rest \cap D = D
        BY <2>1
      <4> QED  BY <4>1
    <3>3. Cardinality(rest \ D) = MaxBackups
      BY <1>2, <2>1, <3>1, <3>2
    <3> QED  BY <1>2, <3>3, FS_Difference
  <2>3. R = {} => backups' = rest \ D
    BY <1>4
  <2>4. rest \ D \subseteq backups' /\ IsFiniteSet(backups')
    BY <1>2, <1>4, FS_Difference
  <2>5. MaxBackups <= Cardinality(backups')
    BY <1>2, <2>2, <2>4, FS_Subset, FS_CardinalityType
  <2>6. R = {} => Cardinality(backups') <= MaxBackups
    BY <1>2, <2>2, <2>3
  <2> QED  BY <1>2, <2>4, <2>5, <2>6, FS_CardinalityType
<1> QED  BY <1>5, <1>6

(* Retention keeps to maxBackups after every rotation that succeeds, and   *)
(* never goes below it for the number, whatever compressions run beside it.*)
THEOREM RetentionIsExact == Spec => RetentionExact
<1> DEFINE Exact ==
      /\ lastRotationTime' > lastRotationTime /\ active' /\ faults' = faults /\ MaxBackups > 0
           => Cardinality(backups') <= MaxBackups
      /\ expired' # expired
           => \/ Cardinality(backups') >= MaxBackups
              \/ backups \ backups' \subseteq Old(backups)
<1>1. ASSUME SinkInv, [Next]_vars
      PROVE  Exact \/ UNCHANGED vars
  <2>1. lastRotationTime \in Nat /\ faults \in Nat /\ IsFiniteSet(backups)
    BY <1>1, SinkAssumption DEF SinkInv, LineInv, NamesInv
  <2>2. ASSUME NEW n \in Sizes, WriteRotating(n)
        PROVE  Exact
    <3>1. IsFiniteSet(Renamed) /\ backups \subseteq Renamed
      BY <1>1, RenameKeeps, NextName DEF NamesInv, Renamed
    <3>2. Old(Renamed) \cap backups \subseteq Old(backups)
      BY DEF Old
    <3>3. ASSUME NEW R, Prune(Renamed, R)
          PROVE  /\ MaxBackups > 0 /\ R = {} => Cardinality(backups') <= MaxBackups
                 /\ Cardinality(backups') >= MaxBackups \/ backups \ backups' \subseteq Old(backups)
      BY <3>1, <3>2, <3>3, PruneCount
    <3>4. CASE \E R : Prune(Renamed, R) /\ faults' = IF R = {} THEN faults ELSE faults + 1
      BY <2>1, <3>3, <3>4
    <3>5. CASE Prune(Renamed, {})
      BY <3>3, <3>5
    <3> QED  BY <2>2, <3>4, <3>5 DEF WriteRotating
  <2>3. ASSUME NEW n \in Sizes, RotationFails(n)
        PROVE  Exact
    <3>1. ~ active' /\ expired' = expired
      BY <2>3, Zenon DEF RotationFails
    <3> QED  BY <3>1
  <2>4. ASSUME NEW j \in jobs, CompressPrunes(j)
        PROVE  Exact
    <3>1. lastRotationTime' = lastRotationTime
      BY <2>4 DEF CompressPrunes, sinkVars
    <3>2. PICK R : Prune(backups, R)
      BY <2>4 DEF CompressPrunes
    <3> QED  BY <2>1, <3>1, <3>2, PruneCount
  <2>5. ASSUME lastRotationTime' = lastRotationTime \/ lastRotationTime' = 0, expired' = expired
        PROVE  Exact
    BY <2>1, <2>5
  <2>6. ASSUME NEW j \in jobs, CompressStep(j)
        PROVE  Exact
    BY <2>4, <2>5, <2>6 DEF CompressStep, CompressFails, CompressReads, CompressWrites,
         CompressRenames, CompressRemoves, sinkVars, diskVars
  <2>7. CASE WriteWithoutFile \/ Restart \/ Tick \/ \E n \in Sizes : Write(n)
    BY <2>5, <2>7 DEF WriteWithoutFile, Restart, Tick, Write, sinkVars, diskVars
  <2> QED  BY <1>1, <2>2, <2>3, <2>6, <2>7 DEF Next
<1>2. SinkInv /\ [Next]_vars => [Exact]_vars
  BY <1>1
<1> QED  BY SinkInvariant, <1>2, PTL DEF Spec, RetentionExact
=============================================================================
