-------------------------------- MODULE Backup --------------------------------
(***************************************************************************)
(* Backups of the network: the scheduler and the web interface start runs, *)
(* which stop every server and proxy, write one archive named after the    *)
(* day, drop old archives and start the flagged ones again.  Runs do not   *)
(* exclude each other, and the table of backups is listed and purged while *)
(* they go on.                                                             *)
(*                                                                         *)
(* Servers and proxies are alike here ("units"); what a start or a stop    *)
(* does in Docker is ServerLifecycle's matter, restoring Restore's.        *)
(***************************************************************************)
EXTENDS FiniteSets, Functions, Integers

CONSTANTS Units,       (* servers and proxies                               *)
          Flagged,     (* those with start_on_boot = 1                      *)
          Manual,      (* goroutines of Create requests                     *)
          Scheduler,   (* the scheduler's goroutine                         *)
          Interval,    (* setting backup_interval_days                      *)
          Retention,   (* setting retention_count                           *)
          Faults,      (* whether stops, starts and zstd may fail           *)
          MaxDay,      (* bound: days                                       *)
          MaxRecords,  (* bound: backups ever recorded                      *)
          MaxRestarts  (* bound: restarts of the manager                    *)

ASSUME BackupAssumption ==
  /\ Flagged \subseteq Units /\ IsFiniteSet(Units)
  /\ Scheduler \notin Manual
  /\ {"none", "partial", "whole"} \cap (Manual \cup {Scheduler}) = {}
  /\ Interval \in Nat \ {0} /\ Retention \in Nat \ {0}
  /\ Faults \in BOOLEAN
  /\ MaxDay \in Nat \ {0} /\ MaxRecords \in Nat /\ MaxRestarts \in Nat

VARIABLES
  today,      (* the date                                                   *)
  checked,    (* setting last_backup_check_date                             *)
  records,    (* backups table: id -> day in archive_path, status, who made *)
  made,       (* its last id                                                *)
  archive,    (* day -> the archive of that name, or the run writing it     *)
  up,         (* units that run                                             *)
  run,        (* goroutine -> its RunBackup                                 *)
  purge,      (* rows that a List or Delete request is about to remove      *)
  restarts    (* times the manager was restarted                            *)

backupVars == <<today, checked, records, made, archive, up, run, purge, restarts>>

Days  == 1..MaxDay
Runs  == Manual \cup {Scheduler}
NoRun == [pc |-> "idle"]

BackupTypeOK ==
  /\ today \in Days
  /\ checked \in 0..MaxDay
  /\ made \in 0..MaxRecords
  /\ DOMAIN records \subseteq 1..made
  /\ \A id \in DOMAIN records :
       records[id] \in [day : Days, status : {"pending", "complete", "failed"}, by : Runs]
  /\ archive \in [Days -> {"none", "partial", "whole"} \cup Runs]
  /\ up \subseteq Units
  /\ run \in [Runs -> {NoRun} \cup
       [pc : {"query", "stop", "archive", "write", "cleanup", "restart"},
        id : 1..made, day : Days, todo : SUBSET Units, flagged : SUBSET Flagged]]
  /\ purge \subseteq 1..made
  /\ restarts \in 0..MaxRestarts

BackupInit ==
  /\ today = 1
  /\ checked = 0
  /\ records = [id \in {} |-> 0]
  /\ made = 0
  /\ archive = [d \in Days |-> "none"]
  /\ up \in SUBSET Units
  /\ run = [r \in Runs |-> NoRun]
  /\ purge = {}
  /\ restarts = 0

(***************************************************************************)
(* The table and the files                                                 *)
(***************************************************************************)
RunAt(r, step) == run[r].pc = step
Idle(r) == RunAt(r, "idle")
RunEnds(r) == run' = [run EXCEPT ![r] = NoRun]
RunGoes(r, step) == run' = [run EXCEPT ![r].pc = step]

\* setBackupStatus: a row that is gone stays gone.
SetStatus(id, status) ==
  records' = IF id \in DOMAIN records THEN [records EXCEPT ![id].status = status] ELSE records

Without(ids) == Restrict(records, DOMAIN records \ ids)

\* CreatePendingBackup, and the goroutine of RunBackup.
CreatePending(r) ==
  /\ Idle(r)
  /\ made < MaxRecords
  /\ made' = made + 1
  /\ records' = [id \in DOMAIN records \cup {made + 1} |->
                   IF id = made + 1 THEN [day |-> today, status |-> "pending", by |-> r]
                   ELSE records[id]]
  /\ run' = [run EXCEPT ![r] = [pc |-> "query", id |-> made + 1, day |-> today,
                                todo |-> {}, flagged |-> {}]]

Create(r) ==
  /\ r \in Manual
  /\ CreatePending(r)
  /\ UNCHANGED <<today, checked, archive, up, purge, restarts>>

(***************************************************************************)
(* The scheduler's tick within the five minutes after backup_time          *)
(***************************************************************************)
ShouldRun ==
  \A id \in DOMAIN records : records[id].status = "complete" => today - records[id].day >= Interval

\* Mutant: only a run that succeeds is noted.
CheckAndRunUnmarked ==
  /\ Idle(Scheduler)
  /\ checked # today
  /\ ShouldRun /\ CreatePending(Scheduler)
  /\ UNCHANGED <<today, checked, archive, up, purge, restarts>>

CheckAndRun ==
  /\ Idle(Scheduler)
  /\ checked # today
  /\ checked' = today
  /\ IF ShouldRun THEN CreatePending(Scheduler) ELSE UNCHANGED <<records, made, run>>
  /\ UNCHANGED <<today, archive, up, purge, restarts>>

(***************************************************************************)
(* RunBackup                                                               *)
(***************************************************************************)
\* The record, then ListAll: what runs now and what to start again.
Query(r) ==
  /\ RunAt(r, "query")
  /\ IF run[r].id \in DOMAIN records
     THEN run' = [run EXCEPT ![r].pc = "stop", ![r].todo = up, ![r].flagged = Flagged]
     ELSE RunEnds(r)
  /\ UNCHANGED <<today, checked, records, made, archive, up, purge, restarts>>

StopOne(r) ==
  /\ RunAt(r, "stop")
  /\ \E u \in run[r].todo :
       \/ /\ up' = up \ {u}
          /\ run' = [run EXCEPT ![r].todo = @ \ {u}]
          /\ UNCHANGED records
       \/ /\ Faults
          /\ SetStatus(run[r].id, "failed")
          /\ RunEnds(r)
          /\ UNCHANGED up
  /\ UNCHANGED <<today, checked, made, archive, purge, restarts>>

AllStopped(r) ==
  /\ RunAt(r, "stop")
  /\ run[r].todo = {}
  /\ RunGoes(r, "archive")
  /\ UNCHANGED <<today, checked, records, made, archive, up, purge, restarts>>

\* zstd -f -o: whatever had the name before is unlinked.
OpenArchive(r) ==
  /\ RunAt(r, "archive")
  /\ archive' = [archive EXCEPT ![run[r].day] = r]
  /\ RunGoes(r, "write")
  /\ UNCHANGED <<today, checked, records, made, up, purge, restarts>>

\* Mutant: an archive that is not there is not noticed.
CloseArchiveNoStat(r) ==
  LET d == run[r].day IN
  /\ RunAt(r, "write")
  /\ archive' = [archive EXCEPT ![d] = IF @ = r THEN "whole" ELSE @]
  /\ IF archive[d] = "none" THEN RunEnds(r) /\ UNCHANGED records
     ELSE SetStatus(run[r].id, "complete") /\ RunGoes(r, "cleanup")
  /\ UNCHANGED <<today, checked, made, up, purge, restarts>>

\* zstd ends, the file is looked up by its name and the record completed.
CloseArchive(r) ==
  LET d == run[r].day IN
  /\ RunAt(r, "write")
  /\ archive' = [archive EXCEPT ![d] = IF @ = r THEN "whole" ELSE @]
  /\ IF archive[d] = "none" THEN SetStatus(run[r].id, "failed") /\ RunEnds(r)
     ELSE SetStatus(run[r].id, "complete") /\ RunGoes(r, "cleanup")
  /\ UNCHANGED <<today, checked, made, up, purge, restarts>>

\* zstd fails and may leave what it wrote. The units stay down.
ArchiveFails(r) ==
  LET d == run[r].day IN
  /\ Faults
  /\ RunAt(r, "write")
  /\ \E left \in {"none", "partial"} :
       archive' = [archive EXCEPT ![d] = IF @ = r THEN left ELSE @]
  /\ SetStatus(run[r].id, "failed")
  /\ RunEnds(r)
  /\ UNCHANGED <<today, checked, made, up, purge, restarts>>

(***************************************************************************)
(* CleanupOldBackups: all but the Retention last files go, and the rows    *)
(* that name them.                                                         *)
(***************************************************************************)
Files == {d \in Days : archive[d] # "none"}
Newest(files) == {d \in files : Cardinality({e \in files : e > d}) < Retention}
Oldest(files) == {d \in files : Cardinality({e \in files : e < d}) < Retention}

\* A file that cannot be removed keeps its rows.
RemoveFiles(r, old) ==
  /\ RunAt(r, "cleanup")
  /\ \E gone \in SUBSET old :
       /\ ~Faults => gone = old
       /\ archive' = [d \in Days |-> IF d \in gone THEN "none" ELSE archive[d]]
       /\ records' = Without({id \in DOMAIN records : records[id].day \in gone})
  /\ RunGoes(r, "restart")
  /\ UNCHANGED <<today, checked, made, up, purge, restarts>>

\* Mutant: sorted the other way round.
CleanupNewest(r) == RemoveFiles(r, Files \ Oldest(Files))

CleanupOldBackups(r) == RemoveFiles(r, Files \ Newest(Files))

\* StartByID of every flagged unit, some of which may not fit or fail.
StartFlagged(r) ==
  /\ RunAt(r, "restart")
  /\ \E started \in SUBSET run[r].flagged :
       /\ ~Faults => started = run[r].flagged
       /\ up' = up \cup started
  /\ RunEnds(r)
  /\ UNCHANGED <<today, checked, records, made, archive, purge, restarts>>

(***************************************************************************)
(* Requests about backups; one at a time                                   *)
(***************************************************************************)
\* ListBackups: rows whose archive is not there are orphans, to be removed.
List ==
  /\ purge = {}
  /\ purge' = {id \in DOMAIN records : archive[records[id].day] = "none"}
  /\ UNCHANGED <<today, checked, records, made, archive, up, run, restarts>>

\* DeleteBackup: the file ...
Delete(id) ==
  /\ purge = {}
  /\ id \in DOMAIN records
  /\ archive' = [archive EXCEPT ![records[id].day] = "none"]
  /\ purge' = {id}
  /\ UNCHANGED <<today, checked, records, made, up, run, restarts>>

\* ... and the row.
RemoveRows ==
  /\ purge # {}
  /\ records' = Without(purge)
  /\ purge' = {}
  /\ UNCHANGED <<today, checked, made, archive, up, run, restarts>>

(***************************************************************************)
(* The rest of the world                                                   *)
(***************************************************************************)
NextDay ==
  /\ today < MaxDay
  /\ today' = today + 1
  /\ UNCHANGED <<checked, records, made, archive, up, run, purge, restarts>>

\* A player, an admin or the task scheduler starts a unit.
StartUnit(u) ==
  /\ u \notin up
  /\ up' = up \cup {u}
  /\ UNCHANGED <<today, checked, records, made, archive, run, purge, restarts>>

\* The manager is killed or stopped; startOnBoot follows.
ManagerRestarts ==
  /\ restarts < MaxRestarts
  /\ restarts' = restarts + 1
  /\ run' = [r \in Runs |-> NoRun]
  /\ archive' = [d \in Days |-> IF archive[d] \in Runs THEN "partial" ELSE archive[d]]
  /\ purge' = {}
  /\ up' = up \cup Flagged
  /\ UNCHANGED <<today, checked, records, made>>

-------------------------------------------------------------------------------
BackupStep(r) ==
  \/ Query(r) \/ StopOne(r) \/ AllStopped(r) \/ OpenArchive(r) \/ CloseArchive(r)
  \/ ArchiveFails(r) \/ CleanupOldBackups(r) \/ StartFlagged(r)

BackupNext ==
  \/ \E r \in Manual : Create(r)
  \/ CheckAndRun
  \/ \E r \in Runs : BackupStep(r)
  \/ List \/ (\E id \in 1..MaxRecords : Delete(id)) \/ RemoveRows
  \/ NextDay \/ (\E u \in Units : StartUnit(u)) \/ ManagerRestarts

BackupSpec == BackupInit /\ [][BackupNext]_backupVars

\* A run that was begun goes on; every call in it has a time limit or ends.
BackupFairness == \A r \in Runs : WF_backupVars(BackupStep(r))

BackupFairSpec == BackupSpec /\ BackupFairness

(***************************************************************************)
(* Properties                                                              *)
(***************************************************************************)
\* The scheduler makes one attempt a day at most, whatever fails and whenever
\* the manager is restarted (MarkCheckedToday comes first).
OneScheduledADay ==
  \A i, k \in DOMAIN records :
    records[i].by = Scheduler /\ records[k].by = Scheduler /\ records[i].day = records[k].day
      => i = k

\* The scheduler's attempts, with the types of the variables.
BackupInv == BackupTypeOK /\ OneScheduledADay

\* Every backup is at last complete, failed or gone, whatever overlaps, unless
\* the manager was restarted: a pending record whose archive was begun is then
\* there for good.
RecordsSettle ==
  \A id \in 1..MaxRecords :
    id \in DOMAIN records /\ records[id].status = "pending"
      ~> \/ id \notin DOMAIN records
         \/ records[id].status # "pending"
         \/ restarts > 0

===============================================================================
