------------------------------- MODULE MCBackup -------------------------------
(***************************************************************************)
(* Backup for TLC.  A behaviour is serial or not from the start.  In a     *)
(* serial one nothing happens during a run but the run itself; in the      *)
(* others two days pass.                                                   *)
(***************************************************************************)
EXTENDS Backup

VARIABLE serial

NoRunGoes == (\A r \in Runs : Idle(r)) /\ purge = {}

MCBackupInit == BackupInit /\ serial \in BOOLEAN

MCBackupNext ==
  /\ BackupNext
  /\ UNCHANGED serial
  /\ ~serial => today' <= 2
  /\ serial /\ ~NoRunGoes =>
       /\ today' = today /\ restarts' = restarts
       /\ (\E r \in Runs : ~Idle(r)) => run' # run
       /\ \A r \in Runs : Idle(r) => Idle(r)'

MCBackupSpec == MCBackupInit /\ [][MCBackupNext]_<<backupVars, serial>>

\* One run at a time: nothing runs while the archive is written.
SerialColdCopy ==
  serial => \A r \in Runs : RunAt(r, "write") => up = {}

\* One run at a time: the archive just made is not among the old ones, and a
\* complete record outlives the cleanup of its own run.
SerialCleanupKeepsOwn ==
  serial => \A r \in Runs : RunAt(r, "restart") =>
    archive[run[r].day] = "whole" /\ run[r].id \in DOMAIN records

\* With one run at a time a backup is worth having.
SerialBackupGood == SerialColdCopy /\ SerialCleanupKeepsOwn

===============================================================================
