------------------------------ MODULE MCWorkers ------------------------------
(***************************************************************************)
(* The manager's background work: the streams of containers, and backups.  *)
(* The two share no state here.  One of them takes steps in a behaviour;   *)
(* the other stays as it starts.                                           *)
(***************************************************************************)
EXTENDS MCStreams, MCBackup

VARIABLE part

MCVars == <<streamsVars, backupVars, serial, part>>

MCInit ==
  /\ part \in {"streams", "backup"}
  /\ MCStreamsInit /\ MCBackupInit
  /\ part # "streams" => ~prompt /\ container = [c \in Containers |-> "down"]
  /\ part # "backup" => serial /\ up = {}

MCNext ==
  \/ part = "streams" /\ MCStreamsNext /\ UNCHANGED <<backupVars, serial, part>>
  \/ part = "backup" /\ MCBackupNext /\ UNCHANGED <<streamsVars, part>>

\* Fairness and BackupFairness, each where its part takes steps.
MCFairness ==
  /\ \A g \in Streams : WF_vars(part = "streams" /\ StreamGoes(g))
  /\ \A k \in Consoles : WF_vars(part = "streams" /\ Woken(k))
  /\ WF_vars(part = "streams" /\ ManagerGoes)
  /\ \A r \in Runs : WF_backupVars(part = "backup" /\ BackupStep(r))

MCSpec == MCInit /\ [][MCNext]_MCVars /\ MCFairness

===============================================================================
