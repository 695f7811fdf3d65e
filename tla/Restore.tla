------------------------------- MODULE Restore -------------------------------
(***************************************************************************)
(* Restoring a backup (RunRestore, backup/backup.go) while the manager and *)
(* the games go on: nothing is stopped and no request excludes another.    *)
(* What is restored are the files of the data directory and the two trees  *)
(* of servers and Java runtimes.  Contents are numbered.                   *)
(***************************************************************************)
EXTENDS FiniteSets, Naturals

CONSTANTS
    DataFiles,    \* files of the data directory, Database among them
    Database,
    Mounted,      \* trees that are not on the data directory's file system
    Restores,     \* goroutines of restore requests
    Archives,     \* names of archives
    MaxWrites,    \* bound: changes of files
    MaxCuts,      \* bound: restarts of the manager
    Absent        \* no such file, directory, archive or restore

Trees == {"servers", "java"}
TempDir == "temp_restore"     \* within the data directory, for every restore

VARIABLES
    store,     \* what the files and trees are
    temp,      \* what is extracted in temp_restore
    saved,     \* what an archive has
    restore,   \* RunRestore's progress
    writes, cuts

restoreVars == <<store, temp, saved, restore, writes, cuts>>

Parts == DataFiles \cup Trees
Items == Parts \cup {TempDir}
Empty == 0
Contents == {Absent} \cup (Empty .. MaxWrites + 1)

ASSUME RestoreAssumption ==
    /\ Database \in DataFiles /\ Mounted \subseteq Trees
    /\ TempDir \notin DataFiles /\ Trees \cap DataFiles = {}
    /\ MaxWrites \in Nat /\ MaxCuts \in Nat
    /\ Absent \notin Nat \cup Items \cup [Items -> Contents]

(* The parts RunRestore replaces together, in their order. *)
PartsOf == [data |-> DataFiles \cup {TempDir}, servers |-> {"servers"}, java |-> {"java"}]
NextStage == [extract |-> "data", data |-> "servers", servers |-> "java", java |-> "finish"]

RestoreTypeOK ==
    /\ store \in [Parts -> Contents]
    /\ temp = Absent \/ temp \in [Items -> Contents]
    /\ \A a \in Archives : saved[a] = Absent \/ saved[a] \in [Items -> Contents]
    /\ \A q \in Restores : restore[q] # Absent =>
        /\ restore[q].stage \in {"clear", "finish"} \cup DOMAIN NextStage
        /\ restore[q].todo \subseteq Items
        /\ restore[q].moving \in Items \cup {Absent}

RestoreInit ==
    /\ store = [p \in Parts |-> IF p \in Trees \cup {Database} THEN 1 ELSE Absent]
    /\ temp = Absent
    /\ saved = [a \in Archives |-> Absent]
    /\ restore = [q \in Restores |-> Absent]
    /\ writes = 0 /\ cuts = 0

-----------------------------------------------------------------------------
(* The rest of the manager, the games and the backups.                     *)

(* An image may be uploaded where there was none.                          *)
Rewrite(p) ==
    /\ writes < MaxWrites /\ (store[p] # Absent \/ p \in DataFiles)
    /\ writes' = writes + 1
    /\ store' = [store EXCEPT ![p] = writes' + 1]
    /\ UNCHANGED <<temp, saved, restore, cuts>>

(* tar of the data directory, with whatever a restore has in it, and of the *)
(* trees that are there.  Every archive has a name of its own.              *)
Archive(a) ==
    /\ saved[a] = Absent
    /\ saved' = [saved EXCEPT ![a] =
            [m \in Items |-> IF m # TempDir THEN store[m]
                               ELSE IF temp = Absent THEN Absent ELSE Empty]]
    /\ UNCHANGED <<store, temp, restore, writes, cuts>>

(* The manager goes down; the boot makes the database and the directories  *)
(* that are missing.                                                       *)
Cut ==
    /\ cuts < MaxCuts
    /\ cuts' = cuts + 1
    /\ restore' = [q \in Restores |-> Absent]
    /\ store' = [p \in Parts |-> IF store[p] = Absent /\ p \in Trees \cup {Database}
                                 THEN Empty ELSE store[p]]
    /\ UNCHANGED <<temp, saved, writes>>

-----------------------------------------------------------------------------
(* RunRestore.                                                             *)

In(q, stage) == restore[q] # Absent /\ restore[q].stage = stage

(* RestoreFromDisk, RestoreFromUpload: the archive is there. *)
BeginRestore(q, a) ==
    /\ restore[q] = Absent /\ saved[a] # Absent
    /\ restore' = [restore EXCEPT ![q] = [stage |-> "clear", from |-> saved[a],
                        before |-> store, todo |-> {}, moving |-> Absent]]
    /\ UNCHANGED <<store, temp, saved, writes, cuts>>

Extracts(q) ==
    restore' = [restore EXCEPT ![q].stage = "extract",
                               ![q].todo = {m \in Items : restore[q].from[m] # Absent}]

(* Mutant: what an earlier restore has left stays. *)
MakeTemp(q) ==
    /\ In(q, "clear")
    /\ temp' = IF temp = Absent THEN [m \in Items |-> Absent] ELSE temp
    /\ Extracts(q)
    /\ UNCHANGED <<store, saved, writes, cuts>>

ClearTemp(q) ==
    /\ In(q, "clear")
    /\ temp' = [m \in Items |-> Absent]
    /\ Extracts(q)
    /\ UNCHANGED <<store, saved, writes, cuts>>

(* tar -x, in the order of the archive: data, servers, java. *)
ExtractOne(q) ==
    /\ In(q, "extract") /\ temp # Absent
    /\ \E m \in restore[q].todo :
        /\ m \in Trees => restore[q].todo \subseteq Trees
        /\ m = "java" => restore[q].todo = {m}
        /\ temp' = [temp EXCEPT ![m] = restore[q].from[m]]
        /\ restore' = [restore EXCEPT ![q].todo = @ \ {m}]
    /\ UNCHANGED <<store, saved, writes, cuts>>

(* The archive is cut short, or the directory is gone. *)
ExtractFails(q) ==
    /\ In(q, "extract")
    /\ temp' = Absent
    /\ restore' = [restore EXCEPT ![q] = Absent]
    /\ UNCHANGED <<store, saved, writes, cuts>>

(* On to the next stage, for what of it is extracted. *)
Proceed(q) ==
    /\ restore[q] # Absent /\ restore[q].stage \in DOMAIN NextStage
    /\ restore[q].todo = {} /\ restore[q].moving = Absent
    /\ LET next == NextStage[restore[q].stage]
           there == IF next = "finish" \/ temp = Absent THEN {}
                    ELSE {m \in PartsOf[next] : temp[m] # Absent}
       IN  restore' = [restore EXCEPT ![q].stage = next, ![q].todo = there]
    /\ UNCHANGED <<store, temp, saved, writes, cuts>>

(* RemoveAll of what is there; a mount point is only emptied.  An archive's *)
(* temp_restore has the name of the directory it is extracted in.           *)
RemoveOld(q) ==
    /\ restore[q] # Absent /\ restore[q].stage \in DOMAIN PartsOf
    /\ restore[q].moving = Absent
    /\ \E m \in restore[q].todo :
        /\ restore' = [restore EXCEPT ![q].todo = @ \ {m}, ![q].moving = m]
        /\ IF m = TempDir
           THEN temp' = Absent /\ UNCHANGED store
           ELSE /\ store' = [store EXCEPT ![m] = IF m \in Mounted THEN Empty ELSE Absent]
                /\ UNCHANGED temp
    /\ UNCHANGED <<saved, writes, cuts>>

(* Rename, whose error is ignored: it fails between file systems, and where *)
(* there is nothing to move.                                                *)
MoveNew(q) ==
    /\ restore[q] # Absent /\ restore[q].moving # Absent
    /\ LET m == restore[q].moving
       IN  IF m \in Mounted \cup {TempDir} \/ temp = Absent \/ temp[m] = Absent
           THEN UNCHANGED <<store, temp>>
           ELSE /\ store' = [store EXCEPT ![m] = temp[m]]
                /\ temp' = [temp EXCEPT ![m] = Absent]
    /\ restore' = [restore EXCEPT ![q].moving = Absent]
    /\ UNCHANGED <<saved, writes, cuts>>

(* "Restore complete. Restarting...", which nothing does; the deferred     *)
(* RemoveAll.                                                              *)
Complete(q) ==
    /\ In(q, "finish")
    /\ temp' = Absent
    /\ restore' = [restore EXCEPT ![q] = Absent]
    /\ UNCHANGED <<store, saved, writes, cuts>>

-----------------------------------------------------------------------------

RestoreStep(q) ==
    \/ ClearTemp(q) \/ ExtractOne(q) \/ ExtractFails(q) \/ Proceed(q)
    \/ RemoveOld(q) \/ MoveNew(q) \/ Complete(q)

RestoreNext ==
    \/ \E p \in Parts : Rewrite(p)
    \/ \E a \in Archives : Archive(a)
    \/ Cut
    \/ \E q \in Restores : RestoreStep(q) \/ \E a \in Archives : BeginRestore(q, a)

RestoreSpec == RestoreInit /\ [][RestoreNext]_restoreVars

-----------------------------------------------------------------------------
(* Properties.                                                             *)

(* What a restore that is about to report success has brought back: what   *)
(* its archive has, and the rest as it was.                                *)
Brought(q, ps) ==
    \A p \in ps : store[p] = IF restore[q].from[p] # Absent THEN restore[q].from[p]
                             ELSE restore[q].before[p]

(* With one restore at a time, a restore that reports success has brought   *)
(* back what the archive has and touched nothing else, whatever an earlier  *)
(* one that was cut short has left (RunRestore's RemoveAll of temp_restore),*)
(* but for trees on other file systems, and for archives made while a       *)
(* temp_restore was left: their own replaces the one they are extracted in. *)
SerialRestoreExact ==
    /\ RestoreTypeOK
    /\ \A q \in Restores :
        In(q, "finish") /\ restore[q].from[TempDir] = Absent => Brought(q, Parts \ Mounted)

(* "Restore from disk or upload ... restores data" (PROGRESS.md:121-122) and *)
(* "server.properties was not restored" (backup_test.go:127): with one      *)
(* restore at a time, the servers are what the archive has.                  *)
RestoresServers ==
    \A q \in Restores :
        In(q, "finish") /\ restore[q].from[TempDir] = Absent => Brought(q, {"servers"})

=============================================================================
