----------------------------- MODULE WorkersProofs -----------------------------
(***************************************************************************)
(* Backups, and the goroutines that follow the containers.                 *)
(*                                                                         *)
(* BackupInv holds for any number of units, days, records and requests,    *)
(* with every failure, overlap and restart.  That the scheduler makes one  *)
(* attempt a day is not inductive: it follows from the date of its last    *)
(* check, which no record of its own is younger than and which is never    *)
(* ahead of the clock.  SerialBackupGood holds when runs do not overlap.   *)
(*                                                                         *)
(* StreamsInv holds for any number of containers, goroutines and consoles. *)
(* PromptSettles does too, where goroutines end before the next start of   *)
(* their container is handled.                                             *)
(***************************************************************************)
EXTENDS MCBackup, MCStreams, FiniteSetTheorems, TLAPS

Record == [day : Days, status : {"pending", "complete", "failed"}, by : Runs]

Pcs == {"query", "stop", "archive", "write", "cleanup", "restart"}

RunRecord == [pc : Pcs, id : 1..made, day : Days, todo : SUBSET Units,
              flagged : SUBSET Flagged]

(* What the scheduler recorded is noted as checked. *)
Marked ==
  /\ checked <= today
  /\ \A id \in DOMAIN records : records[id].by = Scheduler => records[id].day <= checked

BackupIInv == BackupInv /\ Marked

LEMMA BackupInitInv == BackupInit => BackupIInv
  <1> SUFFICES ASSUME BackupInit PROVE BackupIInv
    OBVIOUS
  <1>1. today \in Days /\ checked = 0 /\ made = 0
    BY BackupAssumption DEF BackupInit, Days
  <1>2. DOMAIN records = {}
    BY DEF BackupInit
  <1>3. /\ archive \in [Days -> {"none", "partial", "whole"} \cup Runs]
        /\ up \subseteq Units /\ purge \subseteq 1..made
    BY DEF BackupInit
  <1>3a. run \in [Runs -> {NoRun} \cup RunRecord]
    BY DEF BackupInit
  <1>3b. restarts \in 0..MaxRestarts
    BY BackupAssumption DEF BackupInit
  <1>4. BackupTypeOK
    BY <1>1, <1>2, <1>3, <1>3a, <1>3b, BackupAssumption DEF BackupTypeOK, RunRecord, Pcs
  <1>5. OneScheduledADay /\ Marked
    BY <1>1, <1>2 DEF OneScheduledADay, Marked, Days
  <1> QED
    BY <1>4, <1>5 DEF BackupIInv, BackupInv

-------------------------------------------------------------------------------
(* A run that is not idle has a record. *)
LEMMA BusyRun ==
  ASSUME BackupTypeOK, NEW r \in Runs, NEW step \in Pcs, RunAt(r, step)
  PROVE  run[r] \in RunRecord
  BY DEF BackupTypeOK, RunRecord, Pcs, RunAt, NoRun

(* The steps that leave the records' number as it is. *)
LEMMA RunType ==
  ASSUME BackupTypeOK, made' = made, NEW r \in Runs, NEW x,
         x = NoRun \/ x \in RunRecord, run' = [run EXCEPT ![r] = x]
  PROVE  (run \in [Runs -> {NoRun} \cup RunRecord])'
  <1>1. run \in [Runs -> {NoRun} \cup RunRecord]
    BY DEF BackupTypeOK, RunRecord, Pcs
  <1>2. RunRecord' = RunRecord
    BY DEF RunRecord
  <1> QED
    BY <1>1, <1>2

(* Records that lose rows or change their status keep days and makers. *)
LEMMA SameRecords ==
  ASSUME BackupIInv, DOMAIN records' \subseteq DOMAIN records,
         \A id \in DOMAIN records' :
            /\ records'[id] \in Record
            /\ records'[id].day = records[id].day
            /\ records'[id].by = records[id].by,
         UNCHANGED <<today, checked, made>>
  PROVE  /\ OneScheduledADay' /\ Marked'
         /\ DOMAIN records' \subseteq 1..made'
         /\ \A id \in DOMAIN records' : records'[id] \in Record
  BY DEF BackupIInv, BackupInv, BackupTypeOK, OneScheduledADay, Marked, Record

LEMMA StatusRecords ==
  ASSUME BackupIInv, NEW id, NEW s \in {"pending", "complete", "failed"}, SetStatus(id, s),
         UNCHANGED <<today, checked, made>>
  PROVE  /\ OneScheduledADay' /\ Marked'
         /\ DOMAIN records' \subseteq 1..made'
         /\ \A i \in DOMAIN records' : records'[i] \in Record
  <1>1. \A i \in DOMAIN records : records[i] \in Record
    BY DEF BackupIInv, BackupInv, BackupTypeOK, Record
  <1>2. CASE id \notin DOMAIN records
    <2>1. records' = records
      BY <1>2 DEF SetStatus
    <2> QED
      BY <1>1, <2>1, SameRecords
  <1>3. CASE id \in DOMAIN records
    <2>1. records' = [records EXCEPT ![id] = [records[id] EXCEPT !.status = s]]
      BY <1>3 DEF SetStatus
    <2>2. [records[id] EXCEPT !.status = s] \in Record
          /\ [records[id] EXCEPT !.status = s].day = records[id].day
          /\ [records[id] EXCEPT !.status = s].by = records[id].by
      BY <1>1, <1>3 DEF Record
    <2>3. DOMAIN records' = DOMAIN records
          /\ \A i \in DOMAIN records : records'[i] = IF i = id
                THEN [records[id] EXCEPT !.status = s] ELSE records[i]
      BY <2>1, Zenon
    <2> QED
      BY <1>1, <2>2, <2>3, SameRecords
  <1> QED
    BY <1>2, <1>3

LEMMA RestrictedRecords ==
  ASSUME BackupIInv, NEW ids, records' = Without(ids), UNCHANGED <<today, checked, made>>
  PROVE  /\ OneScheduledADay' /\ Marked'
         /\ DOMAIN records' \subseteq 1..made'
         /\ \A i \in DOMAIN records' : records'[i] \in Record
  <1>1. \A i \in DOMAIN records : records[i] \in Record
    BY DEF BackupIInv, BackupInv, BackupTypeOK, Record
  <1>2. records' = [i \in DOMAIN records \ ids |-> records[i]]
    BY DEF Without, Restrict
  <1> QED
    BY <1>1, <1>2, SameRecords

(* Together: all that a step of a run has to show. *)
LEMMA Assemble ==
  ASSUME BackupIInv, UNCHANGED <<today, checked, made, restarts>>,
         OneScheduledADay', Marked', DOMAIN records' \subseteq 1..made',
         \A i \in DOMAIN records' : records'[i] \in Record,
         (run \in [Runs -> {NoRun} \cup RunRecord])',
         archive' \in [Days -> {"none", "partial", "whole"} \cup Runs],
         up' \subseteq Units, purge' \subseteq 1..made
  PROVE  BackupIInv'
  BY DEF BackupIInv, BackupInv, BackupTypeOK, Record, RunRecord, Pcs

(* Changes of a run's fields keep it a run. *)
LEMMA Fields ==
  ASSUME NEW x \in RunRecord, NEW pc \in Pcs, NEW todo \in SUBSET Units,
         NEW flagged \in SUBSET Flagged
  PROVE  /\ [x EXCEPT !.pc = pc] \in RunRecord
         /\ [x EXCEPT !.todo = todo] \in RunRecord
         /\ [x EXCEPT !.pc = pc, !.todo = todo, !.flagged = flagged] \in RunRecord
  BY DEF RunRecord

(* What every state has, by the names the steps use. *)
LEMMA Types ==
  ASSUME BackupIInv
  PROVE  /\ run \in [Runs -> {NoRun} \cup RunRecord]
         /\ archive \in [Days -> {"none", "partial", "whole"} \cup Runs]
         /\ up \subseteq Units /\ purge \subseteq 1..made
         /\ \A i \in DOMAIN records : records[i] \in Record
         /\ DOMAIN records \subseteq 1..made /\ made \in Nat
  BY DEF BackupIInv, BackupInv, BackupTypeOK, RunRecord, Pcs, Record

LEMMA BackupStepInv ==
  ASSUME BackupIInv, NEW r \in Runs, BackupStep(r)
  PROVE  BackupIInv'
  <1> USE Types
  <1>0. BackupTypeOK /\ Flagged \subseteq Units /\ {"query", "stop", "archive", "write", "cleanup", "restart"} = Pcs
    BY BackupAssumption DEF BackupIInv, BackupInv, Pcs
  <1>0a. ASSUME UNCHANGED <<records, today, checked, made>>
         PROVE  /\ OneScheduledADay' /\ Marked' /\ DOMAIN records' \subseteq 1..made'
                /\ \A i \in DOMAIN records' : records'[i] \in Record
    BY <1>0a, SameRecords
  <1>0b. ASSUME made' = made, RunEnds(r)
         PROVE  (run \in [Runs -> {NoRun} \cup RunRecord])'
    BY <1>0, <1>0b, RunType DEF RunEnds
  <1>0c. ASSUME NEW step \in Pcs, NEW next \in Pcs, RunAt(r, step), RunGoes(r, next), made' = made
         PROVE  (run \in [Runs -> {NoRun} \cup RunRecord])'
    <2>1. run[r] \in RunRecord
      BY <1>0, <1>0c, BusyRun
    <2>2. [run[r] EXCEPT !.pc = next] \in RunRecord
      BY <2>1 DEF RunRecord
    <2>3. run' = [run EXCEPT ![r] = [run[r] EXCEPT !.pc = next]]
      BY <1>0c DEF RunGoes
    <2> QED
      BY <1>0, <1>0c, <2>2, <2>3, RunType
  <1>1. CASE Query(r)
    <2>1. UNCHANGED <<today, checked, records, made, archive, up, purge, restarts>> /\ RunAt(r, "query")
      BY <1>1 DEF Query
    <2>2. CASE RunEnds(r)
      BY <2>1, <2>2, <1>0a, <1>0b, Assemble
    <2>3. CASE run' = [run EXCEPT ![r].pc = "stop", ![r].todo = up, ![r].flagged = Flagged]
      <3>1. run[r] \in RunRecord
        BY <1>0, <2>1, BusyRun
      <3>2. [run[r] EXCEPT !.pc = "stop", !.todo = up, !.flagged = Flagged] \in RunRecord
        BY <1>0, <3>1, Fields
      <3>3. run' = [run EXCEPT ![r] = [run[r] EXCEPT !.pc = "stop", !.todo = up, !.flagged = Flagged]]
        BY <2>3
      <3>4. (run \in [Runs -> {NoRun} \cup RunRecord])'
        BY <1>0, <2>1, <3>2, <3>3, RunType
      <3> QED
        BY <2>1, <3>4, <1>0a, Assemble
    <2> QED
      BY <1>1, <2>2, <2>3 DEF Query
  <1>2. CASE StopOne(r)
    <2>1. UNCHANGED <<today, checked, made, archive, purge, restarts>> /\ RunAt(r, "stop")
      BY <1>2 DEF StopOne
    <2>2. PICK u \in run[r].todo :
            \/ up' = up \ {u} /\ run' = [run EXCEPT ![r].todo = @ \ {u}] /\ UNCHANGED records
            \/ SetStatus(run[r].id, "failed") /\ RunEnds(r) /\ UNCHANGED up
      BY <1>2 DEF StopOne
    <2>3. CASE up' = up \ {u} /\ run' = [run EXCEPT ![r].todo = @ \ {u}] /\ UNCHANGED records
      <3>1. run[r] \in RunRecord
        BY <1>0, <2>1, BusyRun
      <3>2. [run[r] EXCEPT !.todo = run[r].todo \ {u}] \in RunRecord
        BY <3>1 DEF RunRecord
      <3>3. run' = [run EXCEPT ![r] = [run[r] EXCEPT !.todo = run[r].todo \ {u}]]
        BY <2>3
      <3>4. (run \in [Runs -> {NoRun} \cup RunRecord])'
        BY <1>0, <2>1, <3>2, <3>3, RunType
      <3>5. up' \subseteq Units
        BY <2>3
      <3> QED
        BY <2>1, <2>3, <3>4, <3>5, <1>0a, Assemble
    <2>4. CASE SetStatus(run[r].id, "failed") /\ RunEnds(r) /\ UNCHANGED up
      BY <2>1, <2>4, <1>0b, StatusRecords, Assemble
    <2> QED
      BY <2>2, <2>3, <2>4
  <1>3. CASE AllStopped(r)
    <2>1. /\ UNCHANGED <<today, checked, records, made, archive, up, purge, restarts>>
          /\ RunAt(r, "stop") /\ RunGoes(r, "archive")
      BY <1>3 DEF AllStopped
    <2> QED
      BY <1>0, <2>1, <1>0a, <1>0c, Assemble
  <1>4. CASE OpenArchive(r)
    <2>1. /\ UNCHANGED <<today, checked, records, made, up, purge, restarts>>
          /\ RunAt(r, "archive") /\ RunGoes(r, "write")
          /\ archive' = [archive EXCEPT ![run[r].day] = r]
      BY <1>4 DEF OpenArchive
    <2>2. archive' \in [Days -> {"none", "partial", "whole"} \cup Runs]
      BY <2>1
    <2> QED
      BY <1>0, <2>1, <2>2, <1>0a, <1>0c, Assemble
  <1>5. CASE CloseArchive(r) \/ ArchiveFails(r)
    <2>1. /\ UNCHANGED <<today, checked, made, up, purge, restarts>> /\ RunAt(r, "write")
          /\ \E a \in {"none", "partial", "whole"} :
                archive' = [archive EXCEPT ![run[r].day] = IF @ = r THEN a ELSE @]
          /\ \/ SetStatus(run[r].id, "failed") /\ RunEnds(r)
             \/ SetStatus(run[r].id, "complete") /\ RunGoes(r, "cleanup")
      BY <1>5 DEF CloseArchive, ArchiveFails
    <2>2. archive' \in [Days -> {"none", "partial", "whole"} \cup Runs]
      BY <2>1
    <2>3. (run \in [Runs -> {NoRun} \cup RunRecord])'
      BY <1>0, <2>1, <1>0b, <1>0c
    <2>4. /\ OneScheduledADay' /\ Marked' /\ DOMAIN records' \subseteq 1..made'
          /\ \A i \in DOMAIN records' : records'[i] \in Record
      BY <2>1, StatusRecords
    <2> QED
      BY <2>1, <2>2, <2>3, <2>4, Assemble
  <1>6. CASE CleanupOldBackups(r)
    <2>1. /\ UNCHANGED <<today, checked, made, up, purge, restarts>>
          /\ RunAt(r, "cleanup") /\ RunGoes(r, "restart")
          /\ \E gone : /\ archive' = [d \in Days |-> IF d \in gone THEN "none" ELSE archive[d]]
                       /\ records' = Without({id \in DOMAIN records : records[id].day \in gone})
      BY <1>6 DEF CleanupOldBackups, RemoveFiles
    <2>2. archive' \in [Days -> {"none", "partial", "whole"} \cup Runs]
      BY <2>1
    <2>3. (run \in [Runs -> {NoRun} \cup RunRecord])'
      BY <1>0, <2>1, <1>0c
    <2>4. /\ OneScheduledADay' /\ Marked' /\ DOMAIN records' \subseteq 1..made'
          /\ \A i \in DOMAIN records' : records'[i] \in Record
      BY <2>1, RestrictedRecords
    <2> QED
      BY <2>1, <2>2, <2>3, <2>4, Assemble
  <1>7. CASE StartFlagged(r)
    <2>1. /\ UNCHANGED <<today, checked, records, made, archive, purge, restarts>>
          /\ RunAt(r, "restart") /\ RunEnds(r)
          /\ \E started \in SUBSET run[r].flagged : up' = up \cup started
      BY <1>7 DEF StartFlagged
    <2>2. run[r] \in RunRecord
      BY <1>0, <2>1, BusyRun
    <2>3. up' \subseteq Units
      BY <1>0, <2>1, <2>2 DEF RunRecord
    <2> QED
      BY <2>1, <2>3, <1>0a, <1>0b, Assemble
  <1> QED
    BY <1>1, <1>2, <1>3, <1>4, <1>5, <1>6, <1>7 DEF BackupStep

(* A new record: the scheduler's is the first of its day, for that day is   *)
(* not yet checked when it is made and marked with it.                      *)
LEMMA CreateInv ==
  ASSUME BackupIInv, NEW r \in Runs, CreatePending(r),
         \/ r # Scheduler /\ checked' = checked
         \/ checked # today /\ checked' = today,
         UNCHANGED <<today, archive, up, purge, restarts>>
  PROVE  BackupIInv'
  <1> DEFINE new == [day |-> today, status |-> "pending", by |-> r]
             x == [pc |-> "query", id |-> made + 1, day |-> today, todo |-> {}, flagged |-> {}]
  <1>1. /\ made' = made + 1 /\ made < MaxRecords /\ made \in Nat /\ MaxRecords \in Nat
        /\ records' = [id \in DOMAIN records \cup {made + 1} |->
                         IF id = made + 1 THEN new ELSE records[id]]
        /\ run' = [run EXCEPT ![r] = x]
    BY Types, BackupAssumption DEF CreatePending
  <1>2. /\ today \in Days /\ today \in Nat /\ checked \in 0..MaxDay /\ MaxDay \in Nat
        /\ restarts \in 0..MaxRestarts
    BY BackupAssumption DEF BackupIInv, BackupInv, BackupTypeOK, Days
  <1>3. DOMAIN records \subseteq 1..made /\ \A i \in DOMAIN records : records[i] \in Record
    BY Types
  <1>4. new \in Record
    BY <1>2 DEF Record
  <1>5. /\ DOMAIN records' \subseteq 1..made'
        /\ \A i \in DOMAIN records' : records'[i] \in Record
    BY <1>1, <1>3, <1>4
  <1>6. run' \in [Runs -> {NoRun} \cup RunRecord']
    <2>1. run \in [Runs -> {NoRun} \cup RunRecord]
      BY Types
    <2>2. 1..made \subseteq 1..made' /\ made + 1 \in 1..made'
      BY <1>1
    <2>3. RunRecord \subseteq RunRecord' /\ x \in RunRecord'
      BY <1>2, <2>2 DEF RunRecord, Pcs
    <2> QED
      BY <1>1, <2>1, <2>3
  <1>7. checked <= checked' /\ checked' <= today' /\ checked' \in 0..MaxDay
    BY <1>2 DEF BackupIInv, Marked, Days
  <1>8. \A id \in DOMAIN records : records[id].by = Scheduler => records[id].day <= checked
    BY DEF BackupIInv, Marked
  <1>9. Marked'
    <2>1. ASSUME NEW id \in DOMAIN records', records'[id].by = Scheduler
          PROVE  records'[id].day <= checked'
      <3>1. CASE id = made + 1
        BY <1>1, <1>2, <2>1, <3>1
      <3>2. CASE id # made + 1
        <4>1. id \in DOMAIN records /\ records'[id] = records[id]
          BY <1>1, <2>1, <3>2
        <4>2. records[id].day \in Nat /\ records[id].day <= checked
          BY <1>3, <1>8, <2>1, <4>1 DEF Record, Days
        <4> QED
          BY <1>2, <1>7, <4>1, <4>2
      <3> QED
        BY <3>1, <3>2
    <2> QED
      BY <1>7, <2>1 DEF Marked
  <1>10. OneScheduledADay'
    <2>1. \A id \in DOMAIN records :
            r = Scheduler /\ records[id].by = Scheduler => records[id].day # today
      <3>1. r = Scheduler => checked < today
        BY <1>2 DEF BackupIInv, Marked
      <3> QED
        BY <1>2, <1>3, <1>8, <3>1 DEF Record, Days
    <2>2. \A i, k \in DOMAIN records :
            records[i].by = Scheduler /\ records[k].by = Scheduler
              /\ records[i].day = records[k].day => i = k
      BY DEF BackupIInv, BackupInv, OneScheduledADay
    <2>3. \A id \in DOMAIN records' :
            \/ id = made + 1 /\ records'[id] = new
            \/ id \in DOMAIN records /\ records'[id] = records[id]
      BY <1>1
    <2> QED
      BY <2>1, <2>2, <2>3 DEF OneScheduledADay
  <1>11. BackupTypeOK'
    BY <1>1, <1>2, <1>5, <1>6, <1>7, Types DEF BackupTypeOK, RunRecord, Pcs, Record
  <1> QED
    BY <1>9, <1>10, <1>11 DEF BackupIInv, BackupInv

(* Requests, the clock, starts and restarts. *)
LEMMA OtherInv ==
  ASSUME BackupIInv,
         \/ List \/ (\E id \in 1..MaxRecords : Delete(id)) \/ RemoveRows
         \/ NextDay \/ (\E u \in Units : StartUnit(u)) \/ ManagerRestarts
         \/ UNCHANGED backupVars
  PROVE  BackupIInv'
  <1> USE Types
  <1>0. ASSUME UNCHANGED <<records, today, checked, made>>
        PROVE  /\ OneScheduledADay' /\ Marked' /\ DOMAIN records' \subseteq 1..made'
               /\ \A i \in DOMAIN records' : records'[i] \in Record
    BY <1>0, SameRecords
  <1>00. ASSUME UNCHANGED <<run, made>>
         PROVE  (run \in [Runs -> {NoRun} \cup RunRecord])'
    BY <1>00 DEF RunRecord
  <1>1. CASE List \/ (\E id \in 1..MaxRecords : Delete(id))
    <2>1. UNCHANGED <<today, checked, records, made, up, run, restarts>>
      BY <1>1 DEF List, Delete
    <2>2. purge' \subseteq 1..made /\ archive' \in [Days -> {"none", "partial", "whole"} \cup Runs]
      BY <1>1 DEF List, Delete
    <2> QED
      BY <2>1, <2>2, <1>0, <1>00, Assemble
  <1>2. CASE RemoveRows
    <2>1. /\ records' = Without(purge) /\ purge' = {}
          /\ UNCHANGED <<today, checked, made, archive, up, run, restarts>>
      BY <1>2 DEF RemoveRows
    <2>2. /\ OneScheduledADay' /\ Marked' /\ DOMAIN records' \subseteq 1..made'
          /\ \A i \in DOMAIN records' : records'[i] \in Record
      BY <2>1, RestrictedRecords
    <2> QED
      BY <2>1, <2>2, <1>00, Assemble
  <1>3. CASE NextDay
    <2>1. /\ today < MaxDay /\ today' = today + 1
          /\ UNCHANGED <<checked, records, made, archive, up, run, purge, restarts>>
      BY <1>3 DEF NextDay
    <2>2. today' \in Days /\ checked' <= today'
      BY <2>1, BackupAssumption DEF BackupIInv, BackupInv, BackupTypeOK, Marked, Days
    <2>3. Marked' /\ OneScheduledADay'
      BY <2>1, <2>2 DEF BackupIInv, BackupInv, Marked, OneScheduledADay
    <2>4. BackupTypeOK'
      BY <2>1, <2>2 DEF BackupIInv, BackupInv, BackupTypeOK, Days
    <2> QED
      BY <2>3, <2>4 DEF BackupIInv, BackupInv
  <1>4. CASE \E u \in Units : StartUnit(u)
    <2>1. /\ UNCHANGED <<today, checked, records, made, archive, run, purge, restarts>>
          /\ up' \subseteq Units
      BY <1>4 DEF StartUnit
    <2> QED
      BY <2>1, <1>0, <1>00, Assemble
  <1>5. CASE ManagerRestarts
    <2>1. /\ restarts < MaxRestarts /\ restarts' = restarts + 1
          /\ run' = [r \in Runs |-> NoRun] /\ purge' = {} /\ up' = up \cup Flagged
          /\ archive' = [d \in Days |-> IF archive[d] \in Runs THEN "partial" ELSE archive[d]]
          /\ UNCHANGED <<today, checked, records, made>>
      BY <1>5 DEF ManagerRestarts
    <2>2. archive' \in [Days -> {"none", "partial", "whole"} \cup Runs]
      BY <2>1
    <2>3. restarts' \in 0..MaxRestarts
      BY <2>1, BackupAssumption DEF BackupIInv, BackupInv, BackupTypeOK
    <2>4. (run \in [Runs -> {NoRun} \cup RunRecord])'
      BY <2>1
    <2>5. BackupTypeOK'
      BY <2>1, <2>2, <2>3, <2>4, BackupAssumption
         DEF BackupIInv, BackupInv, BackupTypeOK, RunRecord, Pcs
    <2> QED
      BY <2>1, <2>5, <1>0 DEF BackupIInv, BackupInv
  <1>6. CASE UNCHANGED backupVars
    <2>1. UNCHANGED <<today, checked, records, made, archive, up, run, purge, restarts>>
      BY <1>6 DEF backupVars
    <2> QED
      BY <2>1, <1>0, <1>00, Assemble
  <1> QED
    BY <1>1, <1>2, <1>3, <1>4, <1>5, <1>6

LEMMA BackupNextInv ==
  ASSUME BackupIInv, [BackupNext]_backupVars
  PROVE  BackupIInv'
  <1>1. CASE \E r \in Manual : Create(r)
    <2>1. PICK r \in Manual : Create(r)
      BY <1>1
    <2>2. /\ r \in Runs /\ r # Scheduler /\ CreatePending(r)
          /\ UNCHANGED <<today, checked, archive, up, purge, restarts>>
      BY <2>1, BackupAssumption DEF Create, Runs
    <2> QED
      BY <2>2, CreateInv
  <1>2. CASE CheckAndRun
    <2>1. /\ checked # today /\ checked' = today
          /\ UNCHANGED <<today, archive, up, purge, restarts>>
          /\ CreatePending(Scheduler) \/ UNCHANGED <<records, made, run>>
      BY <1>2 DEF CheckAndRun
    <2>2. CASE CreatePending(Scheduler)
      BY <2>1, <2>2, CreateInv DEF Runs
    <2>3. CASE UNCHANGED <<records, made, run>>
      <3>1. /\ today \in Days /\ checked \in 0..MaxDay /\ checked <= today
            /\ \A i \in DOMAIN records : records[i] \in Record
            /\ \A id \in DOMAIN records : records[id].by = Scheduler => records[id].day <= checked
        BY Types DEF BackupIInv, BackupInv, BackupTypeOK, Marked
      <3>2. \A id \in DOMAIN records : records[id].by = Scheduler => records[id].day <= today
        BY <3>1, BackupAssumption DEF Record, Days
      <3>3. Marked' /\ OneScheduledADay'
        BY <2>1, <2>3, <3>1, <3>2, BackupAssumption
           DEF BackupIInv, BackupInv, Marked, OneScheduledADay, Days
      <3>4. BackupTypeOK'
        BY <2>1, <2>3, <3>1, BackupAssumption DEF BackupIInv, BackupInv, BackupTypeOK, Days
      <3> QED
        BY <3>3, <3>4 DEF BackupIInv, BackupInv
    <2> QED
      BY <2>1, <2>2, <2>3
  <1>3. CASE \E r \in Runs : BackupStep(r)
    BY <1>3, BackupStepInv
  <1> QED
    BY <1>1, <1>2, <1>3, OtherInv DEF BackupNext

(* The inductive invariant: what the scheduler has recorded, it has checked. *)
THEOREM BackupInvariance == BackupSpec => []BackupIInv
  BY BackupInitInv, BackupNextInv, PTL DEF BackupSpec

(* The scheduler (CheckAndRun, MarkCheckedToday) makes one attempt a day at *)
(* most, whatever fails and whenever the manager is restarted.               *)
THEOREM BackupInvHolds == BackupSpec => []BackupInv
  <1>1. BackupIInv => BackupInv
    BY DEF BackupIInv
  <1> QED
    BY BackupInvariance, <1>1, PTL



-------------------------------------------------------------------------------
(***************************************************************************)
(* One run at a time (MCBackup).  A backup is taken cold because what is   *)
(* left to stop covers what runs, and it survives its own cleanup because  *)
(* no archive bears a later date.                                          *)
(***************************************************************************)
NoneAhead == \A d \in Days : archive[d] # "none" => d <= today

OneRun == \A r, q \in Runs : ~Idle(r) /\ ~Idle(q) => r = q

(* How far the run has come. *)
Cold(r) ==
  /\ RunAt(r, "stop") => up \subseteq run[r].todo
  /\ RunAt(r, "archive") \/ RunAt(r, "write") => up = {}
  /\ RunAt(r, "write") => archive[today] = r
  /\ RunAt(r, "cleanup") \/ RunAt(r, "restart") => archive[today] = "whole"

Recorded(r) ==
  /\ run[r].day = today
  /\ run[r].id \in DOMAIN records /\ records[run[r].id].day = today

OneAtWork == OneRun /\ \A r \in Runs : ~Idle(r) => purge = {} /\ Recorded(r) /\ Cold(r)

(* The file of today is one of the last. *)
LEMMA TodayIsNewest ==
  ASSUME BackupTypeOK, NoneAhead
  PROVE  today \notin Files \ Newest(Files)
  <1> SUFFICES ASSUME today \in Files
               PROVE  today \in Newest(Files)
    OBVIOUS
  <1>1. Days \subseteq Nat /\ today \in Nat
    BY BackupAssumption DEF BackupTypeOK, Days
  <1>2. \A e \in Files : ~(e > today)
    BY <1>1 DEF Files, NoneAhead
  <1>3. {e \in Files : e > today} = {}
    BY <1>2
  <1>4. Cardinality({e \in Files : e > today}) = 0
    BY <1>3, FS_EmptySet
  <1>5. Cardinality({e \in Files : e > today}) < Retention
    BY <1>4, BackupAssumption
  <1> QED
    BY <1>5 DEF Newest

(* While one run is at work the others stay idle. *)
LEMMA OthersIdle ==
  ASSUME BackupTypeOK, OneRun, NEW r \in Runs, ~Idle(r), NEW x, run' = [run EXCEPT ![r] = x]
  PROVE  OneRun' /\ run'[r] = x /\ \A q \in Runs \ {r} : Idle(q)'
  BY DEF BackupTypeOK, OneRun, Idle, RunAt

(* A run that goes on has to keep its own facts only, ... *)
LEMMA WorkGoesOn ==
  ASSUME BackupTypeOK, OneAtWork, NEW r \in Runs, ~Idle(r), NEW x, run' = [run EXCEPT ![r] = x],
         purge' = {}, Recorded(r)', Cold(r)'
  PROVE  OneAtWork'
  BY OthersIdle DEF OneAtWork

(* ... and after its end there is nothing to keep. *)
LEMMA WorkEnds ==
  ASSUME BackupTypeOK, OneAtWork, NEW r \in Runs, ~Idle(r), RunEnds(r)
  PROVE  OneAtWork'
  <1>1. OneRun' /\ run'[r] = NoRun /\ \A q \in Runs \ {r} : Idle(q)'
    BY OthersIdle DEF RunEnds, OneAtWork
  <1>2. Idle(r)'
    BY <1>1 DEF Idle, RunAt, NoRun
  <1> QED
    BY <1>1, <1>2 DEF OneAtWork

(* The record of a run keeps its day, whatever becomes of its status. *)
LEMMA StatusKeepsDay ==
  ASSUME BackupTypeOK, NEW id, NEW s, SetStatus(id, s)
  PROVE  DOMAIN records' = DOMAIN records
         /\ \A i \in DOMAIN records : records'[i].day = records[i].day
  <1>1. CASE id \notin DOMAIN records
    BY <1>1 DEF SetStatus
  <1>2. CASE id \in DOMAIN records
    <2>1. records' = [records EXCEPT ![id] = [records[id] EXCEPT !.status = s]]
      BY <1>2 DEF SetStatus
    <2>2. [records[id] EXCEPT !.status = s].day = records[id].day
      BY <1>2 DEF BackupTypeOK
    <2>3. DOMAIN records' = DOMAIN records
          /\ \A i \in DOMAIN records : records'[i] = IF i = id
                THEN [records[id] EXCEPT !.status = s] ELSE records[i]
      BY <2>1, Zenon
    <2> QED
      BY <2>2, <2>3
  <1> QED
    BY <1>1, <1>2

LEMMA SerialStep ==
  ASSUME BackupTypeOK, NoneAhead, OneAtWork, NEW r \in Runs, BackupStep(r),
         today' = today
  PROVE  OneAtWork'
  <1> DEFINE at(pc) == [run[r] EXCEPT !.pc = pc]
  <1>1. PICK pc \in Pcs : RunAt(r, pc)
    BY DEF BackupStep, Pcs, Query, StopOne, AllStopped, OpenArchive, CloseArchive,
       ArchiveFails, CleanupOldBackups, RemoveFiles, StartFlagged
  <1>2. ~Idle(r) /\ run[r] \in RunRecord
    BY <1>1, BusyRun DEF Idle, RunAt, Pcs
  <1>3. purge = {} /\ Recorded(r) /\ Cold(r)
    BY <1>2 DEF OneAtWork
  <1>4. ASSUME NEW next \in Pcs, RunGoes(r, next), purge' = purge,
               DOMAIN records' = DOMAIN records,
               \A i \in DOMAIN records : records'[i].day = records[i].day,
               next # "stop",
               next \in {"archive", "write"} => up' = {},
               next = "write" => archive'[today] = r,
               next \in {"cleanup", "restart"} => archive'[today] = "whole"
        PROVE  OneAtWork'
    <2>1. run' = [run EXCEPT ![r] = at(next)]
      BY <1>4 DEF RunGoes
    <2>2. run'[r] = at(next)
      BY <2>1 DEF BackupTypeOK
    <2>3. run'[r].pc = next /\ run'[r].id = run[r].id /\ run'[r].day = run[r].day
      BY <1>2, <2>2 DEF RunRecord
    <2>4. Recorded(r)'
      BY <1>3, <1>4, <2>3 DEF Recorded
    <2>5. Cold(r)'
      BY <1>4, <2>3 DEF Cold, RunAt
    <2> QED
      BY <1>2, <1>3, <1>4, <2>1, <2>4, <2>5, WorkGoesOn
  <1>5. ASSUME NEW x \in RunRecord, run' = [run EXCEPT ![r] = x], UNCHANGED <<records, purge>>,
               x.pc = "stop", x.id = run[r].id, x.day = run[r].day, up' \subseteq x.todo
        PROVE  OneAtWork'
    <2>1. run'[r] = x
      BY <1>5 DEF BackupTypeOK
    <2>2. Recorded(r)' /\ Cold(r)'
      BY <1>3, <1>5, <2>1 DEF Recorded, Cold, RunAt
    <2> QED
      BY <1>2, <1>3, <1>5, <2>2, WorkGoesOn
  <1>6. CASE Query(r)
    <2>1. CASE RunEnds(r)
      BY <1>2, <2>1, WorkEnds
    <2>2. CASE run' = [run EXCEPT ![r].pc = "stop", ![r].todo = up, ![r].flagged = Flagged]
      <3> DEFINE x == [run[r] EXCEPT !.pc = "stop", !.todo = up, !.flagged = Flagged]
      <3>1. run' = [run EXCEPT ![r] = x]
        BY <2>2
      <3>2. x \in RunRecord /\ x.pc = "stop" /\ x.id = run[r].id /\ x.day = run[r].day /\ x.todo = up
        BY <1>2, BackupAssumption DEF RunRecord, BackupTypeOK, Pcs
      <3>3. up' = up /\ UNCHANGED <<records, purge>>
        BY <1>6 DEF Query
      <3> HIDE DEF x
      <3> QED
        BY <1>5, <3>1, <3>2, <3>3
    <2> QED
      BY <1>6, <2>1, <2>2 DEF Query
  <1>7. CASE StopOne(r)
    <2>1. PICK u \in run[r].todo :
            \/ up' = up \ {u} /\ run' = [run EXCEPT ![r].todo = @ \ {u}] /\ UNCHANGED records
            \/ RunEnds(r)
      BY <1>7 DEF StopOne
    <2>2. CASE RunEnds(r)
      BY <1>2, <2>2, WorkEnds
    <2>3. CASE up' = up \ {u} /\ run' = [run EXCEPT ![r].todo = @ \ {u}] /\ UNCHANGED records
      <3> DEFINE x == [run[r] EXCEPT !.todo = run[r].todo \ {u}]
      <3>1. run' = [run EXCEPT ![r] = x]
        BY <2>3
      <3>2. run[r].pc = "stop" /\ up \subseteq run[r].todo
        BY <1>3, <1>7 DEF StopOne, RunAt, Cold
      <3>3. x \in RunRecord /\ x.pc = "stop" /\ x.id = run[r].id /\ x.day = run[r].day
            /\ x.todo = run[r].todo \ {u}
        BY <1>2, <3>2 DEF RunRecord
      <3>4. UNCHANGED <<records, purge>>
        BY <1>7, <2>3 DEF StopOne
      <3> HIDE DEF x
      <3> QED
        BY <1>5, <2>3, <3>1, <3>2, <3>3, <3>4
    <2> QED
      BY <2>1, <2>2, <2>3
  <1>8. CASE AllStopped(r)
    <2>1. up = {} /\ up' = up /\ RunGoes(r, "archive") /\ UNCHANGED <<records, purge>>
      BY <1>3, <1>8 DEF AllStopped, Cold
    <2> QED
      BY <1>4, <2>1 DEF Pcs
  <1>9. CASE OpenArchive(r)
    <2>1. up' = {} /\ RunGoes(r, "write") /\ UNCHANGED <<records, purge>>
      BY <1>3, <1>9 DEF OpenArchive, Cold
    <2>2. archive'[today] = r
      BY <1>3, <1>9 DEF OpenArchive, Recorded, BackupTypeOK
    <2> QED
      BY <1>4, <2>1, <2>2 DEF Pcs
  <1>10. CASE CloseArchive(r)
    <2>1. CASE RunEnds(r)
      BY <1>2, <2>1, WorkEnds
    <2>2. CASE SetStatus(run[r].id, "complete") /\ RunGoes(r, "cleanup")
      <3>1. archive[today] = r
        BY <1>3, <1>10 DEF CloseArchive, Cold
      <3>2. archive'[today] = "whole"
        BY <1>3, <1>10, <3>1 DEF CloseArchive, Recorded, BackupTypeOK
      <3>3. purge' = purge
        BY <1>10 DEF CloseArchive
      <3> QED
        BY <1>4, <2>2, <3>2, <3>3, StatusKeepsDay DEF Pcs
    <2> QED
      BY <1>10, <2>1, <2>2 DEF CloseArchive
  <1>11. CASE ArchiveFails(r) \/ StartFlagged(r)
    BY <1>2, <1>11, WorkEnds DEF ArchiveFails, StartFlagged
  <1>12. CASE CleanupOldBackups(r)
    <2>1. PICK gone \in SUBSET (Files \ Newest(Files)) :
            /\ archive' = [d \in Days |-> IF d \in gone THEN "none" ELSE archive[d]]
            /\ records' = Without({id \in DOMAIN records : records[id].day \in gone})
      BY <1>12 DEF CleanupOldBackups, RemoveFiles
    <2>2. today \notin gone
      BY <2>1, TodayIsNewest
    <2>3. run[r].id \in DOMAIN records /\ records[run[r].id].day = today /\ run[r].day = today
      BY <1>3 DEF Recorded
    <2>4. records' = [i \in DOMAIN records \ {id \in DOMAIN records : records[id].day \in gone}
                        |-> records[i]]
      BY <2>1 DEF Without, Restrict
    <2>5. run[r].id \in DOMAIN records' /\ records'[run[r].id].day = today
      BY <2>2, <2>3, <2>4
    <2>6. archive'[today] = "whole"
      BY <1>3, <1>12, <2>1, <2>2 DEF CleanupOldBackups, RemoveFiles, Cold, BackupTypeOK
    <2>7. run' = [run EXCEPT ![r] = at("restart")] /\ purge' = purge
      BY <1>12 DEF CleanupOldBackups, RemoveFiles, RunGoes
    <2>8. run'[r] = at("restart")
      BY <2>7 DEF BackupTypeOK
    <2>9. run'[r].pc = "restart" /\ run'[r].id = run[r].id /\ run'[r].day = run[r].day
      BY <1>2, <2>8 DEF RunRecord
    <2>10. Recorded(r)' /\ Cold(r)'
      BY <2>3, <2>5, <2>6, <2>9 DEF Recorded, Cold, RunAt
    <2> QED
      BY <1>2, <1>3, <2>7, <2>10, WorkGoesOn
  <1> QED
    BY <1>6, <1>7, <1>8, <1>9, <1>10, <1>11, <1>12 DEF BackupStep

(* No archive is made for a day to come. *)
NotAhead == NoneAhead /\ \A r \in Runs : ~Idle(r) => run[r].day <= today

(* The clock goes on, and who writes a file writes one of its own day. *)
LEMMA NotAheadFrame ==
  ASSUME BackupTypeOK, NotAhead, today' \in Nat, today <= today',
         \A d \in Days : archive'[d] # "none" =>
            archive[d] # "none" \/ \E r \in Runs : ~Idle(r) /\ d = run[r].day,
         \A r \in Runs : \/ Idle(r)'
                         \/ ~Idle(r) /\ run'[r].day = run[r].day
                         \/ run'[r].day = today
  PROVE  NotAhead'
  <1>1. Days \subseteq Nat /\ today \in Nat
    BY BackupAssumption DEF BackupTypeOK, Days
  <1>2. \A r \in Runs : ~Idle(r) => run[r].day \in Nat
    <2> SUFFICES ASSUME NEW r \in Runs, ~Idle(r) PROVE run[r].day \in Nat
      OBVIOUS
    <2>1. run[r] \in RunRecord
      BY DEF BackupTypeOK, RunRecord, Pcs, Idle, RunAt, NoRun
    <2> QED
      BY <1>1, <2>1 DEF RunRecord
  <1>3. NoneAhead'
    <2> SUFFICES ASSUME NEW d \in Days, archive'[d] # "none" PROVE d <= today'
      BY DEF NoneAhead
    <2>1. d <= today
      BY DEF NotAhead, NoneAhead
    <2> QED
      BY <1>1, <2>1
  <1>4. \A r \in Runs : ~Idle(r)' => run'[r].day <= today'
    BY <1>1, <1>2 DEF NotAhead
  <1> QED
    BY <1>3, <1>4 DEF NotAhead

LEMMA NotAheadStep ==
  ASSUME BackupTypeOK, NotAhead, [BackupNext]_backupVars
  PROVE  NotAhead'
  <1>0. today \in Nat /\ today <= today
    BY BackupAssumption DEF BackupTypeOK, Days
  <1>1. CASE /\ today' = today /\ run' = run
             /\ \A d \in Days : archive'[d] # "none" => archive[d] # "none"
    BY <1>0, <1>1, NotAheadFrame DEF Idle, RunAt
  <1>2. ASSUME NEW r \in Runs, BackupStep(r)
        PROVE  NotAhead'
    <2>1. today' = today /\ ~Idle(r)
      BY <1>2 DEF BackupStep, Query, StopOne, AllStopped, OpenArchive, CloseArchive,
         ArchiveFails, CleanupOldBackups, RemoveFiles, StartFlagged, Idle, RunAt
    <2>2. run[r] \in RunRecord /\ run \in [Runs -> {NoRun} \cup RunRecord]
      BY <2>1 DEF BackupTypeOK, RunRecord, Pcs, Idle, RunAt, NoRun
    <2>3. \A d \in Days : archive'[d] # "none" => archive[d] # "none" \/ d = run[r].day
      BY <1>2 DEF BackupStep, Query, StopOne, AllStopped, OpenArchive, CloseArchive,
         ArchiveFails, CleanupOldBackups, RemoveFiles, StartFlagged, BackupTypeOK
    <2>4. \A q \in Runs : \/ Idle(q)'
                          \/ ~Idle(q) /\ run'[q].day = run[q].day
      <3>1. \A q \in Runs \ {r} : run'[q] = run[q]
        BY <1>2, <2>2 DEF BackupStep, Query, StopOne, AllStopped, OpenArchive, CloseArchive,
           ArchiveFails, CleanupOldBackups, RemoveFiles, StartFlagged, RunEnds, RunGoes
      <3>2. run'[r] = NoRun \/ run'[r].day = run[r].day
        BY <1>2, <2>2 DEF BackupStep, Query, StopOne, AllStopped, OpenArchive, CloseArchive,
           ArchiveFails, CleanupOldBackups, RemoveFiles, StartFlagged, RunEnds, RunGoes, RunRecord
      <3> SUFFICES ASSUME NEW q \in Runs
                   PROVE  \/ Idle(q)'
                          \/ ~Idle(q) /\ run'[q].day = run[q].day
        OBVIOUS
      <3>3. CASE q # r
        BY <3>1, <3>3 DEF Idle, RunAt
      <3>4. CASE q = r /\ run'[r] = NoRun
        BY <3>4 DEF Idle, RunAt, NoRun
      <3>5. CASE q = r /\ run'[r] # NoRun
        BY <2>1, <3>2, <3>5
      <3> QED
        BY <3>3, <3>4, <3>5
    <2> QED
      BY <1>0, <2>1, <2>3, <2>4, NotAheadFrame
  <1>3. ASSUME NEW r \in Runs, CreatePending(r), UNCHANGED <<today, archive>>
        PROVE  NotAhead'
    <2>1. run' = [run EXCEPT ![r] = [pc |-> "query", id |-> made + 1, day |-> today,
                                     todo |-> {}, flagged |-> {}]]
      BY <1>3 DEF CreatePending
    <2>2. run'[r].day = today /\ \A q \in Runs \ {r} : run'[q] = run[q]
      BY <2>1 DEF BackupTypeOK
    <2> QED
      BY <1>0, <1>3, <2>2, NotAheadFrame DEF Idle, RunAt
  <1>4. CASE CheckAndRun \/ \E r \in Manual : Create(r)
    BY <1>1, <1>3, <1>4 DEF CheckAndRun, Create, Runs
  <1>5. CASE \/ List \/ (\E id \in 1..MaxRecords : Delete(id)) \/ RemoveRows
             \/ (\E u \in Units : StartUnit(u)) \/ UNCHANGED backupVars
    BY <1>1, <1>5 DEF List, Delete, RemoveRows, StartUnit, backupVars, BackupTypeOK
  <1>6. CASE NextDay
    BY <1>0, <1>6, NotAheadFrame DEF NextDay, Idle, RunAt
  <1>7. CASE ManagerRestarts
    <2>1. \A r \in Runs : Idle(r)'
      BY <1>7 DEF ManagerRestarts, Idle, RunAt, NoRun
    <2>2. \A d \in Days : archive'[d] # "none" => archive[d] # "none"
                                                \/ \E r \in Runs : ~Idle(r) /\ d = run[r].day
      <3>1. archive' = [d \in Days |-> IF archive[d] \in Runs THEN "partial" ELSE archive[d]]
        BY <1>7 DEF ManagerRestarts
      <3> QED
        BY <3>1, BackupAssumption DEF Runs
    <2> QED
      BY <1>0, <1>7, <2>1, <2>2, NotAheadFrame DEF ManagerRestarts
  <1> QED
    BY <1>2, <1>4, <1>5, <1>6, <1>7 DEF BackupNext

(* A run begins with nothing to purge and its record at hand. *)
LEMMA SerialBegins ==
  ASSUME BackupTypeOK, NoRunGoes, NEW r \in Runs, CreatePending(r),
         UNCHANGED <<today, purge>>
  PROVE  OneAtWork'
  <1> DEFINE x == [pc |-> "query", id |-> made + 1, day |-> today, todo |-> {}, flagged |-> {}]
  <1>1. run' = [run EXCEPT ![r] = x]
    BY DEF CreatePending
  <1>2. run'[r] = x /\ \A q \in Runs \ {r} : run'[q] = run[q]
    BY <1>1 DEF BackupTypeOK
  <1>3. \A q \in Runs \ {r} : Idle(q)'
    BY <1>2 DEF NoRunGoes, Idle, RunAt
  <1>4. made + 1 \in DOMAIN records' /\ records'[made + 1].day = today
    BY DEF CreatePending
  <1>5. Recorded(r)' /\ Cold(r)' /\ purge' = {}
    BY <1>2, <1>4 DEF Recorded, Cold, RunAt, NoRunGoes
  <1> QED
    BY <1>3, <1>5 DEF OneAtWork, OneRun

SerialRun == serial => OneAtWork

LEMMA SerialRunStep ==
  ASSUME BackupTypeOK, NotAhead, SerialRun, [MCBackupNext]_<<backupVars, serial>>
  PROVE  SerialRun'
  <1> SUFFICES ASSUME serial PROVE OneAtWork'
    BY DEF SerialRun, MCBackupNext
  <1>1. OneAtWork /\ NoneAhead
    BY DEF SerialRun, NotAhead
  <1>2. CASE UNCHANGED backupVars
    BY <1>1, <1>2 DEF backupVars, OneAtWork, OneRun, Recorded, Cold, Idle, RunAt
  <1>3. CASE MCBackupNext /\ ~NoRunGoes
    <2>1. /\ BackupNext /\ today' = today /\ restarts' = restarts
          /\ (\E r \in Runs : ~Idle(r)) => run' # run
          /\ \A r \in Runs : Idle(r) => Idle(r)'
      BY <1>3 DEF MCBackupNext
    <2>2. ASSUME NEW r \in Runs, BackupStep(r) PROVE OneAtWork'
      BY <1>1, <2>1, <2>2, SerialStep
    <2>3. CASE \A r \in Runs : Idle(r)
      BY <2>1, <2>3 DEF OneAtWork, OneRun
    <2>4. ASSUME ~(\A r \in Runs : Idle(r)) PROVE \E r \in Runs : BackupStep(r)
      <3>1. run' # run
        BY <2>1, <2>4
      <3>2. ~(\E r \in Runs : CreatePending(r))
        <4>1. ASSUME NEW r \in Runs, CreatePending(r) PROVE FALSE
          <5>1. Idle(r) /\ run'[r].pc = "query"
            BY <4>1 DEF CreatePending, BackupTypeOK
          <5> QED
            BY <2>1, <5>1 DEF Idle, RunAt
        <4> QED
          BY <4>1
      <3> QED
        BY <2>1, <3>1, <3>2, BackupAssumption DEF BackupNext, Create, CheckAndRun, List, Delete,
           RemoveRows, NextDay, StartUnit, ManagerRestarts, BackupTypeOK, Runs
    <2> QED
      BY <2>2, <2>3, <2>4
  <1>4. CASE MCBackupNext /\ NoRunGoes
    <2>1. \A r \in Runs : Idle(r)
      BY <1>4 DEF NoRunGoes
    <2>2. CASE run' = run
      BY <2>1, <2>2 DEF OneAtWork, OneRun, Idle, RunAt
    <2>3. ASSUME NEW r \in Runs, CreatePending(r), UNCHANGED <<today, purge>>
          PROVE  OneAtWork'
      BY <1>4, <2>3, SerialBegins
    <2>4. ASSUME NEW r \in Runs, BackupStep(r) PROVE FALSE
      BY <2>1, <2>4 DEF Idle, RunAt, BackupStep, Query, StopOne, AllStopped, OpenArchive,
         CloseArchive, ArchiveFails, CleanupOldBackups, RemoveFiles, StartFlagged
    <2>5. CASE ManagerRestarts
      <3>1. \A r \in Runs : Idle(r)'
        BY <2>5 DEF ManagerRestarts, Idle, RunAt, NoRun
      <3> QED
        BY <3>1 DEF OneAtWork, OneRun
    <2> QED
      BY <1>4, <2>2, <2>3, <2>4, <2>5 DEF MCBackupNext, BackupNext, Create, CheckAndRun, List,
         Delete, RemoveRows, NextDay, StartUnit, Runs
  <1> QED
    BY <1>2, <1>3, <1>4

(* With one run at a time what is archived is cold, and the archive and its  *)
(* record outlive the clean-up of the run that made them (RunBackup stops   *)
(* everything first, and CleanupOldBackups keeps the last files).           *)
THEOREM SerialBackupGoodHolds == MCBackupSpec => []SerialBackupGood
  <1>1. MCBackupInit => BackupIInv /\ NotAhead /\ SerialRun
    <2> SUFFICES ASSUME MCBackupInit PROVE BackupIInv /\ NotAhead /\ SerialRun
      OBVIOUS
    <2>1. BackupIInv
      BY BackupInitInv DEF MCBackupInit
    <2>2. \A r \in Runs : Idle(r)
      BY DEF MCBackupInit, BackupInit, Idle, RunAt, NoRun
    <2>3. NoneAhead
      BY DEF MCBackupInit, BackupInit, NoneAhead
    <2> QED
      BY <2>1, <2>2, <2>3 DEF NotAhead, SerialRun, OneAtWork, OneRun
  <1>2. /\ BackupIInv /\ NotAhead /\ SerialRun /\ [MCBackupNext]_<<backupVars, serial>>
        => (BackupIInv /\ NotAhead /\ SerialRun)'
    <2> SUFFICES ASSUME BackupIInv, NotAhead, SerialRun, [MCBackupNext]_<<backupVars, serial>>
                 PROVE  (BackupIInv /\ NotAhead /\ SerialRun)'
      OBVIOUS
    <2>1. [BackupNext]_backupVars /\ BackupTypeOK
      BY DEF MCBackupNext, BackupIInv, BackupInv
    <2> QED
      BY <2>1, BackupNextInv, NotAheadStep, SerialRunStep DEF BackupIInv, BackupInv
  <1>3. SerialRun /\ BackupTypeOK => SerialBackupGood
    <2> SUFFICES ASSUME SerialRun, BackupTypeOK, serial, NEW r \in Runs
                 PROVE  /\ RunAt(r, "write") => up = {}
                        /\ RunAt(r, "restart") =>
                             archive[run[r].day] = "whole" /\ run[r].id \in DOMAIN records
      BY DEF SerialBackupGood, SerialColdCopy, SerialCleanupKeepsOwn
    <2>1. RunAt(r, "write") \/ RunAt(r, "restart") => Recorded(r) /\ Cold(r)
      BY DEF SerialRun, OneAtWork, Idle, RunAt
    <2> QED
      BY <2>1 DEF Recorded, Cold
  <1> QED
    BY <1>1, <1>2, <1>3, PTL DEF MCBackupSpec, BackupIInv, BackupInv

-------------------------------------------------------------------------------
(* ContainerStreams *)

\* A goroutine at work follows a container.
GoodStreams ==
  {x \in [pc : {"free", "attach", "read", "backoff", "cleanup"},
          container : Containers \cup {None}, run : 0..MaxRuns,
          tries : 0..MaxRetries, cancelled : BOOLEAN] :
     x.pc # "free" => x.container \in Containers}

GoodConsoles ==
  {x \in [waiter : {"none", "waits", "woken"}, container : Containers \cup {None},
          run : 0..MaxRuns, open : BOOLEAN] :
     x.waiter # "none" => x.container \in Containers}

DockerOK ==
  /\ container \in [Containers -> {"down", "up", "stopping"}]
  /\ runs \in [Containers -> 0..MaxRuns]
  /\ errors \in [Containers -> 0..MaxErrors]
  /\ marked \subseteq Containers
  /\ phase \in {"logs", "consoles", "subscribe", "serving"}
  /\ events \in [Containers -> Seq({"start", "kill", "die"})]
  /\ handling \in {Quiet} \cup [container : Containers, action : {"start", "kill", "die"}]

LogsOK ==
  /\ streams \in [Containers -> Streams \cup {None}]
  /\ stream \in [Streams -> GoodStreams]

\* A registered console is registered for its own container only, and the
\* goroutine that will close it still waits: an entry is gone before its goroutine is woken.
Registered ==
  \A c \in Containers : consoles[c] # None =>
    LET k == consoles[c] IN
    console[k].waiter = "waits" /\ console[k].open /\ console[k].container = c

ConsolesOK ==
  /\ consoles \in [Containers -> Consoles \cup {None}]
  /\ console \in [Consoles -> GoodConsoles]
  /\ Registered

\* The inductive invariant.
StreamsIInv == DockerOK /\ LogsOK /\ ConsolesOK

LEMMA InitInv == StreamsAssumption /\ Init => StreamsIInv
  <1> SUFFICES ASSUME StreamsAssumption, Init PROVE StreamsIInv
    OBVIOUS
  <1>1. DockerOK
    BY DEF Init, DockerOK, StreamsAssumption
  <1>2. NoStream \in GoodStreams /\ NoConsole \in GoodConsoles
    BY DEF NoStream, NoConsole, GoodStreams, GoodConsoles, StreamsAssumption
  <1> QED
    BY <1>1, <1>2 DEF Init, StreamsIInv, LogsOK, ConsolesOK, Registered

LEMMA Implied == StreamsIInv => StreamsInv
  <1> SUFFICES ASSUME StreamsIInv PROVE StreamsInv
    OBVIOUS
  <1>1. stream \in [Streams ->
           [pc : {"free", "attach", "read", "backoff", "cleanup"},
            container : Containers \cup {None}, run : 0..MaxRuns,
            tries : 0..MaxRetries, cancelled : BOOLEAN]]
    BY DEF StreamsIInv, LogsOK, GoodStreams
  <1>2. console \in [Consoles ->
           [waiter : {"none", "waits", "woken"}, container : Containers \cup {None},
            run : 0..MaxRuns, open : BOOLEAN]]
    BY DEF StreamsIInv, ConsolesOK, GoodConsoles
  <1>3. ConsoleIsOpen
    BY DEF StreamsIInv, ConsolesOK, Registered, ConsoleIsOpen
  <1> QED
    BY <1>1, <1>2, <1>3 DEF StreamsIInv, StreamsInv, TypeOK, DockerOK, LogsOK, ConsolesOK

LEMMA SameLogs == LogsOK /\ UNCHANGED logVars => LogsOK'
  BY DEF LogsOK, logVars

LEMMA SameConsoles == ConsolesOK /\ UNCHANGED consoleVars => ConsolesOK'
  BY DEF ConsolesOK, Registered, consoleVars

LEMMA SameDocker ==
  ASSUME DockerOK, UNCHANGED <<dockerVars, marked, phase, events, handling>>
  PROVE  DockerOK'
  BY DEF DockerOK, dockerVars

\* What is taken is free and goes to one container each.
LEMMA TakeIsOne ==
  ASSUME NEW cs, NEW free, Takes(cs, free) # {}
  PROVE  /\ Take(cs, free) \in [cs -> free]
         /\ \A c, d \in cs : Take(cs, free)[c] = Take(cs, free)[d] => c = d
  <1>1. Take(cs, free) \in Takes(cs, free)
    BY DEF Take
  <1> QED
    BY <1>1 DEF Takes

(***************************************************************************)
(* The goroutines of streamLogs                                            *)
(***************************************************************************)
LEMMA StreamSet ==
  ASSUME LogsOK, NEW g \in Streams, NEW x \in GoodStreams, stream' = [stream EXCEPT ![g] = x],
         streams' \in [Containers -> Streams \cup {None}]
  PROVE  LogsOK'
  BY DEF LogsOK

LEMMA RetryOK ==
  ASSUME StreamsAssumption, LogsOK, NEW g \in Streams, stream[g].pc # "free", Retry(g),
         UNCHANGED streams
  PROVE  LogsOK'
  <1>1. stream[g].tries \in 0..MaxRetries
    BY DEF LogsOK, GoodStreams
  <1>2. CASE stream[g].tries < MaxRetries
    <2>1. stream[g].tries + 1 \in 0..MaxRetries
      BY <1>1, <1>2 DEF StreamsAssumption
    <2>2. stream' = [stream EXCEPT ![g] =
                      [stream[g] EXCEPT !.pc = "backoff", !.tries = stream[g].tries + 1]]
      <3>1. stream' = [stream EXCEPT ![g].pc = "backoff", ![g].tries = stream[g].tries + 1]
        BY <1>1, <1>2 DEF Retry, StreamsAssumption
      <3>2. DOMAIN stream = Streams
        BY DEF LogsOK
      <3> QED
        BY <3>1, <3>2, Zenon
    <2>3. [stream[g] EXCEPT !.pc = "backoff", !.tries = stream[g].tries + 1] \in GoodStreams
      BY <2>1 DEF LogsOK, GoodStreams
    <2> QED
      BY <2>2, <2>3, StreamSet DEF LogsOK
  <1>3. CASE stream[g].tries >= MaxRetries
    <2>1. stream' = [stream EXCEPT ![g] = [stream[g] EXCEPT !.pc = "cleanup"]]
      BY <1>1, <1>3 DEF Retry, StreamsAssumption
    <2>2. [stream[g] EXCEPT !.pc = "cleanup"] \in GoodStreams
      BY DEF LogsOK, GoodStreams
    <2> QED
      BY <2>1, <2>2, StreamSet DEF LogsOK
  <1> QED
    BY <1>1, <1>2, <1>3 DEF StreamsAssumption

LEMMA StreamInv ==
  ASSUME StreamsAssumption, StreamsIInv, NEW g \in Streams, StreamLogs(g)
  PROVE  StreamsIInv'
  <1>1. LogsOK /\ stream[g] \in GoodStreams
    BY DEF StreamsIInv, LogsOK
  <1>2. ASSUME NEW pc \in {"attach", "cleanup"}, stream[g].pc # "free",
               stream' = [stream EXCEPT ![g].pc = pc], UNCHANGED streams
        PROVE  LogsOK'
    <2>1. stream' = [stream EXCEPT ![g] = [stream[g] EXCEPT !.pc = pc]]
      BY <1>2
    <2>2. [stream[g] EXCEPT !.pc = pc] \in GoodStreams
      BY <1>1, <1>2 DEF GoodStreams
    <2> QED
      BY <1>1, <1>2, <2>1, <2>2, StreamSet DEF LogsOK
  <1>3. CASE Attach(g)
    <2> DEFINE c == stream[g].container
    <2>1. stream[g].pc # "free" /\ c \in Containers
      BY <1>1, <1>3 DEF Attach, GoodStreams
    <2>2. ASSUME Alive(c), stream' = [stream EXCEPT ![g].pc = "read", ![g].run = runs[c]]
          PROVE  LogsOK'
      <3>1. stream' = [stream EXCEPT ![g] = [stream[g] EXCEPT !.pc = "read", !.run = runs[c]]]
        BY <2>2 DEF StreamsIInv, LogsOK
      <3>2. runs[c] \in 0..MaxRuns
        BY <2>1 DEF StreamsIInv, DockerOK
      <3>3. [stream[g] EXCEPT !.pc = "read", !.run = runs[c]] \in GoodStreams
        BY <1>1, <2>1, <3>2 DEF GoodStreams
      <3> QED
        BY <1>1, <1>3, <3>1, <3>3, StreamSet DEF LogsOK, Attach
    <2>3. ASSUME Retry(g) PROVE LogsOK'
      BY <1>1, <1>3, <2>1, <2>3, RetryOK DEF Attach
    <2>4. LogsOK'
      BY <1>3, <2>2, <2>3 DEF Attach
    <2> QED
      BY <1>3, <2>4, SameConsoles, SameDocker DEF StreamsIInv, Attach, KeepAllButStreams
  <1>4. CASE ReadEnds(g) \/ Backoff(g) \/ SeeCancel(g)
    <2>1. LogsOK'
      BY <1>2, <1>4 DEF ReadEnds, Outlived, Backoff, SeeCancel
    <2> QED
      BY <1>4, <2>1, SameConsoles, SameDocker
         DEF StreamsIInv, ReadEnds, Backoff, SeeCancel, KeepAllButStreams
  <1>5. CASE ReadFails(g)
    <2>1. LogsOK'
      BY <1>1, <1>5, RetryOK DEF ReadFails
    <2>2. stream[g].container \in Containers
      BY <1>1, <1>5 DEF ReadFails, GoodStreams
    <2>3. errors' \in [Containers -> 0..MaxErrors]
      BY <1>5, <2>2 DEF ReadFails, StreamsIInv, DockerOK, StreamsAssumption
    <2>4. DockerOK'
      BY <1>5, <2>3 DEF ReadFails, StreamsIInv, DockerOK
    <2> QED
      BY <1>5, <2>1, <2>4, SameConsoles DEF StreamsIInv, ReadFails
  <1>6. CASE Cleanup(g)
    <2>1. NoStream \in GoodStreams
      BY DEF NoStream, GoodStreams, StreamsAssumption
    <2>2. LogsOK'
      BY <1>1, <1>6, <2>1 DEF Cleanup, LogsOK
    <2> QED
      BY <1>6, <2>2, SameConsoles, SameDocker DEF StreamsIInv, Cleanup, KeepAllButStreams
  <1> QED
    BY <1>3, <1>4, <1>5, <1>6 DEF StreamLogs

LEMMA FollowOK ==
  ASSUME StreamsAssumption, LogsOK, NEW cs \in SUBSET Containers, Follow(cs)
  PROVE  LogsOK'
  <1> DEFINE new == Take(cs, FreeStreams)
             fresh(g) == [NoStream EXCEPT !.pc = "attach", !.container = Whose(g, new)]
  <1>1. new \in [cs -> FreeStreams]
    BY TakeIsOne DEF Follow
  <1>2. /\ streams' = [c \in Containers |-> IF c \in cs THEN new[c] ELSE streams[c]]
        /\ stream' = [g \in Streams |-> IF \E c \in cs : new[c] = g THEN fresh(g) ELSE stream[g]]
    BY DEF Follow
  <1>3. ASSUME NEW g \in Streams, NEW c \in cs, new[c] = g PROVE fresh(g) \in GoodStreams
    <2>1. Whose(g, new) \in Containers
      BY <1>1, <1>3 DEF Whose
    <2>2. NoStream \in [pc : {"free"}, container : Containers \cup {None}, run : 0..MaxRuns,
                        tries : 0..MaxRetries, cancelled : BOOLEAN]
      BY DEF NoStream, StreamsAssumption
    <2> QED
      BY <2>1, <2>2 DEF GoodStreams
  <1> HIDE DEF new, fresh
  <1>4. stream' \in [Streams -> GoodStreams]
    BY <1>2, <1>3 DEF LogsOK
  <1>5. streams' \in [Containers -> Streams \cup {None}]
    BY <1>1, <1>2 DEF LogsOK, FreeStreams
  <1> QED
    BY <1>4, <1>5 DEF LogsOK

LEMMA StopStreamingOK ==
  ASSUME StreamsAssumption, LogsOK, NEW c \in Containers, StopStreaming(c)
  PROVE  LogsOK'
  <1>1. CASE UNCHANGED logVars
    BY <1>1, SameLogs
  <1>2. CASE streams[c] # None
    <2> DEFINE g == streams[c]
    <2>1. g \in Streams /\ stream[g] \in GoodStreams
      BY <1>2 DEF LogsOK
    <2>2. stream' = [stream EXCEPT ![g] = [stream[g] EXCEPT !.cancelled = TRUE]]
          /\ streams' = [streams EXCEPT ![c] = None]
      BY <1>2 DEF StopStreaming
    <2>3. [stream[g] EXCEPT !.cancelled = TRUE] \in GoodStreams
      BY <2>1 DEF GoodStreams
    <2> QED
      BY <2>1, <2>2, <2>3 DEF LogsOK
  <1> QED
    BY <1>1, <1>2 DEF StopStreaming

(***************************************************************************)
(* ConsoleManager                                                          *)
(***************************************************************************)
LEMMA ConnectOK ==
  ASSUME StreamsAssumption, StreamsIInv, NEW cs \in SUBSET Containers, Connect(cs)
  PROVE  ConsolesOK'
  <1> DEFINE new == Take(cs, FreeConsoles)
             taken == {k \in Consoles : \E c \in cs : new[c] = k}
             opened(k) == [waiter |-> "waits", container |-> Whose(k, new),
                           run |-> runs[Whose(k, new)], open |-> TRUE]
  <1>1. /\ new \in [cs -> FreeConsoles]
        /\ \A c, d \in cs : new[c] = new[d] => c = d
    BY TakeIsOne DEF Connect
  <1>3. \A c \in cs : new[c] \in taken /\ new[c] \in FreeConsoles
    BY <1>1 DEF FreeConsoles
  <1>4. \A c \in cs : Whose(new[c], new) = c
    BY <1>1 DEF Whose
  <1>5. \A k \in taken : Whose(k, new) \in cs
    BY <1>4
  <1>6. taken \subseteq FreeConsoles
    BY <1>3
  <1>7. \A k \in taken : opened(k) \in GoodConsoles
    BY <1>5 DEF GoodConsoles, StreamsIInv, DockerOK
  <1>8. taken \subseteq Consoles
    OBVIOUS
  <1>9. consoles' = [c \in Containers |-> IF c \in cs THEN new[c] ELSE consoles[c]]
    BY DEF Connect
  <1>10. console' = [k \in Consoles |-> IF k \in taken THEN opened(k) ELSE console[k]]
    BY DEF Connect
  <1> HIDE DEF new, taken
  <1>11. consoles' \in [Containers -> Consoles \cup {None}]
    BY <1>3, <1>9 DEF StreamsIInv, ConsolesOK, FreeConsoles
  <1>12. console' \in [Consoles -> GoodConsoles]
    BY <1>7, <1>10 DEF StreamsIInv, ConsolesOK
  <1>13. ASSUME NEW c \in Containers, consoles'[c] # None
         PROVE  LET k == consoles'[c] IN
                console'[k].waiter = "waits" /\ console'[k].open /\ console'[k].container = c
    <2>1. CASE c \in cs
      <3>1. consoles'[c] = new[c] /\ new[c] \in taken /\ new[c] \in Consoles
        BY <1>3, <1>8, <1>9, <2>1
      <3>2. console'[new[c]] = opened(new[c])
        BY <1>10, <3>1
      <3> QED
        BY <1>4, <2>1, <3>1, <3>2
    <2>2. CASE c \notin cs
      <3>1. consoles'[c] = consoles[c] /\ consoles[c] \in Consoles
        BY <1>9, <1>13, <2>2 DEF StreamsIInv, ConsolesOK
      <3>2. console[consoles[c]].waiter = "waits"
        BY <1>13, <3>1 DEF StreamsIInv, ConsolesOK, Registered
      <3>3. consoles[c] \notin taken
        BY <1>6, <3>2 DEF FreeConsoles
      <3>4. console'[consoles[c]] = console[consoles[c]]
        BY <1>10, <3>1, <3>3
      <3> QED
        BY <1>13, <3>1, <3>4 DEF StreamsIInv, ConsolesOK, Registered
    <2> QED
      BY <2>1, <2>2
  <1> QED
    BY <1>11, <1>12, <1>13 DEF ConsolesOK, Registered

\* To drop an entry and to close only the console it led to.
LEMMA DropOK ==
  ASSUME StreamsAssumption, ConsolesOK, NEW c \in Containers,
         consoles' = [consoles EXCEPT ![c] = None],
         console' \in [Consoles -> GoodConsoles],
         \A k \in Consoles : console[k].waiter = "waits" /\ k # consoles[c] => console'[k] = console[k]
  PROVE  ConsolesOK'
  <1>1. consoles' \in [Containers -> Consoles \cup {None}]
    BY DEF ConsolesOK
  <1>2. ASSUME NEW d \in Containers, consoles'[d] # None
        PROVE  LET k == consoles'[d] IN
               console'[k].waiter = "waits" /\ console'[k].open /\ console'[k].container = d
    <2>1. d # c /\ consoles'[d] = consoles[d] /\ consoles[d] \in Consoles
      BY <1>2 DEF ConsolesOK
    <2>2. /\ console[consoles[d]].waiter = "waits" /\ console[consoles[d]].open
          /\ console[consoles[d]].container = d
      BY <1>2, <2>1 DEF ConsolesOK, Registered
    <2>3. consoles[d] # consoles[c]
      BY <2>1, <2>2 DEF ConsolesOK, Registered, StreamsAssumption
    <2>4. console'[consoles[d]] = console[consoles[d]]
      BY <2>1, <2>2, <2>3
    <2> QED
      BY <2>1, <2>2, <2>4
  <1> QED
    BY <1>1, <1>2 DEF ConsolesOK, Registered

LEMMA StopConsoleOK ==
  ASSUME StreamsAssumption, ConsolesOK, NEW c \in Containers, StopConsole(c)
  PROVE  ConsolesOK'
  <1>1. CASE UNCHANGED consoleVars
    BY <1>1, SameConsoles
  <1>2. CASE consoles[c] # None
    <2> DEFINE k == consoles[c]
               closed == [console[k] EXCEPT !.waiter = "woken", !.open = FALSE]
    <2>1. k \in Consoles /\ console[k] \in GoodConsoles /\ console[k].container = c
      BY <1>2 DEF ConsolesOK, Registered
    <2>2. console' = [console EXCEPT ![k] = closed] /\ consoles' = [consoles EXCEPT ![c] = None]
      BY <1>2, <2>1 DEF StopConsole, ConsolesOK
    <2>3. closed \in GoodConsoles
      BY <2>1 DEF GoodConsoles
    <2> HIDE DEF closed
    <2>4. console' \in [Consoles -> GoodConsoles]
      BY <2>2, <2>3 DEF ConsolesOK
    <2>5. \A j \in Consoles : j # k => console'[j] = console[j]
      BY <2>2 DEF ConsolesOK
    <2> QED
      BY <2>2, <2>4, <2>5, DropOK
  <1> QED
    BY <1>1, <1>2 DEF StopConsole

LEMMA WokenInv ==
  ASSUME StreamsAssumption, StreamsIInv, NEW k \in Consoles, Woken(k)
  PROVE  StreamsIInv'
  <1> DEFINE c == console[k].container
             other == consoles[c]
             ended == [console EXCEPT ![k].waiter = "none"]
  <1>1. ConsolesOK /\ console[k] \in GoodConsoles /\ c \in Containers /\ console[k].waiter = "woken"
    BY DEF StreamsIInv, ConsolesOK, GoodConsoles, Woken
  <1>2. ended = [console EXCEPT ![k] = [console[k] EXCEPT !.waiter = "none"]]
    OBVIOUS
  <1>3. [console[k] EXCEPT !.waiter = "none"] \in GoodConsoles
    BY <1>1 DEF GoodConsoles
  <1>4. ended \in [Consoles -> GoodConsoles]
    BY <1>1, <1>2, <1>3 DEF ConsolesOK
  <1>5. \A j \in Consoles : j # k => ended[j] = console[j]
    BY <1>1 DEF ConsolesOK
  <1>6. CASE other = None /\ console' = ended /\ UNCHANGED consoles
    <2>1. consoles' = [consoles EXCEPT ![c] = None]
      BY <1>1, <1>6 DEF ConsolesOK
    <2> HIDE DEF ended
    <2>2. ConsolesOK'
      BY <1>1, <1>4, <1>5, <1>6, <2>1, DropOK
    <2> QED
      BY <2>2, SameDocker, SameLogs DEF StreamsIInv, Woken
  <1>7. CASE /\ other # None
             /\ console' = [ended EXCEPT ![other].open = FALSE]
             /\ consoles' = [consoles EXCEPT ![c] = None]
    <2> HIDE DEF ended
    <2>1. other \in Consoles /\ ended[other] \in GoodConsoles
      BY <1>1, <1>4, <1>7 DEF ConsolesOK
    <2>2. console' = [ended EXCEPT ![other] = [ended[other] EXCEPT !.open = FALSE]]
      BY <1>7
    <2>3. [ended[other] EXCEPT !.open = FALSE] \in GoodConsoles
      BY <2>1 DEF GoodConsoles
    <2>4. console' \in [Consoles -> GoodConsoles]
      BY <1>4, <2>2, <2>3
    <2>5. \A j \in Consoles : j # k /\ j # other => console'[j] = console[j]
      BY <1>4, <1>5, <2>2
    <2>6. ConsolesOK'
      BY <1>1, <1>7, <2>4, <2>5, DropOK
    <2> QED
      BY <2>6, SameDocker, SameLogs DEF StreamsIInv, Woken
  <1> QED
    BY <1>6, <1>7 DEF Woken

(***************************************************************************)
(* Docker, its events and the boot                                         *)
(***************************************************************************)
LEMMA DockerInv ==
  ASSUME StreamsAssumption, StreamsIInv, NEW c \in Containers, Docker(c)
  PROVE  StreamsIInv'
  <1>1. LogsOK' /\ ConsolesOK'
    BY SameLogs, SameConsoles DEF StreamsIInv, Docker, Start, Signal, Exit, Mark
  <1>2. ASSUME NEW event \in {"start", "kill", "die"}, Emit(c, event)
        PROVE  events' \in [Containers -> Seq({"start", "kill", "die"})]
    <2>1. Append(events[c], event) \in Seq({"start", "kill", "die"})
      BY DEF StreamsIInv, DockerOK
    <2> QED
      BY <1>2, <2>1 DEF Emit, StreamsIInv, DockerOK
  <1>3. CASE Start(c)
    <2>1. runs' \in [Containers -> 0..MaxRuns] /\ errors' \in [Containers -> 0..MaxErrors]
      BY <1>3 DEF Start, StreamsIInv, DockerOK, StreamsAssumption
    <2> QED
      BY <1>1, <1>2, <1>3, <2>1 DEF Start, StreamsIInv, DockerOK
  <1>4. CASE Signal(c)
    BY <1>1, <1>2, <1>4 DEF Signal, StreamsIInv, DockerOK
  <1>5. CASE Exit(c)
    BY <1>1, <1>2, <1>5 DEF Exit, StreamsIInv, DockerOK
  <1>6. CASE Mark(c)
    BY <1>1, <1>6 DEF Mark, StreamsIInv, DockerOK, dockerVars
  <1> QED
    BY <1>3, <1>4, <1>5, <1>6 DEF Docker

LEMMA HandleInv ==
  ASSUME StreamsAssumption, StreamsIInv, Handle
  PROVE  StreamsIInv'
  <1>1. ASSUME NEW c \in Containers, HandleLogs(c) PROVE StreamsIInv'
    <2>1. LogsOK'
      BY <1>1, FollowOK, StopStreamingOK, SameLogs DEF HandleLogs, StartStreaming, StreamsIInv
    <2>2. /\ Head(events[c]) \in {"start", "kill", "die"}
          /\ Tail(events[c]) \in Seq({"start", "kill", "die"})
      BY <1>1 DEF HandleLogs, StreamsIInv, DockerOK
    <2>3. DockerOK'
      BY <1>1, <2>2 DEF HandleLogs, StreamsIInv, DockerOK, dockerVars
    <2> QED
      BY <1>1, <2>1, <2>3, SameConsoles DEF HandleLogs, StreamsIInv
  <1>2. CASE HandleConsole
    <2> DEFINE c == handling.container
    <2>1. c \in Containers
      BY <1>2 DEF HandleConsole, StreamsIInv, DockerOK
    <2>2. ConsolesOK'
      BY <1>2, <2>1, ConnectOK, StopConsoleOK, SameConsoles DEF HandleConsole, StartConsole, StreamsIInv
    <2>3. DockerOK'
      BY <1>2 DEF HandleConsole, StreamsIInv, DockerOK, dockerVars
    <2> QED
      BY <1>2, <2>2, <2>3, SameLogs DEF HandleConsole, StreamsIInv
  <1> QED
    BY <1>1, <1>2 DEF Handle

LEMMA BootInv ==
  ASSUME StreamsAssumption, StreamsIInv, BootLogs \/ BootConsoles \/ Subscribe
  PROVE  StreamsIInv'
  <1>1. DockerOK'
    BY DEF BootLogs, BootConsoles, Subscribe, StreamsIInv, DockerOK, dockerVars
  <1>2. CASE BootLogs
    BY <1>1, <1>2, FollowOK, SameConsoles DEF BootLogs, StreamsIInv, DockerOK
  <1>3. CASE BootConsoles
    <2>1. {c \in marked : Alive(c)} \in SUBSET Containers
      BY DEF StreamsIInv, DockerOK
    <2>2. ConsolesOK'
      BY <1>3, <2>1, ConnectOK DEF BootConsoles
    <2> QED
      BY <1>1, <1>3, <2>2, SameLogs DEF BootConsoles, StreamsIInv
  <1>4. CASE Subscribe
    BY <1>1, <1>4, SameLogs, SameConsoles DEF Subscribe, StreamsIInv
  <1> QED
    BY <1>2, <1>3, <1>4

LEMMA StreamsStepInv == StreamsAssumption /\ StreamsIInv /\ [Next]_vars => StreamsIInv'
  <1> SUFFICES ASSUME StreamsAssumption, StreamsIInv, [Next]_vars PROVE StreamsIInv'
    OBVIOUS
  <1>1. CASE UNCHANGED vars
    BY <1>1, SameLogs, SameConsoles, SameDocker DEF vars, StreamsIInv
  <1> QED
    BY <1>1, DockerInv, StreamInv, WokenInv, HandleInv, BootInv DEF Next

\* Whatever ends, starts and is read at the same time, the console an operator
\* writes to has an open connection (ConsoleManager.consoles), though a goroutine
\* may close the console of a run that is not its own.
THEOREM StreamsInvHolds == Spec => []StreamsInv
  BY InitInv, StreamsStepInv, Implied, StreamsAssumption, PTL DEF Spec

-------------------------------------------------------------------------------
(***************************************************************************)
(* PromptSettles, for any containers, starts, read errors and retries.      *)
(* It speaks of quiet states; what leads there is said of each container    *)
(* by the events that its handlers have still to see.                      *)
(***************************************************************************)
\* The state a container is in after an event of its own.
After(event, state) ==
  /\ event = "start" => state = "up"
  /\ event = "kill" => state = "stopping"
  /\ event = "die" => state = "down"

\* The latest event tells of the container as it is, and no two starts follow
\* each other, the one that ConsoleManager has still to handle included.
Told(c) ==
  /\ events[c] # <<>> => After(events[c][Len(events[c])], container[c])
  /\ events[c] = <<>> /\ handling.container = c => After(handling.action, container[c])
  /\ \A i \in 1..(Len(events[c]) - 1) : events[c][i] = "start" => events[c][i + 1] # "start"
  /\ handling.container = c /\ handling.action = "start" /\ events[c] # <<>> =>
       events[c][1] # "start"

\* At boot the table knows what runs, and nothing is told before it serves.
Booting ==
  /\ phase \in {"logs", "consoles"} => \A c \in Containers : Alive(c) => c \in marked
  /\ phase # "serving" => handling = Quiet /\ \A c \in Containers : events[c] = <<>>
  /\ phase = "logs" => \A g \in Streams : stream[g].pc = "free"
  /\ phase \in {"logs", "consoles"} => \A k \in Consoles : console[k].waiter = "none"

\* A container has one goroutine of streamLogs at most, and its entry leads to
\* it until it is cancelled.
OneFollower ==
  /\ \A c \in Containers : streams[c] # None =>
       /\ stream[streams[c]].pc # "free" /\ ~stream[streams[c]].cancelled
       /\ stream[streams[c]].container = c
  /\ \A g \in Streams : stream[g].pc # "free" /\ ~stream[g].cancelled =>
       streams[stream[g].container] = g
  /\ \A g, h \in Streams :
       stream[g].pc # "free" /\ stream[h].pc # "free" /\ stream[g].container = stream[h].container =>
         g = h

\* Once its start has been handled, the output of a container is followed or
\* will be, unless reading it failed.
Follows(c) ==
  phase # "logs" /\ container[c] = "up" /\ events[c] = <<>> =>
    \/ errors[c] > 0
    \/ /\ streams[c] # None
       /\ \/ stream[streams[c]].pc \in {"attach", "backoff"}
          \/ stream[streams[c]].pc = "read" /\ stream[streams[c]].run = runs[c]

\* A console stays registered until the end of the run has been handled, and
\* none is while a goroutine is about to close it.
OneConsole(c) ==
  /\ consoles[c] # None /\ events[c] = <<>> /\ handling.container # c => Alive(c)
  /\ consoles[c] # None /\ handling.container = c => handling.action # "start"
  /\ consoles[c] # None /\ handling.container # c /\ events[c] # <<>> => events[c][1] # "start"
  /\ \A k \in Consoles : console[k].waiter = "woken" /\ console[k].container = c =>
       /\ consoles[c] = None
       /\ ~(handling.container = c /\ handling.action = "start")

\* Once its start has been handled, a container's console leads to it.
Connects(c) ==
  /\ phase \in {"subscribe", "serving"}
  /\ container[c] = "up" /\ events[c] = <<>> /\ handling.container # c
  => Connected(c)

PromptIInv ==
  prompt =>
    /\ Booting /\ OneFollower
    /\ \A c \in Containers : Told(c) /\ Follows(c) /\ OneConsole(c) /\ Connects(c)

Events == {"start", "kill", "die"}

\* A sequence after one more event.
LEMMA OneMore ==
  ASSUME NEW s \in Seq(Events), NEW e \in Events
  PROVE  /\ Append(s, e) # <<>>
         /\ Len(Append(s, e)) = Len(s) + 1
         /\ Append(s, e)[Len(s) + 1] = e
         /\ \A i \in 1..Len(s) : Append(s, e)[i] = s[i]
         /\ s = <<>> => Append(s, e)[1] = e
         /\ s # <<>> => Append(s, e)[1] = s[1] /\ Len(s) \in 1..Len(s)
  <1>1. Len(Append(s, e)) = Len(s) + 1 /\ Len(s) \in Nat
    OBVIOUS
  <1>2. \A i \in 1..Len(s) : Append(s, e)[i] = s[i]
    OBVIOUS
  <1>3. Append(s, e)[Len(s) + 1] = e
    OBVIOUS
  <1>4. s # <<>> => Len(s) \in 1..Len(s) /\ 1 \in 1..Len(s)
    OBVIOUS
  <1>5. s = <<>> => Len(s) = 0
    OBVIOUS
  <1>6. Append(s, e) # <<>>
    BY <1>1
  <1> QED
    BY <1>1, <1>2, <1>3, <1>4, <1>5, <1>6

\* A sequence without its first element.
LEMMA OneLess ==
  ASSUME NEW s \in Seq(Events), s # <<>>
  PROVE  /\ Head(s) = s[1]
         /\ Len(Tail(s)) = Len(s) - 1
         /\ \A i \in 1..(Len(s) - 1) : Tail(s)[i] = s[i + 1]
         /\ Tail(s) # <<>> => Len(s) > 1
         /\ Tail(s) = <<>> => s[Len(s)] = s[1]
         /\ Len(s) \in Nat
  <1>1. Len(s) \in Nat /\ Len(s) >= 1
    OBVIOUS
  <1>2. Head(s) = s[1]
    OBVIOUS
  <1>3. Tail(s) \in Seq(Events) /\ Len(Tail(s)) = Len(s) - 1
    OBVIOUS
  <1>4. \A i \in 1..(Len(s) - 1) : Tail(s)[i] = s[i + 1]
    OBVIOUS
  <1>5. Tail(s) # <<>> => Len(Tail(s)) > 0
    BY <1>3
  <1>6. Tail(s) = <<>> => Len(Tail(s)) = 0
    <2>1. \A t : t = <<>> => Len(t) = Len(<<>>)
      BY Zenon
    <2>2. Len(<<>>) = 0
      OBVIOUS
    <2> QED
      BY <2>1, <2>2, Zenon
  <1>7. Tail(s) = <<>> => Len(s) = 1
    BY <1>1, <1>3, <1>6
  <1> QED
    BY <1>1, <1>2, <1>3, <1>4, <1>5, <1>7

\* Told is of the events, the container and what is being handled.
LEMMA SameTold ==
  ASSUME NEW c, Told(c), events'[c] = events[c], container'[c] = container[c],
         UNCHANGED handling
  PROVE  Told(c)'
  BY DEF Told

LEMMA SameFollower == OneFollower /\ UNCHANGED logVars => OneFollower'
  BY DEF OneFollower, logVars

LEMMA SameFollows ==
  ASSUME NEW c, Follows(c), UNCHANGED <<phase, logVars>>,
         events'[c] = events[c], container'[c] = container[c], runs'[c] = runs[c],
         errors'[c] = errors[c]
  PROVE  Follows(c)'
  BY DEF Follows, logVars

LEMMA SameConsole ==
  ASSUME NEW c, OneConsole(c), UNCHANGED <<handling, consoleVars>>,
         events'[c] = events[c], container'[c] = container[c]
  PROVE  OneConsole(c)'
  BY DEF OneConsole, consoleVars, Alive

LEMMA SameConnects ==
  ASSUME NEW c, Connects(c), UNCHANGED <<phase, handling, consoleVars>>,
         events'[c] = events[c], container'[c] = container[c], runs'[c] = runs[c]
  PROVE  Connects(c)'
  BY DEF Connects, Connected, consoleVars

\* What PromptIInv says of one container.
Container(c) == Told(c) /\ Follows(c) /\ OneConsole(c) /\ Connects(c)

(***************************************************************************)
(* Docker                                                                  *)
(***************************************************************************)
\* An event adds to what is told of its container.
LEMMA TellsMore ==
  ASSUME StreamsIInv, NEW c \in Containers, Told(c), NEW e \in Events,
         events'[c] = Append(events[c], e), After(e, container'[c]), UNCHANGED handling,
         e = "start" => container[c] = "down"
  PROVE  Told(c)'
  <1>1. events[c] \in Seq(Events)
    BY DEF StreamsIInv, DockerOK, Events
  <1>2. /\ events'[c] # <<>>
        /\ Len(events'[c]) = Len(events[c]) + 1
        /\ events'[c][Len(events[c]) + 1] = e
        /\ \A i \in 1..Len(events[c]) : events'[c][i] = events[c][i]
        /\ events[c] = <<>> => events'[c][1] = e
        /\ events[c] # <<>> => events'[c][1] = events[c][1] /\ Len(events[c]) \in 1..Len(events[c])
    BY <1>1, OneMore
  <1>3. Len(events[c]) \in Nat
    BY <1>1
  <1>4. After(events'[c][Len(events'[c])], container'[c])
    BY <1>2
  <1>5. ASSUME NEW i \in 1..(Len(events'[c]) - 1), events'[c][i] = "start"
        PROVE  events'[c][i + 1] # "start"
    <2>1. i \in 1..Len(events[c])
      BY <1>2, <1>3
    <2>2. CASE i = Len(events[c])
      <3>1. events[c] # <<>> /\ events[c][Len(events[c])] = "start"
        BY <1>2, <1>5, <2>1, <2>2
      <3>2. container[c] = "up"
        BY <3>1 DEF Told, After
      <3> QED
        BY <1>2, <2>2, <3>2
    <2>3. CASE i # Len(events[c])
      <3>1. i \in 1..(Len(events[c]) - 1) /\ i + 1 \in 1..Len(events[c])
        BY <1>3, <2>1, <2>3
      <3> QED
        BY <1>2, <1>5, <2>1, <3>1 DEF Told
    <2> QED
      BY <2>2, <2>3
  <1>6. ASSUME handling.container = c, handling.action = "start" PROVE events'[c][1] # "start"
    <2>1. CASE events[c] = <<>>
      BY <1>2, <1>6, <2>1 DEF Told, After
    <2>2. CASE events[c] # <<>>
      BY <1>2, <1>6, <2>2 DEF Told
    <2> QED
      BY <2>1, <2>2
  <1> QED
    BY <1>2, <1>4, <1>5, <1>6 DEF Told

\* While nothing is registered, nothing is open.
LEMMA NoneYet ==
  ASSUME StreamsIInv, Booting, phase \in {"logs", "consoles"}
  PROVE  \A c \in Containers : consoles[c] = None
  <1>1. \A k \in Consoles : console[k].waiter = "none"
    BY DEF Booting
  <1>2. \A c \in Containers : consoles[c] # None =>
          consoles[c] \in Consoles /\ console[consoles[c]].waiter = "waits"
    BY DEF StreamsIInv, ConsolesOK, Registered
  <1> QED
    BY <1>1, <1>2

\* An event of container d, by its effect.
LEMMA Tells ==
  ASSUME StreamsAssumption, StreamsIInv, Booting, NEW d \in Containers, Container(d),
         NEW e \in Events, Emit(d, e), After(e, container'[d]),
         UNCHANGED <<phase, handling, logVars, consoleVars>>,
         e = "start" => container[d] = "down", e # "start" => Alive(d),
         phase # "serving" => e # "start",
         phase = "subscribe" => UNCHANGED container
  PROVE  Container(d)'
  <1>1. events[d] \in Seq(Events)
    BY DEF StreamsIInv, DockerOK, Events
  <1>2. CASE phase = "serving"
    <2>1. events'[d] = Append(events[d], e)
      BY <1>2 DEF Emit, StreamsIInv, DockerOK
    <2>2. Told(d)'
      BY <2>1, TellsMore DEF Container
    <2>3. /\ events'[d] # <<>>
          /\ events[d] = <<>> => events'[d][1] = e
          /\ events[d] # <<>> => events'[d][1] = events[d][1]
      BY <1>1, <2>1, OneMore
    <2>4. Follows(d)' /\ Connects(d)'
      BY <2>3 DEF Follows, Connects
    <2>5. OneConsole(d)'
      BY <2>3 DEF OneConsole, Container, consoleVars, Alive
    <2> QED
      BY <2>2, <2>4, <2>5 DEF Container
  <1>3. CASE phase # "serving"
    <2>1. events'[d] = <<>> /\ handling = Quiet /\ events[d] = <<>> /\ handling.container # d
      BY <1>3 DEF Emit, Booting, Quiet, StreamsAssumption
    <2>2. container'[d] # "up"
      BY <1>3 DEF After, Events
    <2>3. Told(d)' /\ Follows(d)' /\ Connects(d)'
      BY <2>1, <2>2 DEF Told, Follows, Connects
    <2>4. CASE phase = "subscribe"
      BY <2>1, <2>3, <2>4, SameConsole DEF Container
    <2>5. CASE phase \in {"logs", "consoles"}
      <3>1. consoles'[d] = None
        BY <2>5, NoneYet DEF consoleVars
      <3>2. OneConsole(d)'
        BY <2>1, <2>5, <3>1 DEF OneConsole, Booting, consoleVars
      <3> QED
        BY <2>3, <3>2 DEF Container
    <2> QED
      BY <1>3, <2>4, <2>5 DEF StreamsIInv, DockerOK
  <1> QED
    BY <1>2, <1>3

\* What the model of prompt goroutines asks of a step.
PromptStep ==
  /\ phase # "serving" => runs' = runs
  /\ phase = "subscribe" => container' = container
  /\ handling = Quiet /\ handling'.action = "start" => ~Lingers(handling'.container)

LEMMA DockerPrompt ==
  ASSUME StreamsAssumption, StreamsIInv, Booting, OneFollower, PromptStep,
         \A c \in Containers : Container(c), NEW d \in Containers, Docker(d)
  PROVE  Booting' /\ OneFollower' /\ \A c \in Containers : Container(c)'
  <1>1. CASE Mark(d)
    <2>1. Booting'
      BY <1>1 DEF Mark, Booting, Alive, dockerVars, logVars, consoleVars
    <2>2. ASSUME NEW c \in Containers PROVE Container(c)'
      BY <1>1, SameTold, SameFollows, SameConsole, SameConnects DEF Container, Mark, dockerVars
    <2> QED
      BY <1>1, <2>1, <2>2, SameFollower DEF Mark
  <1>2. CASE Start(d) \/ Signal(d) \/ Exit(d)
    <2> DEFINE e == IF Start(d) THEN "start" ELSE IF Signal(d) THEN "kill" ELSE "die"
    <2>1. UNCHANGED <<marked, phase, handling, logVars, consoleVars>>
      BY <1>2 DEF Start, Signal, Exit
    <2>2. Emit(d, e) /\ After(e, container'[d])
      BY <1>2 DEF Start, Signal, Exit, After, Alive, StreamsIInv, DockerOK
    <2>3. (e = "start" => container[d] = "down") /\ (e # "start" => Alive(d))
      BY <1>2 DEF Start, Signal, Exit, Alive
    <2>4. ASSUME NEW c \in Containers, c # d
          PROVE  /\ container'[c] = container[c] /\ events'[c] = events[c]
                 /\ runs'[c] = runs[c] /\ errors'[c] = errors[c]
      BY <1>2, <2>4 DEF Start, Signal, Exit, Emit, StreamsIInv, DockerOK
    <2>5. phase # "serving" => e # "start"
      BY <1>2 DEF Start, PromptStep, StreamsIInv, DockerOK, StreamsAssumption
    <2>6. phase = "subscribe" => UNCHANGED container
      BY DEF PromptStep
    <2>7. e \in Events
      BY DEF Events
    <2> HIDE DEF e
    <2>8. Container(d)'
      BY <2>1, <2>2, <2>3, <2>5, <2>6, <2>7, Tells
    <2>9. ASSUME NEW c \in Containers, c # d PROVE Container(c)'
      BY <2>1, <2>4, <2>9, SameTold, SameFollows, SameConsole, SameConnects DEF Container
    <2>10. \A c \in Containers : Alive(c)' => Alive(c) \/ phase = "serving"
      BY <2>2, <2>3, <2>4, <2>5 DEF Alive
    <2>11. phase # "serving" => UNCHANGED events
      BY <2>2 DEF Emit
    <2>12. Booting'
      BY <2>1, <2>10, <2>11 DEF Booting, logVars, consoleVars
    <2> QED
      BY <2>1, <2>8, <2>9, <2>12, SameFollower
  <1> QED
    BY <1>1, <1>2 DEF Docker

(***************************************************************************)
(* The goroutines of streamLogs                                            *)
(***************************************************************************)
\* A goroutine goes on following its container, cancelled or not.
LEMMA GoesOn ==
  ASSUME StreamsAssumption, LogsOK, OneFollower, NEW g \in Streams, stream[g].pc # "free",
         UNCHANGED streams, \A h \in Streams \ {g} : stream'[h] = stream[h],
         stream'[g].pc # "free", stream'[g].container = stream[g].container,
         stream'[g].cancelled = stream[g].cancelled
  PROVE  OneFollower'
  <1>1. streams \in [Containers -> Streams \cup {None}]
    BY DEF LogsOK
  <1>2. \A h \in Streams : /\ stream'[h].pc # "free" <=> stream[h].pc # "free"
                           /\ stream'[h].container = stream[h].container
                           /\ stream'[h].cancelled = stream[h].cancelled
    OBVIOUS
  <1> QED
    BY <1>1, <1>2 DEF OneFollower

\* What one goroutine becomes is its own affair.
LEMMA GoesFollows ==
  ASSUME StreamsAssumption, LogsOK, NEW g \in Streams, NEW c \in Containers, Follows(c),
         \A h \in Streams \ {g} : stream'[h] = stream[h],
         UNCHANGED <<phase, streams, container, runs, events>>,
         errors[c] > 0 => errors'[c] > 0,
         streams[c] = g /\ container[c] = "up" =>
           \/ errors'[c] > 0
           \/ stream'[g].pc \in {"attach", "backoff"}
           \/ stream'[g].pc = "read" /\ stream'[g].run = runs[c]
  PROVE  Follows(c)'
  <1>1. streams[c] # None => streams[c] \in Streams
    BY DEF LogsOK
  <1> QED
    BY <1>1 DEF Follows

\* A step of a goroutine that is none of another container's.
LEMMA StreamOthers ==
  ASSUME UNCHANGED <<container, runs, marked, phase, events, handling, consoleVars>>,
         Booting, \A c \in Containers : Container(c), phase # "logs"
  PROVE  Booting' /\ \A c \in Containers : Told(c)' /\ OneConsole(c)' /\ Connects(c)'
  <1>1. Booting'
    BY DEF Booting, Alive, consoleVars
  <1>2. ASSUME NEW c \in Containers PROVE Told(c)' /\ OneConsole(c)' /\ Connects(c)'
    BY SameTold, SameConsole, SameConnects DEF Container
  <1> QED
    BY <1>1, <1>2

\* Retry waits for the next attempt or gives up.
LEMMA Retries ==
  ASSUME StreamsAssumption, LogsOK, NEW g \in Streams, Retry(g)
  PROVE  /\ \A h \in Streams \ {g} : stream'[h] = stream[h]
         /\ stream'[g].pc \in {"backoff", "cleanup"}
         /\ stream'[g].container = stream[g].container
         /\ stream'[g].cancelled = stream[g].cancelled
  <1>1. DOMAIN stream = Streams
    BY DEF LogsOK
  <1>2. stream[g] \in GoodStreams
    BY DEF LogsOK
  <1>3. /\ {"pc", "container", "cancelled", "tries"} \subseteq DOMAIN stream[g]
        /\ stream[g].tries \in Nat
    BY <1>2 DEF GoodStreams, StreamsAssumption
  <1>4. CASE stream' = [stream EXCEPT ![g].pc = "backoff", ![g].tries = stream[g].tries + 1]
    BY <1>1, <1>2, <1>4 DEF GoodStreams
  <1>5. CASE stream' = [stream EXCEPT ![g].pc = "cleanup"]
    BY <1>1, <1>2, <1>5 DEF GoodStreams
  <1> QED
    BY <1>4, <1>5 DEF Retry

LEMMA StreamPrompt ==
  ASSUME StreamsAssumption, StreamsIInv, Booting, OneFollower,
         \A c \in Containers : Container(c), NEW g \in Streams, StreamLogs(g)
  PROVE  Booting' /\ OneFollower' /\ \A c \in Containers : Container(c)'
  <1> DEFINE d == stream[g].container
  <1>1. LogsOK /\ stream[g] \in GoodStreams /\ DOMAIN stream = Streams
    BY DEF StreamsIInv, LogsOK
  <1>2. stream[g].pc # "free"
    BY DEF StreamLogs, Attach, ReadEnds, Outlived, ReadFails, Backoff, SeeCancel, Cleanup
  <1>3. d \in Containers
    BY <1>1, <1>2 DEF GoodStreams
  <1>4. UNCHANGED <<container, runs, marked, phase, events, handling, consoleVars>>
    BY DEF StreamLogs, Attach, ReadEnds, ReadFails, Backoff, SeeCancel, Cleanup,
       KeepAllButStreams, dockerVars
  <1>5. phase # "logs"
    BY <1>2 DEF Booting
  <1>6. Booting' /\ \A c \in Containers : Told(c)' /\ OneConsole(c)' /\ Connects(c)'
    BY <1>4, <1>5, StreamOthers
  <1>7. \A c \in Containers : streams[c] = g => c = d /\ ~stream[g].cancelled
    BY DEF OneFollower
  <1>8. ASSUME UNCHANGED <<streams, errors>>, NEW pc \in {"attach", "read", "backoff", "cleanup"},
               \A h \in Streams \ {g} : stream'[h] = stream[h],
               stream'[g].pc = pc, stream'[g].container = d,
               stream'[g].cancelled = stream[g].cancelled,
               streams[d] = g /\ container[d] = "up" =>
                 \/ pc \in {"attach", "backoff"}
                 \/ pc = "read" /\ stream'[g].run = runs[d]
        PROVE  OneFollower' /\ \A c \in Containers : Follows(c)'
    <2>1. OneFollower'
      BY <1>1, <1>2, <1>8, GoesOn
    <2>2. ASSUME NEW c \in Containers PROVE Follows(c)'
      <3>1. Follows(c)
        BY DEF Container
      <3>2. streams[c] = g => c = d
        BY <1>7
      <3> HIDE DEF d
      <3> QED
        BY <1>1, <1>4, <1>8, <3>1, <3>2, GoesFollows
    <2> QED
      BY <2>1, <2>2
  <1>9. ASSUME NEW pc \in {"attach", "read", "backoff", "cleanup"},
               stream' = [stream EXCEPT ![g].pc = pc]
        PROVE  /\ \A h \in Streams \ {g} : stream'[h] = stream[h]
               /\ stream'[g].pc = pc /\ stream'[g].container = d
               /\ stream'[g].cancelled = stream[g].cancelled
    BY <1>1, <1>9 DEF GoodStreams
  <1>10. CASE Attach(g)
    <2>1. UNCHANGED <<streams, errors>>
      BY <1>10 DEF Attach, KeepAllButStreams, dockerVars
    <2>2. CASE stream' = [stream EXCEPT ![g].pc = "read", ![g].run = runs[d]]
      <3>1. /\ \A h \in Streams \ {g} : stream'[h] = stream[h]
            /\ stream'[g].pc = "read" /\ stream'[g].container = d
            /\ stream'[g].cancelled = stream[g].cancelled /\ stream'[g].run = runs[d]
        BY <1>1, <2>2 DEF GoodStreams
      <3> QED
        BY <1>6, <1>8, <2>1, <3>1 DEF Container
    <2>3. CASE ~Alive(d) /\ Retry(g)
      <3>1. /\ \A h \in Streams \ {g} : stream'[h] = stream[h]
            /\ stream'[g].pc \in {"backoff", "cleanup"}
            /\ stream'[g].container = d
            /\ stream'[g].cancelled = stream[g].cancelled
        BY <1>1, <2>3, Retries
      <3>2. container[d] # "up"
        BY <2>3 DEF Alive
      <3> QED
        BY <1>6, <1>8, <2>1, <3>1, <3>2 DEF Container
    <2> QED
      BY <1>10, <2>2, <2>3 DEF Attach
  <1>11. CASE Backoff(g)
    <2>1. UNCHANGED <<streams, errors>> /\ stream' = [stream EXCEPT ![g].pc = "attach"]
      BY <1>11 DEF Backoff, KeepAllButStreams, dockerVars
    <2> QED
      BY <1>6, <1>8, <1>9, <2>1 DEF Container
  <1>12. CASE SeeCancel(g)
    <2>1. UNCHANGED <<streams, errors>> /\ stream' = [stream EXCEPT ![g].pc = "cleanup"]
      BY <1>12 DEF SeeCancel, KeepAllButStreams, dockerVars
    <2>2. streams[d] # g
      BY <1>3, <1>7, <1>12 DEF SeeCancel
    <2> QED
      BY <1>6, <1>8, <1>9, <2>1, <2>2 DEF Container
  <1>13. CASE ReadFails(g)
    <2>1. UNCHANGED streams /\ Retry(g) /\ errors' = [errors EXCEPT ![d] = @ + 1]
      BY <1>13 DEF ReadFails
    <2>2. errors \in [Containers -> 0..MaxErrors] /\ MaxErrors \in Nat
      BY DEF StreamsIInv, DockerOK, StreamsAssumption
    <2>3. errors'[d] > 0 /\ \A c \in Containers : errors[c] > 0 => errors'[c] > 0
      BY <1>3, <2>1, <2>2
    <2>4. /\ \A h \in Streams \ {g} : stream'[h] = stream[h]
          /\ stream'[g].pc \in {"backoff", "cleanup"}
          /\ stream'[g].container = d
          /\ stream'[g].cancelled = stream[g].cancelled
      BY <1>1, <2>1, Retries
    <2>5. OneFollower'
      BY <1>1, <1>2, <2>1, <2>4, GoesOn
    <2>6. ASSUME NEW c \in Containers PROVE Follows(c)'
      <3>1. Follows(c)
        BY DEF Container
      <3>2. streams[c] = g => errors'[c] > 0
        BY <1>7, <2>3
      <3> HIDE DEF d
      <3> QED
        BY <1>1, <1>4, <2>1, <2>3, <2>4, <3>1, <3>2, GoesFollows
    <2> QED
      BY <1>6, <2>5, <2>6 DEF Container
  <1>14. CASE ReadEnds(g)
    <2>1. UNCHANGED <<streams, errors>> /\ stream' = [stream EXCEPT ![g].pc = "cleanup"]
      BY <1>14 DEF ReadEnds, KeepAllButStreams, dockerVars
    <2>2. stream[g].pc = "read" /\ (~Alive(d) \/ runs[d] # stream[g].run)
      BY <1>14 DEF ReadEnds, Outlived
    <2>3. /\ \A h \in Streams \ {g} : stream'[h] = stream[h]
          /\ stream'[g].pc = "cleanup" /\ stream'[g].container = d
          /\ stream'[g].cancelled = stream[g].cancelled
      BY <1>9, <2>1
    <2>4. OneFollower'
      BY <1>1, <1>2, <2>1, <2>3, GoesOn
    <2>5. ASSUME NEW c \in Containers PROVE Follows(c)'
      <3>1. Follows(c)
        BY DEF Container
      <3>2. CASE streams[c] = g
        <4>1. c = d
          BY <1>7, <3>2
        <4>2. phase # "logs" /\ container[d] = "up" /\ events[d] = <<>> => errors[d] > 0
          BY <2>2, <3>1, <3>2, <4>1 DEF Follows, Alive
        <4> QED
          BY <1>4, <2>1, <4>1, <4>2 DEF Follows
      <3>3. CASE streams[c] # g
        <4> HIDE DEF d
        <4> QED
          BY <1>1, <1>4, <2>1, <2>3, <3>1, <3>3, GoesFollows
      <3> QED
        BY <3>2, <3>3
    <2> QED
      BY <1>6, <2>4, <2>5 DEF Container
  <1>15. CASE Cleanup(g)
    <2>1. /\ streams' = [streams EXCEPT ![d] = None] /\ stream' = [stream EXCEPT ![g] = NoStream]
          /\ UNCHANGED errors /\ stream[g].pc = "cleanup"
      BY <1>15 DEF Cleanup, KeepAllButStreams, dockerVars
    <2>2. streams \in [Containers -> Streams \cup {None}]
      BY <1>1 DEF LogsOK
    <2>3. /\ streams'[d] = None /\ stream'[g].pc = "free"
          /\ \A c \in Containers : c # d => streams'[c] = streams[c]
          /\ \A h \in Streams \ {g} : stream'[h] = stream[h]
      BY <1>1, <1>3, <2>1, <2>2 DEF NoStream
    <2>4. \A c \in Containers : c # d => streams[c] # g
      BY <1>7
    <2>5. \A h \in Streams \ {g} : stream[h].pc # "free" => stream[h].container # d
      BY <1>2 DEF OneFollower
    <2>6. \A h \in Streams : stream[h].pc # "free" => stream[h].container \in Containers
      BY <1>1 DEF LogsOK, GoodStreams
    <2> HIDE DEF d
    <2>7. OneFollower'
      BY <2>2, <2>3, <2>4, <2>5, <2>6 DEF OneFollower
    <2>8. ASSUME NEW c \in Containers, c # d PROVE Follows(c)'
      <3>1. streams[c] # None => streams[c] \in Streams \ {g}
        BY <2>2, <2>4, <2>8
      <3> QED
        BY <1>4, <2>1, <2>3, <2>8, <3>1 DEF Follows, Container
    <2>9. ASSUME NEW c \in Containers, c = d PROVE Follows(c)'
      <3>1. streams[c] # None => streams[c] = g
        BY <2>2, <2>5, <2>9 DEF OneFollower
      <3>2. Follows(c)
        BY DEF Container
      <3>3. phase # "logs" /\ container[c] = "up" /\ events[c] = <<>> => errors[c] > 0
        BY <2>1, <3>1, <3>2 DEF Follows
      <3> QED
        BY <1>4, <2>1, <3>3 DEF Follows
    <2> QED
      BY <1>6, <2>7, <2>8, <2>9 DEF Container
  <1> QED
    BY <1>10, <1>11, <1>12, <1>13, <1>14, <1>15 DEF StreamLogs

(***************************************************************************)
(* What is taken and given to containers                                   *)
(***************************************************************************)
\* Each container of cs gets a goroutine of its own; the others keep theirs.
LEMMA FollowGives ==
  ASSUME StreamsAssumption, LogsOK, NEW cs \in SUBSET Containers, Follow(cs)
  PROVE  \E new \in [cs -> FreeStreams] :
           /\ \A c, e \in cs : new[c] = new[e] => c = e
           /\ \A c \in cs : /\ streams'[c] = new[c] /\ stream'[new[c]].pc = "attach"
                            /\ stream'[new[c]].container = c /\ ~stream'[new[c]].cancelled
           /\ \A c \in Containers \ cs : streams'[c] = streams[c]
           /\ \A g \in Streams : (\A c \in cs : new[c] # g) => stream'[g] = stream[g]
  <1> DEFINE new == Take(cs, FreeStreams)
             fresh(g) == [NoStream EXCEPT !.pc = "attach", !.container = Whose(g, new)]
  <1>1. new \in [cs -> FreeStreams] /\ \A c, e \in cs : new[c] = new[e] => c = e
    BY TakeIsOne DEF Follow
  <1>2. /\ streams' = [c \in Containers |-> IF c \in cs THEN new[c] ELSE streams[c]]
        /\ stream' = [g \in Streams |-> IF \E c \in cs : new[c] = g THEN fresh(g) ELSE stream[g]]
    BY DEF Follow
  <1>3. \A c \in cs : Whose(new[c], new) = c
    BY <1>1 DEF Whose
  <1>4. \A g : /\ fresh(g).pc = "attach" /\ fresh(g).container = Whose(g, new)
               /\ ~fresh(g).cancelled
    BY DEF NoStream
  <1>5. \A c \in cs : new[c] \in Streams
    BY <1>1 DEF FreeStreams
  <1> HIDE DEF new, fresh
  <1>6. ASSUME NEW c \in cs
        PROVE  /\ streams'[c] = new[c] /\ stream'[new[c]].pc = "attach"
               /\ stream'[new[c]].container = c /\ ~stream'[new[c]].cancelled
    <2>1. streams'[c] = new[c] /\ stream'[new[c]] = fresh(new[c])
      BY <1>2, <1>5
    <2> QED
      BY <1>3, <1>4, <2>1
  <1>7. \A c \in Containers \ cs : streams'[c] = streams[c]
    BY <1>2
  <1>8. \A g \in Streams : (\A c \in cs : new[c] # g) => stream'[g] = stream[g]
    BY <1>2
  <1> QED
    BY <1>1, <1>6, <1>7, <1>8

\* Containers that nobody follows are followed by one goroutine each.
LEMMA FollowsAll ==
  ASSUME StreamsAssumption, LogsOK, OneFollower, NEW cs \in SUBSET Containers, Follow(cs),
         \A g \in Streams : stream[g].pc # "free" => stream[g].container \notin cs
  PROVE  /\ OneFollower'
         /\ \A c \in cs : streams'[c] # None /\ stream'[streams'[c]].pc = "attach"
         /\ \A c \in Containers \ cs : /\ streams'[c] = streams[c]
                                       /\ streams[c] # None =>
                                            stream'[streams[c]] = stream[streams[c]]
  <1>1. PICK new \in [cs -> FreeStreams] :
          /\ \A c, e \in cs : new[c] = new[e] => c = e
          /\ \A c \in cs : /\ streams'[c] = new[c] /\ stream'[new[c]].pc = "attach"
                           /\ stream'[new[c]].container = c /\ ~stream'[new[c]].cancelled
          /\ \A c \in Containers \ cs : streams'[c] = streams[c]
          /\ \A g \in Streams : (\A c \in cs : new[c] # g) => stream'[g] = stream[g]
    BY FollowGives
  <1>2. \A c \in cs : new[c] \in Streams /\ stream[new[c]].pc = "free" /\ new[c] # None
    BY <1>1 DEF FreeStreams, StreamsAssumption
  <1>3. \A g \in Streams : stream[g].pc # "free" => stream'[g] = stream[g]
    BY <1>1, <1>2
  <1>4. streams \in [Containers -> Streams \cup {None}]
    BY DEF LogsOK
  <1>5. \A g \in Streams : stream'[g].pc # "free" =>
          \/ stream[g].pc # "free" /\ stream'[g] = stream[g]
          \/ \E c \in cs : g = new[c]
    BY <1>1
  <1>6. ASSUME NEW c \in Containers \ cs, streams[c] # None
        PROVE  streams[c] \in Streams /\ stream'[streams[c]] = stream[streams[c]]
    BY <1>3, <1>4, <1>6 DEF OneFollower
  <1>7. \A g \in Streams : stream[g].pc # "free" => stream[g].container \in Containers
    BY DEF LogsOK, GoodStreams
  <1>8. ASSUME NEW c \in Containers, streams'[c] # None
        PROVE  /\ stream'[streams'[c]].pc # "free" /\ ~stream'[streams'[c]].cancelled
               /\ stream'[streams'[c]].container = c
    <2>1. CASE c \in cs
      BY <1>1, <2>1
    <2>2. CASE c \notin cs
      BY <1>1, <1>6, <1>8, <2>2 DEF OneFollower
    <2> QED
      BY <2>1, <2>2
  <1>9. ASSUME NEW g \in Streams, stream'[g].pc # "free", ~stream'[g].cancelled
        PROVE  streams'[stream'[g].container] = g
    <2>1. CASE stream[g].pc # "free" /\ stream'[g] = stream[g]
      BY <1>1, <1>7, <1>9, <2>1 DEF OneFollower
    <2>2. CASE \E c \in cs : g = new[c]
      BY <1>1, <2>2
    <2> QED
      BY <1>5, <1>9, <2>1, <2>2
  <1>10. ASSUME NEW g \in Streams, NEW h \in Streams, stream'[g].pc # "free",
                stream'[h].pc # "free", stream'[g].container = stream'[h].container
         PROVE  g = h
    <2>1. \A x \in Streams : stream'[x].pc # "free" =>
            \/ stream[x].pc # "free" /\ stream'[x] = stream[x] /\ stream'[x].container \notin cs
            \/ stream'[x].container \in cs /\ x = new[stream'[x].container]
      BY <1>1, <1>5
    <2> QED
      BY <1>10, <2>1 DEF OneFollower
  <1> QED
    BY <1>1, <1>2, <1>6, <1>8, <1>9, <1>10 DEF OneFollower

\* Each container of cs gets a console to the run it is in.
LEMMA ConnectGives ==
  ASSUME StreamsAssumption, ConsolesOK, NEW cs \in SUBSET Containers, Connect(cs)
  PROVE  /\ \A c \in cs : consoles'[c] \in Consoles /\ console'[consoles'[c]].run = runs[c]
         /\ \A c \in Containers \ cs : /\ consoles'[c] = consoles[c]
                                       /\ consoles[c] # None =>
                                            console'[consoles[c]] = console[consoles[c]]
         /\ \A k \in Consoles : console'[k].waiter = "woken" => console'[k] = console[k]
  <1> DEFINE new == Take(cs, FreeConsoles)
             opened(k) == [waiter |-> "waits", container |-> Whose(k, new),
                           run |-> runs[Whose(k, new)], open |-> TRUE]
  <1>1. new \in [cs -> FreeConsoles] /\ \A c, e \in cs : new[c] = new[e] => c = e
    BY TakeIsOne DEF Connect
  <1>2. /\ consoles' = [c \in Containers |-> IF c \in cs THEN new[c] ELSE consoles[c]]
        /\ console' = [k \in Consoles |->
                         IF \E c \in cs : new[c] = k THEN opened(k) ELSE console[k]]
    BY DEF Connect
  <1>3. \A c \in cs : Whose(new[c], new) = c
    BY <1>1 DEF Whose
  <1>4. \A c \in cs : new[c] \in Consoles /\ console[new[c]].waiter = "none"
    BY <1>1 DEF FreeConsoles
  <1>5. \A k : opened(k).run = runs[Whose(k, new)] /\ opened(k).waiter # "woken"
    OBVIOUS
  <1> HIDE DEF new, opened
  <1>6. ASSUME NEW c \in cs
        PROVE  consoles'[c] \in Consoles /\ console'[consoles'[c]].run = runs[c]
    <2>1. consoles'[c] = new[c] /\ console'[new[c]] = opened(new[c])
      BY <1>2, <1>4
    <2> QED
      BY <1>3, <1>4, <1>5, <2>1
  <1>7. ASSUME NEW c \in Containers \ cs
        PROVE  /\ consoles'[c] = consoles[c]
               /\ consoles[c] # None => console'[consoles[c]] = console[consoles[c]]
    <2>1. consoles'[c] = consoles[c]
      BY <1>2
    <2>2. ASSUME consoles[c] # None PROVE console'[consoles[c]] = console[consoles[c]]
      <3>1. consoles[c] \in Consoles /\ console[consoles[c]].waiter = "waits"
        BY <2>2 DEF ConsolesOK, Registered
      <3> QED
        BY <1>2, <1>4, <3>1
    <2> QED
      BY <2>1, <2>2
  <1>8. \A k \in Consoles : console'[k].waiter = "woken" => console'[k] = console[k]
    BY <1>2, <1>5
  <1> QED
    BY <1>6, <1>7, <1>8

(***************************************************************************)
(* ConsoleManager's goroutines, the events and the boot                    *)
(***************************************************************************)
LEMMA WokenPrompt ==
  ASSUME StreamsAssumption, StreamsIInv, Booting, OneFollower,
         \A c \in Containers : Container(c), NEW k \in Consoles, Woken(k)
  PROVE  Booting' /\ OneFollower' /\ \A c \in Containers : Container(c)'
  <1>1. /\ console[k].waiter = "woken" /\ console[k].container \in Containers
        /\ console \in [Consoles -> GoodConsoles]
        /\ UNCHANGED <<dockerVars, marked, phase, events, handling, logVars>>
    BY DEF Woken, StreamsIInv, ConsolesOK, GoodConsoles
  <1>2. consoles[console[k].container] = None
    BY <1>1 DEF Container, OneConsole
  <1>3. console' = [console EXCEPT ![k].waiter = "none"] /\ UNCHANGED consoles
    BY <1>2 DEF Woken
  <1>4. \A j \in Consoles : /\ console'[j].run = console[j].run
                            /\ console'[j].container = console[j].container
                            /\ console'[j].waiter = "woken" => console[j].waiter = "woken"
    BY <1>1, <1>3 DEF GoodConsoles
  <1>5. phase \notin {"logs", "consoles"}
    BY <1>1 DEF Booting
  <1>6. Booting'
    BY <1>1, <1>5 DEF Booting, dockerVars, logVars
  <1>7. ASSUME NEW c \in Containers PROVE Container(c)'
    <2>1. Told(c)' /\ Follows(c)'
      BY <1>1, SameTold, SameFollows DEF Container, dockerVars
    <2>2. OneConsole(c)'
      BY <1>1, <1>3, <1>4 DEF Container, OneConsole, Alive, dockerVars
    <2>3. consoles[c] # None => consoles[c] \in Consoles
      BY DEF StreamsIInv, ConsolesOK
    <2>4. Connects(c)'
      BY <1>1, <1>3, <1>4, <2>3 DEF Container, Connects, Connected, dockerVars
    <2> QED
      BY <2>1, <2>2, <2>4 DEF Container
  <1> QED
    BY <1>1, <1>6, <1>7, SameFollower

LEMMA HandleLogsPrompt ==
  ASSUME StreamsAssumption, StreamsIInv, Booting, OneFollower, PromptStep,
         \A c \in Containers : Container(c), NEW d \in Containers, HandleLogs(d)
  PROVE  Booting' /\ OneFollower' /\ \A c \in Containers : Container(c)'
  <1> DEFINE s == events[d]
  <1>1. /\ phase = "serving" /\ handling = Quiet /\ s # <<>>
        /\ UNCHANGED <<dockerVars, marked, phase, consoleVars>>
        /\ handling' = [container |-> d, action |-> Head(s)]
    BY DEF HandleLogs
  <1>2. /\ events'[d] = Tail(s)
        /\ \A c \in Containers : c # d => events'[c] = events[c]
    BY DEF HandleLogs, StreamsIInv, DockerOK
  <1>3. s \in Seq(Events)
    BY DEF StreamsIInv, DockerOK, Events
  <1>4. /\ Head(s) = s[1]
        /\ Len(Tail(s)) = Len(s) - 1
        /\ \A i \in 1..(Len(s) - 1) : Tail(s)[i] = s[i + 1]
        /\ Tail(s) # <<>> => Len(s) > 1
        /\ Tail(s) = <<>> => s[Len(s)] = s[1]
        /\ Len(s) \in Nat
    BY <1>1, <1>3, OneLess
  <1>5. \A c \in Containers : handling.container # c
    BY <1>1 DEF Quiet, StreamsAssumption
  <1>6. handling'.container = d /\ handling'.action = s[1]
    BY <1>1, <1>4
  <1>7. s[1] = "start" => ~Lingers(d)
    BY <1>1, <1>6 DEF PromptStep
  <1>8. Told(d)
    BY DEF Container
  <1> HIDE DEF s
  <1>9. After(s[Len(s)], container[d])
    BY <1>1, <1>8 DEF Told, s
  <1>10. \A i \in 1..(Len(s) - 1) : s[i] = "start" => s[i + 1] # "start"
    BY <1>8 DEF Told, s
  <1>11. Told(d)'
    <2>1. UNCHANGED container
      BY <1>1 DEF dockerVars
    <2>2. ASSUME Tail(s) # <<>> PROVE Tail(s)[Len(Tail(s))] = s[Len(s)] /\ Tail(s)[1] = s[2]
      <3>1. Len(s) - 1 \in 1..(Len(s) - 1) /\ 1 \in 1..(Len(s) - 1)
        BY <1>4, <2>2
      <3> QED
        BY <1>4, <3>1
    <2>3. ASSUME NEW i \in 1..(Len(Tail(s)) - 1), Tail(s)[i] = "start"
          PROVE  Tail(s)[i + 1] # "start"
      <3>1. i \in 1..(Len(s) - 1) /\ i + 1 \in 1..(Len(s) - 1)
        BY <1>4
      <3> QED
        BY <1>4, <1>10, <2>3, <3>1
    <2>4. Tail(s) # <<>> /\ s[1] = "start" => s[2] # "start"
      <3>1. Tail(s) # <<>> => 1 \in 1..(Len(s) - 1)
        BY <1>4
      <3> QED
        BY <1>10, <3>1
    <2>5. Tail(s) = <<>> => After(s[1], container[d])
      BY <1>4, <1>9
    <2>6. Tail(s) # <<>> => After(Tail(s)[Len(Tail(s))], container[d])
      BY <1>9, <2>2
    <2> HIDE DEF s
    <2> QED
      BY <1>2, <1>6, <2>1, <2>2, <2>3, <2>4, <2>5, <2>6 DEF Told
  <1>12. ASSUME NEW c \in Containers, c # d PROVE Told(c)'
    BY <1>1, <1>2, <1>5, <1>6, <1>12 DEF Told, Container, dockerVars
  <1>13. ASSUME NEW c \in Containers PROVE OneConsole(c)'
    <2>1. OneConsole(c) /\ UNCHANGED <<container, consoles, console>>
      BY <1>1 DEF Container, dockerVars, consoleVars
    <2>2. CASE c # d
      BY <1>2, <1>5, <1>6, <2>1, <2>2 DEF OneConsole, Alive
    <2>3. CASE c = d
      <3>1. consoles[d] # None => s[1] # "start"
        BY <1>1, <1>5, <2>1, <2>3 DEF OneConsole, s
      <3>2. \A k \in Consoles : console[k].waiter = "woken" /\ console[k].container = d =>
              consoles[d] = None /\ s[1] # "start"
        BY <1>7, <2>1, <2>3 DEF OneConsole, Lingers
      <3> QED
        BY <1>6, <2>1, <2>3, <3>1, <3>2 DEF OneConsole
    <2> QED
      BY <2>2, <2>3
  <1>14. ASSUME NEW c \in Containers PROVE Connects(c)'
    <2>1. CASE c = d
      BY <1>6, <2>1 DEF Connects
    <2>2. CASE c # d
      BY <1>1, <1>2, <1>5, <2>2 DEF Connects, Connected, Container, dockerVars, consoleVars
    <2> QED
      BY <2>1, <2>2
  <1>15. Booting'
    BY <1>1 DEF Booting
  <1>16. OneFollower' /\ \A c \in Containers : Follows(c)'
    <2>1. CASE s[1] = "start"
      <3>1. StartStreaming(d)
        BY <1>4, <2>1 DEF HandleLogs, s
      <3>2. \A g \in Streams : stream[g].pc # "free" /\ stream[g].container = d =>
              /\ stream[g].pc # "cleanup" /\ ~stream[g].cancelled /\ ~Outlived(g)
        BY <1>7, <2>1 DEF Lingers
      <3>3. CASE streams[d] # None
        <4>1. UNCHANGED logVars
          BY <3>1, <3>3 DEF StartStreaming, Follow
        <4>2. /\ streams[d] \in Streams /\ stream[streams[d]].pc # "free"
              /\ stream[streams[d]].container = d
          BY <3>3 DEF StreamsIInv, LogsOK, OneFollower
        <4>3. /\ stream[streams[d]].pc \in {"attach", "read", "backoff"}
              /\ stream[streams[d]].pc = "read" => stream[streams[d]].run = runs[d]
          BY <3>2, <4>2 DEF Outlived, StreamsIInv, LogsOK, GoodStreams
        <4>4. ASSUME NEW c \in Containers PROVE Follows(c)'
          <5>1. CASE c = d
            BY <1>1, <3>3, <4>1, <4>3, <5>1 DEF Follows, logVars, dockerVars
          <5>2. CASE c # d
            BY <1>1, <1>2, <4>1, <5>2, SameFollows DEF Container, dockerVars
          <5> QED
            BY <5>1, <5>2
        <4> QED
          BY <4>1, <4>4, SameFollower
      <3>4. CASE streams[d] = None
        <4>1. Follow({d})
          BY <3>1, <3>4 DEF StartStreaming
        <4>2. \A g \in Streams : stream[g].pc # "free" => stream[g].container \notin {d}
          BY <3>2, <3>4 DEF OneFollower, StreamsAssumption
        <4>3. /\ OneFollower'
              /\ streams'[d] # None /\ stream'[streams'[d]].pc = "attach"
              /\ \A c \in Containers \ {d} : /\ streams'[c] = streams[c]
                                             /\ streams[c] # None =>
                                                  stream'[streams[c]] = stream[streams[c]]
          BY <4>1, <4>2, FollowsAll DEF StreamsIInv
        <4>4. ASSUME NEW c \in Containers PROVE Follows(c)'
          <5>1. CASE c = d
            BY <4>3, <5>1 DEF Follows
          <5>2. CASE c # d
            BY <1>1, <1>2, <4>3, <5>2 DEF Follows, Container, dockerVars
          <5> QED
            BY <5>1, <5>2
        <4> QED
          BY <4>3, <4>4
      <3> QED
        BY <3>3, <3>4
    <2>2. CASE s[1] # "start"
      <3>1. StopStreaming(d)
        BY <1>4, <2>2 DEF HandleLogs, s
      <3>2. events'[d] = <<>> => container'[d] # "up"
        <4>1. s[1] \in Events
          BY <1>1, <1>3
        <4>2. Tail(s) = <<>> => After(s[1], container[d])
          BY <1>4, <1>9
        <4>3. Tail(s) = <<>> => container[d] # "up"
          BY <2>2, <4>1, <4>2 DEF Events, After
        <4> QED
          BY <1>1, <1>2, <4>3 DEF dockerVars
      <3>3. CASE UNCHANGED logVars
        <4>1. ASSUME NEW c \in Containers PROVE Follows(c)'
          <5>1. CASE c = d
            BY <3>2, <5>1 DEF Follows
          <5>2. CASE c # d
            BY <1>1, <1>2, <3>3, <5>2, SameFollows DEF Container, dockerVars
          <5> QED
            BY <5>1, <5>2
        <4> QED
          BY <3>3, <4>1, SameFollower
      <3>4. CASE /\ streams[d] # None
                 /\ stream' = [stream EXCEPT ![streams[d]].cancelled = TRUE]
                 /\ streams' = [streams EXCEPT ![d] = None]
        <4> DEFINE g == streams[d]
        <4>1. /\ g \in Streams /\ stream[g].pc # "free" /\ stream[g].container = d
              /\ stream \in [Streams -> GoodStreams]
              /\ streams \in [Containers -> Streams \cup {None}]
          BY <3>4 DEF StreamsIInv, LogsOK, OneFollower
        <4>2. /\ streams'[d] = None
              /\ \A c \in Containers : c # d => streams'[c] = streams[c]
              /\ \A h \in Streams \ {g} : stream'[h] = stream[h]
              /\ stream'[g].pc = stream[g].pc /\ stream'[g].container = stream[g].container
              /\ stream'[g].cancelled
          BY <3>4, <4>1 DEF GoodStreams
        <4>3. \A c \in Containers : c # d => streams[c] # g
          BY <4>1 DEF OneFollower, StreamsAssumption
        <4>4. \A h \in Streams \ {g} : stream[h].pc # "free" => stream[h].container # d
          BY <4>1 DEF OneFollower
        <4>5. \A h \in Streams : stream[h].pc # "free" => stream[h].container \in Containers
          BY <4>1 DEF GoodStreams
        <4>6. g \in Streams
          BY <4>1
        <4> HIDE DEF g
        <4>7. \A h \in Streams : /\ stream'[h].pc # "free" <=> stream[h].pc # "free"
                                 /\ stream'[h].container = stream[h].container
          BY <4>2
        <4>8. OneFollower'
          BY <4>1, <4>2, <4>3, <4>4, <4>5, <4>7 DEF OneFollower
        <4>9. ASSUME NEW c \in Containers PROVE Follows(c)'
          <5>1. CASE c = d
            BY <3>2, <5>1 DEF Follows
          <5>2. CASE c # d
            <6>1. streams'[c] = streams[c] /\ (streams[c] # None =>
                    streams[c] \in Streams \ {g} /\ stream'[streams[c]] = stream[streams[c]])
              BY <4>1, <4>2, <4>3, <5>2
            <6> QED
              BY <1>1, <1>2, <5>2, <6>1 DEF Follows, Container, dockerVars
          <5> QED
            BY <5>1, <5>2
        <4> QED
          BY <4>8, <4>9
      <3> QED
        BY <3>1, <3>3, <3>4 DEF StopStreaming
    <2> QED
      BY <2>1, <2>2
  <1>17. ASSUME NEW c \in Containers PROVE Container(c)'
    BY <1>11, <1>12, <1>13, <1>14, <1>16 DEF Container
  <1> QED
    BY <1>15, <1>16, <1>17

LEMMA HandleConsolePrompt ==
  ASSUME StreamsAssumption, StreamsIInv, Booting, OneFollower,
         \A c \in Containers : Container(c), HandleConsole
  PROVE  Booting' /\ OneFollower' /\ \A c \in Containers : Container(c)'
  <1>1. /\ handling # Quiet /\ handling' = Quiet
        /\ UNCHANGED <<dockerVars, marked, phase, events, logVars>>
    BY DEF HandleConsole
  <1>2. PICK d \in Containers : handling.container = d /\ handling.action \in Events
    BY <1>1 DEF StreamsIInv, DockerOK, Events
  <1>3. phase = "serving"
    BY <1>1 DEF Booting, StreamsIInv, DockerOK
  <1>4. Booting'
    BY <1>1, <1>3 DEF Booting
  <1>5. \A c \in Containers : handling'.container # c
    BY <1>1 DEF Quiet, StreamsAssumption
  <1>6. ASSUME NEW c \in Containers PROVE Told(c)' /\ Follows(c)'
    <2>1. Told(c)'
      BY <1>1, <1>5 DEF Told, Container, dockerVars
    <2>2. Follows(c)'
      BY <1>1, SameFollows DEF Container, dockerVars
    <2> QED
      BY <2>1, <2>2
  <1>7. ConsolesOK /\ console \in [Consoles -> GoodConsoles]
        /\ consoles \in [Containers -> Consoles \cup {None}]
    BY DEF StreamsIInv, ConsolesOK
  <1>8. ASSUME NEW c \in Containers, c # d, consoles'[c] = consoles[c],
               consoles[c] # None => console'[consoles[c]] = console[consoles[c]],
               \A k \in Consoles : console'[k].waiter = "woken" /\ console'[k].container = c =>
                 console[k].waiter = "woken" /\ console[k].container = c
        PROVE  OneConsole(c)' /\ Connects(c)'
    <2>1. OneConsole(c)'
      BY <1>1, <1>2, <1>5, <1>8 DEF OneConsole, Container, Alive, dockerVars
    <2>2. Connects(c)'
      BY <1>1, <1>2, <1>8 DEF Connects, Connected, Container, dockerVars
    <2> QED
      BY <2>1, <2>2
  <1>9. CASE handling.action = "start"
    <2>1. StartConsole(d)
      BY <1>2, <1>9 DEF HandleConsole
    <2>2. /\ consoles[d] = None
          /\ \A k \in Consoles : console[k].waiter = "woken" => console[k].container # d
      BY <1>2, <1>9 DEF Container, OneConsole
    <2>3. events[d] # <<>> => events[d][1] # "start"
      BY <1>2, <1>9 DEF Container, Told
    <2>4. CASE ~Alive(d) /\ UNCHANGED consoleVars
      <3>1. ASSUME NEW c \in Containers PROVE OneConsole(c)' /\ Connects(c)'
        <4>1. CASE c = d
          <5>1. OneConsole(c)'
            BY <2>2, <2>4, <4>1 DEF OneConsole, consoleVars
          <5>2. Connects(c)'
            BY <1>1, <2>4, <4>1 DEF Connects, Alive, dockerVars
          <5> QED
            BY <5>1, <5>2
        <4>2. CASE c # d
          BY <1>8, <2>4, <4>2 DEF consoleVars
        <4> QED
          BY <4>1, <4>2
      <3> QED
        BY <1>1, <1>4, <1>6, <3>1, SameFollower DEF Container
    <2>5. CASE Alive(d) /\ Connect({d})
      <3>1. /\ consoles'[d] \in Consoles /\ console'[consoles'[d]].run = runs[d]
            /\ \A c \in Containers : c # d =>
                 /\ consoles'[c] = consoles[c]
                 /\ consoles[c] # None => console'[consoles[c]] = console[consoles[c]]
            /\ \A k \in Consoles : console'[k].waiter = "woken" => console'[k] = console[k]
        BY <1>7, <2>5, ConnectGives
      <3>2. \A k \in Consoles : console'[k].waiter = "woken" => console'[k].container # d
        BY <2>2, <3>1
      <3>3. ASSUME NEW c \in Containers PROVE OneConsole(c)' /\ Connects(c)'
        <4>1. CASE c = d
          <5>1. OneConsole(c)'
            BY <1>1, <1>5, <2>3, <2>5, <3>2, <4>1 DEF OneConsole, Alive, dockerVars
          <5>2. consoles'[d] # None
            BY <3>1 DEF StreamsAssumption
          <5>3. Connects(c)'
            BY <1>1, <3>1, <4>1, <5>2 DEF Connects, Connected, dockerVars
          <5> QED
            BY <5>1, <5>3
        <4>2. CASE c # d
          BY <1>8, <3>1, <4>2
        <4> QED
          BY <4>1, <4>2
      <3> QED
        BY <1>1, <1>4, <1>6, <3>3, SameFollower DEF Container
    <2> QED
      BY <2>1, <2>2, <2>4, <2>5 DEF StartConsole
  <1>10. CASE handling.action # "start"
    <2>1. StopConsole(d)
      BY <1>2, <1>10 DEF HandleConsole
    <2>2. events[d] = <<>> => container[d] # "up"
      BY <1>2, <1>10 DEF Container, Told, After, Events
    <2>3. /\ consoles'[d] = None
          /\ \A c \in Containers : c # d =>
               /\ consoles'[c] = consoles[c]
               /\ consoles[c] # None => console'[consoles[c]] = console[consoles[c]]
          /\ \A k \in Consoles : console'[k].waiter = "woken" =>
               console'[k].container = d \/ console'[k] = console[k]
      <3>1. CASE consoles[d] = None /\ UNCHANGED consoleVars
        BY <3>1 DEF consoleVars
      <3>2. CASE /\ consoles[d] # None
                 /\ console' = [console EXCEPT ![consoles[d]].waiter = "woken",
                                               ![consoles[d]].open = FALSE]
                 /\ consoles' = [consoles EXCEPT ![d] = None]
        <4>1. consoles[d] \in Consoles /\ console[consoles[d]].container = d
          BY <1>7, <3>2 DEF ConsolesOK, Registered
        <4>2. /\ console'[consoles[d]].container = d
              /\ \A k \in Consoles : k # consoles[d] => console'[k] = console[k]
          BY <1>7, <3>2, <4>1 DEF GoodConsoles
        <4>3. ASSUME NEW c \in Containers, c # d, consoles[c] # None
              PROVE  console'[consoles[c]] = console[consoles[c]]
          <5>1. consoles[c] \in Consoles /\ console[consoles[c]].container = c
            BY <1>7, <4>3 DEF ConsolesOK, Registered
          <5> QED
            BY <4>1, <4>2, <4>3, <5>1
        <4>4. consoles'[d] = None /\ \A c \in Containers : c # d => consoles'[c] = consoles[c]
          BY <1>7, <3>2
        <4> QED
          BY <4>2, <4>3, <4>4
      <3> QED
        BY <2>1, <3>1, <3>2 DEF StopConsole
    <2>4. ASSUME NEW c \in Containers PROVE OneConsole(c)' /\ Connects(c)'
      <3>1. CASE c = d
        <4>1. OneConsole(c)'
          BY <1>5, <2>3, <3>1 DEF OneConsole
        <4>2. Connects(c)'
          BY <1>1, <2>2, <3>1 DEF Connects, dockerVars
        <4> QED
          BY <4>1, <4>2
      <3>2. CASE c # d
        <4>1. \A k \in Consoles : console'[k].waiter = "woken" /\ console'[k].container = c =>
                console[k].waiter = "woken" /\ console[k].container = c
          BY <2>3, <3>2
        <4> QED
          BY <1>8, <2>3, <3>2, <4>1
      <3> QED
        BY <3>1, <3>2
    <2> QED
      BY <1>1, <1>4, <1>6, <2>4, SameFollower DEF Container
  <1> QED
    BY <1>9, <1>10

LEMMA BootPrompt ==
  ASSUME StreamsAssumption, StreamsIInv, Booting, OneFollower,
         \A c \in Containers : Container(c), BootLogs \/ BootConsoles \/ Subscribe
  PROVE  Booting' /\ OneFollower' /\ \A c \in Containers : Container(c)'
  <1>1. UNCHANGED <<dockerVars, marked, events, handling>>
    BY DEF BootLogs, BootConsoles, Subscribe
  <1>2. handling = Quiet /\ \A c \in Containers : events[c] = <<>> /\ handling.container # c
    BY DEF BootLogs, BootConsoles, Subscribe, Booting, Quiet, StreamsAssumption
  <1>3. \A c \in Containers : Told(c)'
    BY <1>1, SameTold DEF Container, dockerVars
  <1>4. CASE BootLogs
    <2>1. phase = "logs" /\ phase' = "consoles" /\ Follow(marked) /\ UNCHANGED consoleVars
      BY <1>4 DEF BootLogs
    <2>2. \A g \in Streams : stream[g].pc = "free"
      BY <2>1 DEF Booting
    <2>3. OneFollower' /\ \A c \in marked : streams'[c] # None /\ stream'[streams'[c]].pc = "attach"
      BY <2>1, <2>2, FollowsAll DEF StreamsIInv, DockerOK
    <2>4. \A c \in Containers : container[c] = "up" => c \in marked
      BY <2>1 DEF Booting, Alive
    <2>5. \A c \in Containers : Follows(c)'
      BY <1>1, <2>3, <2>4 DEF Follows, dockerVars
    <2>6. \A c \in Containers : OneConsole(c)'
      BY <1>1, <2>1, SameConsole DEF Container, dockerVars
    <2>7. \A c \in Containers : Connects(c)'
      BY <2>1 DEF Connects
    <2>8. Booting'
      BY <1>1, <2>1 DEF Booting, Alive, dockerVars, consoleVars
    <2> QED
      BY <1>3, <2>3, <2>5, <2>6, <2>7, <2>8 DEF Container
  <1>5. CASE BootConsoles
    <2> DEFINE cs == {c \in marked : Alive(c)}
    <2>1. phase = "consoles" /\ phase' = "subscribe" /\ Connect(cs) /\ UNCHANGED logVars
      BY <1>5 DEF BootConsoles
    <2>2. cs \in SUBSET Containers
      BY DEF StreamsIInv, DockerOK
    <2>3. \A c \in Containers : container[c] = "up" => c \in cs
      BY <2>1 DEF Booting, Alive
    <2>4. \A c \in cs : container[c] # "down"
      BY DEF Alive
    <2>5. \A k \in Consoles : console[k].waiter = "none"
      BY <2>1 DEF Booting
    <2>6. \A c \in Containers : consoles[c] = None
      BY <2>1, NoneYet
    <2> HIDE DEF cs
    <2>7. /\ \A c \in cs : consoles'[c] \in Consoles /\ console'[consoles'[c]].run = runs[c]
          /\ \A c \in Containers \ cs : consoles'[c] = consoles[c]
          /\ \A k \in Consoles : console'[k].waiter = "woken" => console'[k] = console[k]
      BY <2>1, <2>2, ConnectGives DEF StreamsIInv
    <2>8. \A k \in Consoles : console'[k].waiter # "woken"
      BY <2>5, <2>7
    <2>9. ASSUME NEW c \in Containers PROVE Container(c)'
      <3>1. Follows(c)'
        BY <1>1, <2>1 DEF Follows, Container, dockerVars, logVars
      <3>2. OneConsole(c)'
        BY <1>1, <1>2, <2>4, <2>6, <2>7, <2>8 DEF OneConsole, Alive, dockerVars
      <3>3. container[c] = "up" => consoles'[c] # None /\ console'[consoles'[c]].run = runs[c]
        BY <2>3, <2>7 DEF StreamsAssumption
      <3>4. Connects(c)'
        BY <1>1, <3>3 DEF Connects, Connected, dockerVars
      <3> QED
        BY <1>3, <3>1, <3>2, <3>4 DEF Container
    <2>10. Booting'
      BY <1>1, <1>2, <2>1 DEF Booting
    <2> QED
      BY <2>1, <2>9, <2>10, SameFollower
  <1>6. CASE Subscribe
    <2>1. phase = "subscribe" /\ phase' = "serving" /\ UNCHANGED <<logVars, consoleVars>>
      BY <1>6 DEF Subscribe
    <2>2. Booting'
      BY <2>1 DEF Booting
    <2>3. ASSUME NEW c \in Containers PROVE Container(c)'
      <3>1. Follows(c)'
        BY <1>1, <2>1 DEF Follows, Container, dockerVars, logVars
      <3>2. OneConsole(c)'
        BY <1>1, <2>1, SameConsole DEF Container, dockerVars
      <3>3. Connects(c)'
        BY <1>1, <2>1 DEF Connects, Connected, Container, dockerVars, consoleVars
      <3> QED
        BY <1>3, <3>1, <3>2, <3>3 DEF Container
    <2> QED
      BY <2>1, <2>2, <2>3, SameFollower
  <1> QED
    BY <1>4, <1>5, <1>6

\* The inductive invariant of prompt behaviours.
LEMMA PromptInit == StreamsAssumption /\ MCStreamsInit => PromptIInv
  <1> SUFFICES ASSUME StreamsAssumption, MCStreamsInit, prompt PROVE PromptIInv
    BY DEF PromptIInv
  <1>1. \A c \in Containers : events[c] = <<>> /\ handling.container # c
    BY DEF MCStreamsInit, Init, Quiet, StreamsAssumption
  <1>2. \A g \in Streams : stream[g].pc = "free"
    BY DEF MCStreamsInit, Init, NoStream
  <1>3. \A k \in Consoles : console[k].waiter = "none"
    BY DEF MCStreamsInit, Init, NoConsole
  <1>4. phase = "logs" /\ handling = Quiet /\ marked = {c \in Containers : Alive(c)}
    BY DEF MCStreamsInit, Init
  <1>5. \A c \in Containers : streams[c] = None /\ consoles[c] = None
    BY DEF MCStreamsInit, Init
  <1>6. Booting
    BY <1>1, <1>2, <1>3, <1>4 DEF Booting
  <1>7. OneFollower
    BY <1>2, <1>5 DEF OneFollower
  <1>8. ASSUME NEW c \in Containers
        PROVE  Told(c) /\ Follows(c) /\ OneConsole(c) /\ Connects(c)
    <2>1. Told(c)
      <3>1. Len(<<>>) = 0
        OBVIOUS
      <3> QED
        BY <1>1, <3>1 DEF Told
    <2>2. Follows(c) /\ Connects(c)
      BY <1>4 DEF Follows, Connects
    <2>3. OneConsole(c)
      BY <1>3, <1>5 DEF OneConsole
    <2> QED
      BY <2>1, <2>2, <2>3
  <1> QED
    BY <1>6, <1>7, <1>8 DEF PromptIInv

LEMMA PromptNext ==
  StreamsAssumption /\ StreamsIInv /\ PromptIInv /\ [MCStreamsNext]_streamsVars => PromptIInv'
  <1> SUFFICES ASSUME StreamsAssumption, StreamsIInv, PromptIInv, prompt', [MCStreamsNext]_streamsVars
               PROVE  PromptIInv'
    BY DEF PromptIInv
  <1>1. /\ prompt /\ Booting /\ OneFollower
        /\ \A c \in Containers : Container(c)
    BY DEF PromptIInv, MCStreamsNext, streamsVars, Container
  <1>2. Booting' /\ OneFollower' /\ \A c \in Containers : Container(c)'
    <2>1. CASE MCStreamsNext
      <3>1. Next /\ PromptStep
        BY <1>1, <2>1 DEF MCStreamsNext, PromptStep
      <3> QED
        BY <1>1, <3>1, DockerPrompt, StreamPrompt, WokenPrompt, HandleLogsPrompt,
           HandleConsolePrompt, BootPrompt DEF Next, Handle
    <2>2. CASE UNCHANGED streamsVars
      <3>1. UNCHANGED <<dockerVars, marked, phase, events, handling, logVars, consoleVars>>
        BY <2>2 DEF streamsVars, vars
      <3>2. Booting'
        BY <1>1, <3>1 DEF Booting, Alive, dockerVars, logVars, consoleVars
      <3>3. ASSUME NEW c \in Containers PROVE Container(c)'
        BY <1>1, <3>1, SameTold, SameFollows, SameConsole, SameConnects DEF Container, dockerVars
      <3> QED
        BY <1>1, <3>1, <3>2, <3>3, SameFollower
    <2> QED
      BY <2>1, <2>2
  <1> QED
    BY <1>2 DEF PromptIInv, Container

\* When nothing is under way, what was going to be followed is.
LEMMA PromptImplied == StreamsAssumption /\ StreamsIInv /\ PromptIInv => PromptSettles
  <1> SUFFICES ASSUME StreamsAssumption, StreamsIInv, PromptIInv, prompt, Settled, NEW c \in Containers
               PROVE  /\ \/ Alive(c) /\ Followed(c)
                         \/ (~Alive(c) \/ errors[c] > 0) /\ streams[c] = None /\ Followers(c) = {}
                      /\ IF Alive(c) THEN Connected(c) ELSE consoles[c] = None
    BY DEF PromptSettles, PromptFollowed, PromptConnected
  <1>1. /\ phase = "serving" /\ handling = Quiet /\ events[c] = <<>>
        /\ container[c] \in {"up", "down"} /\ handling.container # c
    BY DEF Settled, Quiet, StreamsIInv, DockerOK, StreamsAssumption
  <1>2. OneFollower /\ Follows(c) /\ OneConsole(c) /\ Connects(c)
    BY DEF PromptIInv
  <1>3. \A g \in Streams : stream[g].pc # "free" =>
          stream[g].pc = "read" /\ ~stream[g].cancelled /\ ~Outlived(g)
    BY DEF Settled
  <1>4. \A g \in Followers(c) : Alive(c) /\ streams[c] = g
    BY <1>2, <1>3 DEF Followers, OneFollower, Outlived
  <1>5. streams[c] # None => streams[c] \in Followers(c) /\ Alive(c)
    <2>1. ASSUME streams[c] # None PROVE streams[c] \in Followers(c)
      <3>1. streams[c] \in Streams
        BY <2>1 DEF StreamsIInv, LogsOK
      <3> QED
        BY <1>2, <1>3, <2>1, <3>1 DEF OneFollower, Followers
    <2> QED
      BY <1>4, <2>1
  <1>6. \A g \in Followers(c) : g # None
    BY DEF Followers, StreamsAssumption
  <1>7. streams[c] = None /\ Alive(c) => errors[c] > 0
    BY <1>1, <1>2 DEF Follows, Alive
  <1>8. IF Alive(c) THEN Connected(c) ELSE consoles[c] = None
    BY <1>1, <1>2 DEF OneConsole, Connects, Alive
  <1>9. CASE streams[c] = None
    BY <1>4, <1>6, <1>7, <1>8, <1>9
  <1>10. CASE streams[c] # None
    BY <1>4, <1>5, <1>8, <1>10 DEF Followed
  <1> QED
    BY <1>9, <1>10

\* If goroutines end in time, then whatever containers do, however often reading
\* fails and however far behind the events are: once all is quiet, what runs has
\* its output followed once and its console, and nothing else is attached
\* (HandleContainerEvent, AttachConsolesForRunningContainers).
THEOREM PromptSettlesHolds == MCStreamsSpec => []PromptSettles
  <1>1. MCStreamsInit => StreamsIInv /\ PromptIInv
    BY InitInv, PromptInit, StreamsAssumption DEF MCStreamsInit
  <1>2. StreamsIInv /\ PromptIInv /\ [MCStreamsNext]_streamsVars => StreamsIInv' /\ PromptIInv'
    BY StreamsStepInv, PromptNext, StreamsAssumption DEF MCStreamsNext, streamsVars
  <1>3. StreamsIInv /\ PromptIInv => PromptSettles
    BY PromptImplied, StreamsAssumption
  <1> QED
    BY <1>1, <1>2, <1>3, PTL DEF MCStreamsSpec

================================================================================
