----------------------------- MODULE MCStartQueue -----------------------------
(***************************************************************************)
(* StartQueue for TLC.  A behaviour is patient or not from the start: in a *)
(* patient one nobody uses /cancel.  Its scope is chosen too: several      *)
(* players ask for one server, or one player asks for several.             *)
(***************************************************************************)
EXTENDS StartQueue, TLC

VARIABLES patient, askers, wanted

MCVars == <<vars, patient, askers, wanted>>

MCInit ==
  /\ Init
  /\ patient \in BOOLEAN
  /\ askers \in SUBSET Players \ {{}}
  /\ wanted \in SUBSET Servers \ {{}}
  /\ Cardinality(askers) = 1 \/ Cardinality(wanted) = 1
  /\ \A p \in Players \ askers : at[p] = LoginServer

MCNext ==
  /\ Next
  /\ UNCHANGED <<patient, askers, wanted>>
  /\ patient => cancel' = cancel
  /\ \A p \in Players : conn'[p].pc # "idle" => p \in askers /\ conn'[p].target \in wanted
  /\ \A p \in Players \ askers : at'[p] = at[p]
  /\ \A s \in Servers \ wanted : backend'[s] = "down"

MCSpec == MCInit /\ [][MCNext]_MCVars

\* Without /cancel the plugin teleports a player only to the server he waits
\* for (waitForServerReady's isInQueue and the countdown that follows it).
PatientTeleports ==
  [][patient => \A j \in Jobs :
       (job[j].pc = "request" /\ job'[j].pc = "dequeue")
         => queued[job[j].player] = job[j].server]_MCVars

\* Without /cancel no task starts a server nobody waits for.
PatientStarts ==
  [][patient => \A j \in Jobs :
       (job[j].pc = "start" /\ job'[j].pc # "start")
         => \E p \in Players : queued[p] = job[j].server]_MCVars

\* Without /cancel a wait loop that times out takes its player out of the queue
\* it served, not out of another (waitForServerReady's removeFromQueue).
PatientExpires ==
  [][patient => \A j \in Jobs :
       (job[j].pc = "poll" /\ job'[j].pc = "idle")
         => queued[job[j].player] \in {None, job[j].server}]_MCVars

\* Without /cancel no task acts on a queue entry that is not the one it was made
\* for, though each reads the queue long before it acts.
PatientExact == PatientTeleports /\ PatientExpires /\ PatientStarts

Symmetry == Permutations(Players) \cup Permutations(Servers) \cup Permutations(Jobs)
===============================================================================
