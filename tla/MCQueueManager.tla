---------------------------- MODULE MCQueueManager ----------------------------
(***************************************************************************)
(* QueueManager for TLC.  A behaviour is serial or not from the start: in  *)
(* a serial one a thread calls only when no other thread is inside.        *)
(***************************************************************************)
EXTENDS QueueManager, TLC

VARIABLE serial

MCVars == <<vars, serial>>

Inside == {t \in Threads : pc[t] # "idle"}

MCInit == Init /\ serial \in BOOLEAN

MCNext ==
  /\ Next
  /\ UNCHANGED serial
  /\ serial => \A a, b \in Inside' : a = b

MCSpec == MCInit /\ [][MCNext]_MCVars

\* With one caller at a time the two maps describe the same queues whenever no
\* call is running (addToQueue, removeFromQueue and clearQueue change both), and
\* isQueueEmpty, which reads one of them, tells /cancel the truth: the answer
\* makes it stop the server.
SerialMapsAgree ==
  /\ [](serial => MapsAgree)
  /\ [][serial => \A t \in Threads : BelievesEmpty(t) => ~SomebodyWaits(srv[t])]_MCVars

Symmetry == Permutations(Players) \cup Permutations(Servers)
              \cup Permutations(Threads) \cup Permutations(SetIds)
===============================================================================
