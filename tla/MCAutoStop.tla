----------------------------- MODULE MCAutoStop -----------------------------
(***************************************************************************)
(* AutoStop for TLC.  A behaviour is serial or not from the start: in a    *)
(* serial one the next event is raised when the last one has been handled; *)
(* in the others only the players of Few come.                             *)
(***************************************************************************)
EXTENDS AutoStop

CONSTANT Few   (* bound: players of a behaviour that is not serial *)

VARIABLE serial

MCVars == <<vars, serial>>

MCInit == Init /\ serial \in BOOLEAN

MCNext ==
  /\ Next
  /\ UNCHANGED serial
  /\ serial => \A a, b \in Busy' : a = b
  /\ ~serial => online' \subseteq Few

MCSpec == MCInit /\ [][MCNext]_MCVars
MCFairSpec == MCSpec /\ Fairness

\* One event at a time: the plugin's serverPlayers is where Velocity has the
\* players whenever no handler runs (removePlayerFromServer, addPlayerToServer).
SerialTrackedIsActual == serial /\ Busy = {} => TrackedIsActual

\* One event at a time: no stop task is out of cancelStopTimer's reach and none
\* waits to stop a server with players (addPlayerToServer cancels it).
SerialTimersInReach == serial /\ Busy = {} => TimersInReach

\* One event at a time, the plugin's maps tell what is: the two above.
SerialReports == SerialTrackedIsActual /\ SerialTimersInReach

\* One event at a time: a stop timer never stops a server a player is on
\* (DemiDynamic/README.md, Features: "Stops idle servers").
SerialStopsIdleOnly == [][serial => \A t \in Timers : ~StopsOccupied(t)]_MCVars

\* What timers and eviction stop: the above, under any overlap never a server
\* that is to be left alone, and every timer that was armed ends.
StopsAsPromised == NeverStopped /\ SerialStopsIdleOnly /\ TimerEnds
===============================================================================
