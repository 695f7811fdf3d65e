-------------------------------- MODULE MCHub --------------------------------
(***************************************************************************)
(* Hub for TLC: only the clients of Talkers send commands.                 *)
(***************************************************************************)
EXTENDS Hub

CONSTANT Talkers   (* bound: clients that send commands *)

ASSUME TalkersAssumption == Talkers \subseteq Clients

MCNext ==
  /\ Next
  /\ \A c \in Clients \ Talkers : command'[c] = "none"

MCFairSpec == Init /\ [][MCNext]_vars /\ Fairness
===============================================================================
