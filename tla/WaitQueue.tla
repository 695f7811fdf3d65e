------------------------------ MODULE WaitQueue ------------------------------
(***************************************************************************)
(* What the waiting queue of DemiDynamic promises its callers: a player    *)
(* waits for at most one server, joins a queue only when waiting nowhere,  *)
(* and changes server only by leaving the first queue.                     *)
(***************************************************************************)
CONSTANTS Players,   (* proxy players                                      *)
          Servers,   (* servers a player can wait for                      *)
          None       (* not waiting                                        *)

VARIABLE queue       (* the server each player waits for, or None          *)

TypeOK == queue \in [Players -> Servers \cup {None}]

Init == queue = [p \in Players |-> None]

Enqueue(p, s) ==
  /\ queue[p] = None
  /\ queue' = [queue EXCEPT ![p] = s]

Dequeue(p) ==
  /\ queue[p] # None
  /\ queue' = [queue EXCEPT ![p] = None]

Next ==
  \E p \in Players :
    \/ \E s \in Servers : Enqueue(p, s)
    \/ Dequeue(p)

Spec == Init /\ [][Next]_queue

==============================================================================
