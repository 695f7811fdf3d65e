-------------------------- MODULE MCServerLifecycle --------------------------
(***************************************************************************)
(* ServerLifecycle for TLC.  A behaviour is serial or not from the start.  *)
(* In a serial one a request comes, the manager moves on or a container    *)
(* crashes only when the last such thing has settled; in the               *)
(* others they overlap, for the servers of Few.                            *)
(***************************************************************************)
EXTENDS ServerLifecycle

CONSTANTS Few,        (* bound: servers used when requests overlap          *)
          MaxEvents   (* bound: unread events of a server                   *)

VARIABLE serial

MCVars == <<vars, serial>>

MCInit == Init /\ serial \in BOOLEAN

Starts(t) == Idle(t) /\ ~Idle(t)'

\* No goroutine runs and Docker has nothing more to say.
Calm ==
  /\ \A t \in Tasks : Idle(t)
  /\ \A s \in Servers : events[s] = <<>> /\ container[s] \notin {"stopping", "exited"}

MCNext ==
  /\ Next
  /\ UNCHANGED serial
  /\ \A s \in Servers : Len(events'[s]) <= MaxEvents
  /\ NoneGoesAtBoot
  /\ serial =>
       /\ (\E t \in Requests : Starts(t)) => Calm
       /\ (\E s \in Servers : container[s] = "running" /\ container'[s] = "exited") => Calm
       /\ manager' # manager => Calm
  /\ ~serial => \A t \in Tasks : task'[t] # NoTask => task'[t].server \in Few

MCSpec == MCInit /\ [][MCNext]_MCVars

\* One request at a time: whatever order its writes and Docker's events come
\* in, the table says what Docker does when all is over.
SerialStatusAgrees == serial /\ Settled => StatusAgrees

\* One request at a time: no start takes a running server down (StartContainer
\* looks for a container before CreateServerContainer removes one).
SerialStartKeeps ==
  [][\A t \in Tasks, s \in Servers :
       /\ serial
       /\ task[t] # NoTask /\ task[t].op \in {"start", "auto", "boot"} /\ task'[t] # task[t]
       /\ container[s] = "running"
       => container'[s] = "running"]_MCVars

===============================================================================
