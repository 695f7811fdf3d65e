--------------------------- MODULE ServerLifecycle ---------------------------
(***************************************************************************)
(* The life of game servers under the manager: what the servers table says *)
(* (status, players), what Docker runs, and who changes either.  HTTP      *)
(* handlers, the scheduler, start-on-boot, the shutdown and Docker's event *)
(* stream all do, without a lock.                                          *)
(*                                                                         *)
(* A Docker call is atomic, but for a stop, which signals the container    *)
(* and waits for its exit.  Docker's events are of two kinds for the       *)
(* manager: "up" (start) and "down" (kill, die, stop, destroy); only those *)
(* of one server are ordered here, for they touch that server's rows only. *)
(* Every server needs one unit of memory.  Pausing is left out.            *)
(***************************************************************************)
EXTENDS FiniteSets, Naturals, Sequences

CONSTANTS Servers,   (* sanitized names                                    *)
          Flagged,   (* servers with start_on_boot = 1                     *)
          Requests,  (* goroutines of handlers and of the scheduler        *)
          Budget,    (* servers that fit in DEMIMINE_MAX_RAM_MB            *)
          Faults,    (* whether Docker may refuse to create, start or stop *)
          MaxBoots   (* bound: times the manager is started                *)

ASSUME LifecycleAssumption ==
  /\ IsFiniteSet(Servers)
  /\ Flagged \subseteq Servers
  /\ Requests \cap Servers = {}
  /\ Budget \in Nat
  /\ Faults \in BOOLEAN
  /\ MaxBoots \in Nat

VARIABLES
  rows,       (* servers in the servers table                               *)
  status,     (* servers.status                                             *)
  players,    (* servers with rows in the players table                     *)
  container,  (* container "demimine-<name>"                                *)
  events,     (* server -> events on their way to the event manager         *)
  manager,    (* the manager process                                        *)
  task,       (* goroutine -> what it does, for which server, and how far   *)
  boot,       (* startOnBoot: servers to look at, servers let start         *)
  boots       (* times the manager has been started                         *)

vars == <<rows, status, players, container, events, manager, task, boot, boots>>

(***************************************************************************)
(* The goroutines of startOnBoot and of gracefulShutdown are one per       *)
(* server and named after it.                                              *)
(***************************************************************************)
Tasks == Requests \cup Servers

Ops   == {"start", "auto", "boot", "stop", "close", "restart", "delete"}
Steps == {"idle", "budget", "exists", "replace", "create", "run", "markUp",
          "signal", "exit", "markDown", "waitGone", "remove", "drop"}
NoTask == [pc |-> "idle"]

TypeOK ==
  /\ rows \subseteq Servers
  /\ status \in [Servers -> {"running", "stopped"}]
  /\ players \subseteq Servers
  /\ container \in [Servers -> {"none", "created", "running", "stopping", "exited"}]
  /\ events \in [Servers -> Seq({"up", "down"})]
  /\ manager \in {"off", "boot", "up", "stopping"}
  /\ task \in [Tasks -> {NoTask} \cup [pc : Steps \ {"idle"}, op : Ops, server : Servers]]
  /\ boot \in [todo : SUBSET Flagged, chosen : SUBSET Flagged]
  /\ boots \in 0..MaxBoots

Init ==
  /\ rows = Servers
  /\ status = [s \in Servers |-> "stopped"]
  /\ players = {}
  /\ container = [s \in Servers |-> "none"]
  /\ events = [s \in Servers |-> <<>>]
  /\ manager = "off"
  /\ task = [t \in Tasks |-> NoTask]
  /\ boot = [todo |-> {}, chosen |-> {}]
  /\ boots = 0

(***************************************************************************)
(* Shared helpers                                                          *)
(***************************************************************************)
At(t, step) == task[t].pc = step
Goto(t, step) == task' = [task EXCEPT ![t].pc = step]
Ends(t) == task' = [task EXCEPT ![t] = NoTask]

Idle(t) == At(t, "idle")
Alive(s) == container[s] \in {"running", "stopping"}

\* The event manager subscribes once startOnBoot is over.
Serving == manager \in {"up", "stopping"}

Emit(s, event) ==
  events' = IF Serving THEN [events EXCEPT ![s] = Append(@, event)] ELSE events

Becomes(s, state) == container' = [container EXCEPT ![s] = state]

\* UPDATE servers SET status = ...: no row, no effect.
Mark(s, value) ==
  status' = IF s \in rows THEN [status EXCEPT ![s] = value] ELSE status

\* ContainerRemove with force.
ForceRemove(s) ==
  IF container[s] = "none" THEN UNCHANGED <<container, events>>
  ELSE Becomes(s, "none") /\ Emit(s, "down")

\* CheckRAMBudget: live usage lags behind the containers' limits.
WithinBudget(committed) ==
  \E used \in 0..Cardinality({s \in Servers : Alive(s)}) : used + committed + 1 <= Budget
OverBudget(committed) ==
  \E used \in 0..Cardinality({s \in Servers : Alive(s)}) : used + committed + 1 > Budget

(***************************************************************************)
(* Requests                                                                *)
(***************************************************************************)
FirstStep(op, s) ==
  CASE op = "start" -> "exists"
    [] op = "auto" -> "budget"
    [] op \in {"stop", "restart"} -> "signal"
    [] op = "delete" -> IF status[s] = "running" THEN "signal" ELSE "drop"

\* A request reads the server's row. The scheduler starts what is stopped.
Arrive(t, op, s) ==
  /\ Serving
  /\ Idle(t)
  /\ s \in rows
  /\ op = "auto" => status[s] = "stopped"
  /\ task' = [task EXCEPT ![t] = [pc |-> FirstStep(op, s), op |-> op, server |-> s]]
  /\ UNCHANGED <<rows, status, players, container, events, manager, boot, boots>>

\* StartByID.
CheckBudget(t) ==
  /\ At(t, "budget")
  /\ \/ WithinBudget(0) /\ Goto(t, "exists")
     \/ OverBudget(0) /\ Ends(t)
  /\ UNCHANGED <<rows, status, players, container, events, manager, boot, boots>>

(***************************************************************************)
(* Client.StartContainer and CreateServerContainer                         *)
(***************************************************************************)
\* Mutant: a container is created whether there is one or not.
ExistsIgnored(t) ==
  /\ At(t, "exists")
  /\ Goto(t, "replace")
  /\ UNCHANGED <<rows, status, players, container, events, manager, boot, boots>>

Exists(t) ==
  /\ At(t, "exists")
  /\ Goto(t, IF container[task[t].server] = "none" THEN "replace" ELSE "run")
  /\ UNCHANGED <<rows, status, players, container, events, manager, boot, boots>>

\* A container of that name which has come meanwhile is removed; the image is
\* pulled if need be.
Replace(t) ==
  /\ At(t, "replace")
  /\ ForceRemove(task[t].server)
  /\ Goto(t, "create")
  /\ UNCHANGED <<rows, status, players, manager, boot, boots>>

\* ContainerCreate: a name in use is an error.
Create(t) ==
  LET s == task[t].server IN
  /\ At(t, "create")
  /\ \/ container[s] = "none" /\ Becomes(s, "created") /\ Goto(t, "run")
     \/ (container[s] # "none" \/ Faults) /\ Ends(t) /\ UNCHANGED container
  /\ UNCHANGED <<rows, status, players, events, manager, boot, boots>>

\* ContainerStart: of a running container it does nothing; one that has exited
\* waits for its removal and cannot be started.
RunContainer(t) ==
  LET s == task[t].server IN
  /\ At(t, "run")
  /\ \/ container[s] = "created" /\ Becomes(s, "running") /\ Emit(s, "up") /\ Goto(t, "markUp")
     \/ Alive(s) /\ Goto(t, "markUp") /\ UNCHANGED <<container, events>>
     \/ (container[s] \in {"none", "exited"} \/ Faults) /\ Ends(t)
        /\ UNCHANGED <<container, events>>
  /\ UNCHANGED <<rows, status, players, manager, boot, boots>>

\* Mutant: the status is left to the event stream.
MarkUpForgotten(t) ==
  /\ At(t, "markUp")
  /\ Ends(t)
  /\ UNCHANGED <<rows, status, players, container, events, manager, boot, boots>>

MarkUp(t) ==
  /\ At(t, "markUp")
  /\ Mark(task[t].server, "running")
  /\ Ends(t)
  /\ UNCHANGED <<rows, players, container, events, manager, boot, boots>>

(***************************************************************************)
(* Client.StopContainer and what follows it                                *)
(***************************************************************************)
\* "No such container" is an error for Restart and the shutdown, as good as a
\* stop for Stop, StopServerByName and StopByID; Delete ignores every error.
AfterMissing(op) ==
  CASE op = "delete" -> "drop" [] op = "stop" -> "markDown" [] OTHER -> "idle"
AfterStop(op) == IF op = "delete" THEN "drop" ELSE "markDown"
AfterFault(op) == IF op = "delete" THEN "drop" ELSE "idle"

Continue(t, step) == IF step = "idle" THEN Ends(t) ELSE Goto(t, step)

Signal(t) ==
  LET s == task[t].server
      op == task[t].op
  IN
  /\ At(t, "signal")
  /\ \/ container[s] = "none" /\ Continue(t, AfterMissing(op)) /\ UNCHANGED <<container, events>>
     \/ container[s] \in {"created", "exited"} /\ Goto(t, AfterStop(op))
        /\ UNCHANGED <<container, events>>
     \/ container[s] = "running" /\ Becomes(s, "stopping") /\ Emit(s, "down") /\ Goto(t, "exit")
     \/ container[s] = "stopping" /\ Goto(t, "exit") /\ UNCHANGED <<container, events>>
     \/ Faults /\ Continue(t, AfterFault(op)) /\ UNCHANGED <<container, events>>
  /\ UNCHANGED <<rows, status, players, manager, boot, boots>>

WaitExit(t) ==
  /\ At(t, "exit")
  /\ container[task[t].server] # "stopping"
  /\ Goto(t, AfterStop(task[t].op))
  /\ UNCHANGED <<rows, status, players, container, events, manager, boot, boots>>

MarkDown(t) ==
  /\ At(t, "markDown")
  /\ Mark(task[t].server, "stopped")
  /\ Continue(t, IF task[t].op = "restart" THEN "waitGone" ELSE "idle")
  /\ UNCHANGED <<rows, players, container, events, manager, boot, boots>>

\* Restart: WaitForContainer, which fails after 45 seconds or when the container
\* vanishes under it ...
WaitGone(t) ==
  /\ At(t, "waitGone")
  /\ \/ ~Alive(task[t].server) /\ Goto(t, "remove")
     \/ container[task[t].server] # "none" /\ Ends(t)
  /\ UNCHANGED <<rows, status, players, container, events, manager, boot, boots>>

\* ... RemoveContainer, then StartContainer.
Remove(t) ==
  /\ At(t, "remove")
  /\ ForceRemove(task[t].server)
  /\ Goto(t, "exists")
  /\ UNCHANGED <<rows, status, players, manager, boot, boots>>

\* Delete: the container is removed under a name no container has; the files
\* and the row go.
Drop(t) ==
  /\ At(t, "drop")
  /\ rows' = rows \ {task[t].server}
  /\ Ends(t)
  /\ UNCHANGED <<status, players, container, events, manager, boot, boots>>

(***************************************************************************)
(* Docker and the players                                                  *)
(***************************************************************************)
Exit(s) ==
  /\ container[s] = "stopping"
  /\ Becomes(s, "exited")
  /\ Emit(s, "down")
  /\ UNCHANGED <<rows, status, players, manager, task, boot, boots>>

Crash(s) ==
  /\ container[s] = "running"
  /\ Becomes(s, "exited")
  /\ Emit(s, "down")
  /\ UNCHANGED <<rows, status, players, manager, task, boot, boots>>

\* AutoRemove.
Vanish(s) ==
  /\ container[s] = "exited"
  /\ Becomes(s, "none")
  /\ Emit(s, "down")
  /\ UNCHANGED <<rows, status, players, manager, task, boot, boots>>

\* The proxy reports a player of a server that runs, or that he has left.
Join(s) ==
  /\ Serving
  /\ container[s] = "running" /\ s \in rows
  /\ players' = players \cup {s}
  /\ UNCHANGED <<rows, status, container, events, manager, task, boot, boots>>

Leave(s) ==
  /\ Serving
  /\ s \in players
  /\ players' = players \ {s}
  /\ UNCHANGED <<rows, status, container, events, manager, task, boot, boots>>

\* Mutant: the players of a server that went down are kept.
ProcessEventKeepsPlayers(s) ==
  /\ Serving
  /\ events[s] # <<>>
  /\ events' = [events EXCEPT ![s] = Tail(@)]
  /\ Mark(s, IF Head(events[s]) = "up" THEN "running" ELSE "stopped")
  /\ UNCHANGED <<rows, players, container, manager, task, boot, boots>>

(***************************************************************************)
(* The event manager                                                        *)
(***************************************************************************)
ProcessEvent(s) ==
  /\ Serving
  /\ events[s] # <<>>
  /\ events' = [events EXCEPT ![s] = Tail(@)]
  /\ Mark(s, IF Head(events[s]) = "up" THEN "running" ELSE "stopped")
  /\ players' = IF s \in rows /\ Head(events[s]) = "down" THEN players \ {s} ELSE players
  /\ UNCHANGED <<rows, container, manager, task, boot, boots>>

(***************************************************************************)
(* The manager's own life                                                  *)
(***************************************************************************)
\* Mutant: the tables are taken as they were left.
BootUnsynced ==
  /\ manager = "off"
  /\ boots < MaxBoots
  /\ boots' = boots + 1
  /\ manager' = "boot"
  /\ boot' = [todo |-> Flagged \cap rows, chosen |-> {}]
  /\ UNCHANGED <<rows, status, players, container, events, task>>

\* SyncServerStatus, the pruning of players, and startOnBoot's query.
Boot ==
  /\ manager = "off"
  /\ boots < MaxBoots
  /\ boots' = boots + 1
  /\ manager' = "boot"
  /\ status' = [s \in Servers |->
                  IF s \in rows /\ container[s] = "none" THEN "stopped" ELSE status[s]]
  /\ players' = players \ {s \in rows : status'[s] # "running"}
  /\ boot' = [todo |-> Flagged \cap rows, chosen |-> {}]
  /\ UNCHANGED <<rows, container, events, task>>

BootTask(s) ==
  task' = [task EXCEPT ![s] = [pc |-> "exists", op |-> "boot", server |-> s]]

\* The flagged servers are looked at one by one: a server that fits next to
\* those let start before it gets its goroutine.
BootGate(s) ==
  LET committed == Cardinality(boot.chosen) IN
  /\ manager = "boot"
  /\ s \in boot.todo
  /\ \/ /\ WithinBudget(committed)
        /\ boot' = [todo |-> boot.todo \ {s}, chosen |-> boot.chosen \cup {s}]
        /\ BootTask(s)
     \/ /\ OverBudget(committed)
        /\ boot' = [boot EXCEPT !.todo = @ \ {s}]
        /\ UNCHANGED task
  /\ UNCHANGED <<rows, status, players, container, events, manager, boots>>

\* wg.Wait, then the event manager, the schedulers and the HTTP server.
Ready ==
  /\ manager = "boot"
  /\ boot.todo = {}
  /\ \A s \in Servers : Idle(s)
  /\ manager' = "up"
  /\ UNCHANGED <<rows, status, players, container, events, task, boot, boots>>

\* SIGTERM: a goroutine for every server the table says is running. Requests
\* are still served.
Terminate ==
  /\ manager = "up"
  /\ manager' = "stopping"
  /\ task' = [t \in Tasks |->
                IF t \in rows /\ status[t] = "running"
                THEN [pc |-> "signal", op |-> "close", server |-> t] ELSE task[t]]
  /\ UNCHANGED <<rows, status, players, container, events, boot, boots>>

\* The process and its goroutines are gone, and with them unread events.
ProcessEnds ==
  /\ manager' = "off"
  /\ task' = [t \in Tasks |-> NoTask]
  /\ events' = [s \in Servers |-> <<>>]
  /\ boot' = [todo |-> {}, chosen |-> {}]
  /\ UNCHANGED <<rows, status, players, container, boots>>

\* wg.Wait and server.Shutdown, which lets requests finish or times out.
PowerOff ==
  /\ manager = "stopping"
  /\ \A s \in Servers : Idle(s)
  /\ ProcessEnds

Killed == manager # "off" /\ ProcessEnds

-------------------------------------------------------------------------------
Step(t) ==
  \/ CheckBudget(t) \/ Exists(t) \/ Replace(t) \/ Create(t) \/ RunContainer(t) \/ MarkUp(t)
  \/ Signal(t) \/ WaitExit(t) \/ MarkDown(t) \/ WaitGone(t) \/ Remove(t) \/ Drop(t)

Docker(s) == Exit(s) \/ Vanish(s)

Next ==
  \/ \E t \in Requests, s \in Servers, op \in Ops \ {"boot", "close"} : Arrive(t, op, s)
  \/ \E t \in Tasks : Step(t)
  \/ \E s \in Servers : Docker(s) \/ Crash(s) \/ Join(s) \/ Leave(s) \/ ProcessEvent(s) \/ BootGate(s)
  \/ Boot \/ Ready \/ Terminate \/ PowerOff \/ Killed

Spec == Init /\ [][Next]_vars

\* A container may also go while the manager boots: after SyncServerStatus has
\* looked and before the event manager listens.  The manager does not learn of
\* that one until it boots again; what it promises is for the others.
NoneGoesAtBoot ==
  manager = "boot" => \A s \in Servers : container[s] # "none" => container'[s] # "none"

WatchedSpec == Init /\ [][Next /\ NoneGoesAtBoot]_vars

(***************************************************************************)
(* Properties                                                              *)
(***************************************************************************)
\* Nothing is under way: no goroutine, no unread event, no container that is
\* about to end or to vanish.
Settled ==
  /\ manager = "up"
  /\ \A t \in Tasks : Idle(t)
  /\ \A s \in Servers : events[s] = <<>> /\ container[s] \notin {"stopping", "exited"}

\* The table says what Docker does.
StatusAgrees == \A s \in rows : status[s] = "running" <=> container[s] = "running"

\* Only servers that have a container have players (broadcastStatusChange:
\* "Server's gone, nobody can be playing on it anymore"), whatever requests
\* overlap, whatever events a killed manager never read. A container may have
\* been created and never run: the boot does not tell it from one that runs.
NoGhosts == Settled => \A s \in players \cap rows : container[s] # "none"

\* startOnBoot never lets start more than fits, however late the memory of what
\* it starts shows up (committedMB).
BootWithinBudget == Cardinality(boot.chosen) <= Budget

\* What holds however requests, events, boots and crashes overlap, with the types
\* of the variables.
LifecycleInv == TypeOK /\ NoGhosts /\ BootWithinBudget

===============================================================================
