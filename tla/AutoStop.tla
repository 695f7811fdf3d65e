------------------------------- MODULE AutoStop -------------------------------
(***************************************************************************)
(* DemiDynamic's auto-stop.  AutoStopManager keeps who is on which server  *)
(* and one stop timer per idle server; the asynchronous handlers of        *)
(* ServerConnectedEvent and DisconnectEvent feed it and report to the      *)
(* manager, whose players table has one row per player.  startServerAndQueue *)
(* stops every server that has a pending timer when memory is short.       *)
(*                                                                         *)
(* What Velocity does between the events is external: it forgets the       *)
(* current server, waits for the handler of ServerConnectedEvent, and only *)
(* then sets the new one.  A player is a UUID: who left may come back.     *)
(***************************************************************************)

CONSTANTS Players,      (* UUIDs                                           *)
          Servers,      (* backend servers, the login server among them    *)
          LoginServer,  (* config: login_server                            *)
          Excluded,     (* config: excluded_servers                        *)
          Timers,       (* bound: scheduled stop tasks at the same time    *)
          Lossy,        (* TRUE: requests to the manager may fail          *)
          None          (* null                                            *)

ASSUME AutoStopAssumption ==
  /\ LoginServer \in Servers
  /\ Excluded \subseteq Servers
  /\ None \notin Servers \cup Timers
  /\ Lossy \in BOOLEAN

VARIABLES
  online,      (* players with a session                                   *)
  at,          (* player -> Player.getCurrentServer()                      *)
  backend,     (* servers whose process runs                               *)
  tracked,     (* AutoStopManager.serverPlayers                            *)
  stopTimers,  (* AutoStopManager.stopTimers: server -> task, or None      *)
  timer,       (* scheduled task -> its server and progress                *)
  conn,        (* player -> progress of his connection to another server   *)
  disc,        (* player -> progress of his DisconnectEvent                *)
  rows,        (* the manager's players table: player -> server, or None   *)
  evict        (* servers startServerAndQueue still has to stop            *)

vars == <<online, at, backend, tracked, stopTimers, timer, conn, disc, rows, evict>>

HandlerSteps == {"untrack", "leave", "status", "cancelOld", "arm"}

TypeOK ==
  /\ online \subseteq Players
  /\ at \in [Players -> Servers \cup {None}]
  /\ backend \subseteq Servers
  /\ tracked \in [Servers -> SUBSET Players]
  /\ stopTimers \in [Servers -> Timers \cup {None}]
  /\ timer \in [Timers -> [pc : {"free", "armed", "stop", "forget"},
                           server : Servers \cup {None}]]
  /\ conn \in [Players -> [pc : HandlerSteps \cup {"idle", "handshake", "track", "cancelTimer", "land"},
                           target : Servers \cup {None}, prev : Servers \cup {None}]]
  /\ disc \in [Players -> [pc : HandlerSteps \cup {"idle"}, server : Servers \cup {None}]]
  /\ rows \in [Players -> Servers \cup {None}]
  /\ evict \subseteq Servers

NoTimer == [pc |-> "free", server |-> None]
NoConn  == [pc |-> "idle", target |-> None, prev |-> None]
NoDisc  == [pc |-> "idle", server |-> None]

Init ==
  /\ online = {}
  /\ at = [p \in Players |-> None]
  /\ backend = Servers
  /\ tracked = [s \in Servers |-> {}]
  /\ stopTimers = [s \in Servers |-> None]
  /\ timer = [t \in Timers |-> NoTimer]
  /\ conn = [p \in Players |-> NoConn]
  /\ disc = [p \in Players |-> NoDisc]
  /\ rows = [p \in Players |-> None]
  /\ evict = {}

(***************************************************************************)
(* AutoStopManager, one map operation each                                 *)
(***************************************************************************)
AddPlayerToServer(p, s) == tracked' = [tracked EXCEPT ![s] = @ \cup {p}]

RemovePlayerFromServer(p, s) == tracked' = [tracked EXCEPT ![s] = @ \ {p}]

\* Mutant: the last player does not count.
IsServerEmptyButOne(s) == \A p, q \in tracked[s] : p = q

IsServerEmpty(s) == tracked[s] = {}

\* stopTimers.remove(s) and cancel(false), which a running task ignores.
CancelStopTimer(s) ==
  LET t == stopTimers[s] IN
  /\ stopTimers' = [stopTimers EXCEPT ![s] = None]
  /\ timer' = IF t # None /\ timer[t].pc = "armed" THEN [timer EXCEPT ![t] = NoTimer] ELSE timer

\* The second half of scheduleStopTimer: schedule the task and register it.
\* The delay is minutes, so the task does not run before it is registered.
ArmTimer(s) ==
  \E t \in Timers :
    /\ timer[t].pc = "free"
    /\ timer' = [timer EXCEPT ![t] = [pc |-> "armed", server |-> s]]
    /\ stopTimers' = [stopTimers EXCEPT ![s] = t]

\* The test both handlers make, with the status the manager sent (or not).
MaySchedule(s) == IsServerEmpty(s) /\ s \notin Excluded /\ s # LoginServer

Answered == IF Lossy THEN BOOLEAN ELSE {TRUE}

\* POST /api/players/leave: with a server, only a row for that server goes.
ReportPlayerLeave(p, s) ==
  \E ok \in Answered :
    rows' = IF ok /\ s \in {None, rows[p]} THEN [rows EXCEPT ![p] = None] ELSE rows

ConnTo(p, step) == conn' = [conn EXCEPT ![p].pc = step]
DiscTo(p, step) == disc' = [disc EXCEPT ![p].pc = step]

(***************************************************************************)
(* Sessions and connections                                                *)
(***************************************************************************)
Login(p) ==
  /\ p \notin online
  /\ conn[p].pc = "idle"
  /\ online' = online \cup {p}
  /\ UNCHANGED <<at, backend, tracked, stopTimers, timer, conn, disc, rows, evict>>

\* onServerPreConnect lets a player through to a server that answers: a player
\* nobody queued is reported first, a queued one (the gate) is not.
PreConnect(p, s) ==
  /\ p \in online
  /\ conn[p].pc = "idle"
  /\ s \in backend \ {at[p]}
  /\ \/ \E ok \in Answered : rows' = IF ok THEN [rows EXCEPT ![p] = s] ELSE rows
     \/ at[p] # None /\ UNCHANGED rows
  /\ conn' = [conn EXCEPT ![p] = [pc |-> "handshake", target |-> s, prev |-> None]]
  /\ UNCHANGED <<online, at, backend, tracked, stopTimers, timer, disc, evict>>

\* The server refuses the player or has gone; he stays where he was.
HandshakeFails(p) ==
  /\ conn[p].pc = "handshake"
  /\ conn' = [conn EXCEPT ![p] = NoConn]
  /\ UNCHANGED <<online, at, backend, tracked, stopTimers, timer, disc, rows, evict>>

\* ServerConnectedEvent. The handler runs on a thread of its own.
ServerConnected(p) ==
  /\ conn[p].pc = "handshake"
  /\ conn[p].target \in backend
  /\ at' = [at EXCEPT ![p] = None]
  /\ conn' = [conn EXCEPT ![p].pc = IF at[p] = None THEN "track" ELSE "untrack",
                          ![p].prev = at[p]]
  /\ UNCHANGED <<online, backend, tracked, stopTimers, timer, disc, rows, evict>>

\* DisconnectEvent: the server is read at once, the rest is asynchronous. A
\* handshake ends with the session. Bound: one such event per player at a time.
Disconnect(p) ==
  /\ p \in online
  /\ disc[p].pc = "idle"
  /\ online' = online \ {p}
  /\ at' = [at EXCEPT ![p] = None]
  /\ disc' = [disc EXCEPT ![p] = [pc |-> IF at[p] = None THEN "leave" ELSE "untrack",
                                  server |-> at[p]]]
  /\ conn' = IF conn[p].pc = "handshake" THEN [conn EXCEPT ![p] = NoConn] ELSE conn
  /\ UNCHANGED <<backend, tracked, stopTimers, timer, rows, evict>>

(***************************************************************************)
(* onServerConnected                                                       *)
(***************************************************************************)
ConnUntrack(p) ==
  /\ conn[p].pc = "untrack"
  /\ RemovePlayerFromServer(p, conn[p].prev)
  /\ ConnTo(p, "leave")
  /\ UNCHANGED <<online, at, backend, stopTimers, timer, disc, rows, evict>>

ConnLeave(p) ==
  /\ conn[p].pc = "leave"
  /\ ReportPlayerLeave(p, conn[p].prev)
  /\ ConnTo(p, "status")
  /\ UNCHANGED <<online, at, backend, tracked, stopTimers, timer, disc, evict>>

ConnStatus(p) ==
  /\ conn[p].pc = "status"
  /\ \E ok \in Answered :
       ConnTo(p, IF ok /\ MaySchedule(conn[p].prev) THEN "cancelOld" ELSE "track")
  /\ UNCHANGED <<online, at, backend, tracked, stopTimers, timer, disc, rows, evict>>

ConnCancelOld(p) ==
  /\ conn[p].pc = "cancelOld"
  /\ CancelStopTimer(conn[p].prev)
  /\ ConnTo(p, "arm")
  /\ UNCHANGED <<online, at, backend, tracked, disc, rows, evict>>

ConnArm(p) ==
  /\ conn[p].pc = "arm"
  /\ ArmTimer(conn[p].prev)
  /\ ConnTo(p, "track")
  /\ UNCHANGED <<online, at, backend, tracked, disc, rows, evict>>

\* addPlayerToServer: the set first, the timer after it.
ConnTrack(p) ==
  /\ conn[p].pc = "track"
  /\ AddPlayerToServer(p, conn[p].target)
  /\ ConnTo(p, "cancelTimer")
  /\ UNCHANGED <<online, at, backend, stopTimers, timer, disc, rows, evict>>

\* Mutant: the timer of the server joined goes on.
ConnCancelTimerForgotten(p) ==
  /\ conn[p].pc = "cancelTimer"
  /\ ConnTo(p, "land")
  /\ UNCHANGED <<online, at, backend, tracked, stopTimers, timer, disc, rows, evict>>

ConnCancelTimer(p) ==
  /\ conn[p].pc = "cancelTimer"
  /\ CancelStopTimer(conn[p].target)
  /\ ConnTo(p, "land")
  /\ UNCHANGED <<online, at, backend, tracked, disc, rows, evict>>

\* The event is over: Velocity sets the current server of a player still there.
Land(p) ==
  /\ conn[p].pc = "land"
  /\ at' = [at EXCEPT ![p] = IF p \in online THEN conn[p].target ELSE None]
  /\ conn' = [conn EXCEPT ![p] = NoConn]
  /\ UNCHANGED <<online, backend, tracked, stopTimers, timer, disc, rows, evict>>

(***************************************************************************)
(* onPlayerDisconnect                                                       *)
(***************************************************************************)
DiscUntrack(p) ==
  /\ disc[p].pc = "untrack"
  /\ RemovePlayerFromServer(p, disc[p].server)
  /\ DiscTo(p, "leave")
  /\ UNCHANGED <<online, at, backend, stopTimers, timer, conn, rows, evict>>

\* Without a server the row is cleared wherever it is and nothing follows.
DiscLeave(p) ==
  /\ disc[p].pc = "leave"
  /\ ReportPlayerLeave(p, disc[p].server)
  /\ disc' = [disc EXCEPT ![p] = IF @.server = None THEN NoDisc ELSE [@ EXCEPT !.pc = "status"]]
  /\ UNCHANGED <<online, at, backend, tracked, stopTimers, timer, conn, evict>>

DiscStatus(p) ==
  /\ disc[p].pc = "status"
  /\ \E ok \in Answered :
       disc' = [disc EXCEPT ![p] = IF ok /\ MaySchedule(@.server)
                                   THEN [@ EXCEPT !.pc = "cancelOld"] ELSE NoDisc]
  /\ UNCHANGED <<online, at, backend, tracked, stopTimers, timer, conn, rows, evict>>

DiscCancelOld(p) ==
  /\ disc[p].pc = "cancelOld"
  /\ CancelStopTimer(disc[p].server)
  /\ DiscTo(p, "arm")
  /\ UNCHANGED <<online, at, backend, tracked, conn, rows, evict>>

DiscArm(p) ==
  /\ disc[p].pc = "arm"
  /\ ArmTimer(disc[p].server)
  /\ disc' = [disc EXCEPT ![p] = NoDisc]
  /\ UNCHANGED <<online, at, backend, tracked, conn, rows, evict>>

(***************************************************************************)
(* The scheduled task                                                      *)
(***************************************************************************)
Fire(t) ==
  /\ timer[t].pc = "armed"
  /\ timer' = [timer EXCEPT ![t].pc =
                IF IsServerEmpty(timer[t].server) THEN "stop" ELSE "forget"]
  /\ UNCHANGED <<online, at, backend, tracked, stopTimers, conn, disc, rows, evict>>

\* stopServerByName. Who is on the server moves on or leaves: Velocity's steps.
StopServer(t) ==
  /\ timer[t].pc = "stop"
  /\ \E ok \in Answered : backend' = IF ok THEN backend \ {timer[t].server} ELSE backend
  /\ timer' = [timer EXCEPT ![t].pc = "forget"]
  /\ UNCHANGED <<online, at, tracked, stopTimers, conn, disc, rows, evict>>

\* Mutant: the task leaves its entry behind.
ForgetKeepsEntry(t) ==
  /\ timer[t].pc = "forget"
  /\ timer' = [timer EXCEPT ![t] = NoTimer]
  /\ UNCHANGED <<online, at, backend, tracked, stopTimers, conn, disc, rows, evict>>

\* stopTimers.remove(serverName), whichever task is registered by now.
Forget(t) ==
  /\ timer[t].pc = "forget"
  /\ stopTimers' = [stopTimers EXCEPT ![timer[t].server] = None]
  /\ timer' = [timer EXCEPT ![t] = NoTimer]
  /\ UNCHANGED <<online, at, backend, tracked, conn, disc, rows, evict>>

(***************************************************************************)
(* startServerAndQueue: memory is short                                     *)
(***************************************************************************)
\* getServersWithPendingStopTimers.
Evict ==
  /\ evict = {}
  /\ evict' = {s \in Servers : stopTimers[s] # None}
  /\ evict' # {}
  /\ UNCHANGED <<online, at, backend, tracked, stopTimers, timer, conn, disc, rows>>

EvictStop(s) ==
  /\ s \in evict
  /\ \E ok \in Answered : backend' = IF ok THEN backend \ {s} ELSE backend
  /\ evict' = evict \ {s}
  /\ UNCHANGED <<online, at, tracked, stopTimers, timer, conn, disc, rows>>

\* Somebody starts the server again: a queued player or an operator.
Start(s) ==
  /\ s \notin backend
  /\ backend' = backend \cup {s}
  /\ UNCHANGED <<online, at, tracked, stopTimers, timer, conn, disc, rows, evict>>

-------------------------------------------------------------------------------
OnServerConnected(p) ==
  \/ ConnUntrack(p) \/ ConnLeave(p) \/ ConnStatus(p) \/ ConnCancelOld(p)
  \/ ConnArm(p) \/ ConnTrack(p) \/ ConnCancelTimer(p) \/ Land(p)

OnPlayerDisconnect(p) ==
  DiscUntrack(p) \/ DiscLeave(p) \/ DiscStatus(p) \/ DiscCancelOld(p) \/ DiscArm(p)

Task(t) == Fire(t) \/ StopServer(t) \/ Forget(t)

Next ==
  \/ \E p \in Players :
       \/ Login(p) \/ HandshakeFails(p) \/ ServerConnected(p) \/ Disconnect(p)
       \/ OnServerConnected(p) \/ OnPlayerDisconnect(p)
       \/ \E s \in Servers : PreConnect(p, s)
  \/ \E t \in Timers : Task(t)
  \/ Evict
  \/ \E s \in Servers : EvictStop(s) \/ Start(s)

\* The proxy runs its handlers and its scheduled tasks; players owe nothing.
Fairness ==
  /\ \A p \in Players : WF_vars(OnServerConnected(p)) /\ WF_vars(OnPlayerDisconnect(p))
  /\ \A t \in Timers : WF_vars(Task(t))

Spec == Init /\ [][Next]_vars
FairSpec == Spec /\ Fairness

(***************************************************************************)
(* Properties                                                              *)
(***************************************************************************)
\* A registered stop timer is a task for that server that has still to end, so
\* hasPendingStopTimer and the eviction never see a server whose countdown is
\* over (scheduleStopTimer, cancelStopTimer and the task's last line).
EntryIsLive ==
  \A s \in Servers : stopTimers[s] # None =>
    LET t == stopTimers[s] IN timer[t].pc # "free" /\ timer[t].server = s

\* The registered timers, with the types of the variables.
StopInv == TypeOK /\ EntryIsLive

\* The login server and the excluded ones are never stopped by the plugin,
\* neither by a timer nor to make room.
NeverStopped ==
  [][(Excluded \cup {LoginServer}) \cap backend \subseteq backend']_vars

\* A stop timer does not stay pending for ever: it is cancelled or it runs.
TimerEnds == \A s \in Servers : stopTimers[s] # None ~> stopTimers[s] = None

\* Handlers, tasks and the eviction under way.
Busy ==
  {<<"conn", p>> : p \in {q \in Players : conn[q].pc # "idle"}}
    \cup {<<"disc", p>> : p \in {q \in Players : disc[q].pc # "idle"}}
    \cup {<<"task", t>> : t \in {u \in Timers : timer[u].pc \in {"stop", "forget"}}}
    \cup {<<"evict", None>> : s \in evict}

\* serverPlayers is where the players are.
TrackedIsActual == \A s \in Servers : tracked[s] = {p \in Players : at[p] = s}

\* An armed task is one cancelStopTimer finds, for a server nobody is on.
TimersInReach ==
  \A t \in Timers : timer[t].pc = "armed" =>
    /\ stopTimers[timer[t].server] = t
    /\ \A p \in Players : at[p] # timer[t].server

\* The task stops a server somebody is on.
StopsOccupied(t) ==
  /\ timer[t].pc = "stop" /\ timer'[t].pc = "forget"
  /\ \E p \in Players : at[p] = timer[t].server

===============================================================================
