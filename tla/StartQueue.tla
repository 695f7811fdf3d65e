------------------------------ MODULE StartQueue ------------------------------
(***************************************************************************)
(* DemiDynamic's auto-start: a player asks for a server that is down, is   *)
(* queued, and background work starts the server, polls it and sends the   *)
(* player there.  ServerPreConnectHandler, the countdown of QueueManager   *)
(* and CancelCommand run on different threads and interleave at every      *)
(* shared map operation, manager call and scheduled task.                  *)
(*                                                                         *)
(* The queue is the atomic one of WaitQueue (module QueueManager shows     *)
(* what its two maps make of it).  A Player object is one session: who     *)
(* disconnects comes back as another player.  Polling attempts are not     *)
(* counted: the last one may be any one.  Requests for the hub, queue and   *)
(* login servers, which are always up, pass the handler unqueued and are    *)
(* left out: a player starts on one of them.                                *)
(***************************************************************************)
EXTENDS FiniteSets, Naturals

CONSTANTS Players,      (* player sessions                                 *)
          Servers,      (* servers behind the manager                      *)
          Excluded,     (* config: excluded_servers                        *)
          HubServer,    (* config: hub_server                              *)
          QueueServer,  (* config: queue_server                            *)
          LoginServer,  (* config: login_server                            *)
          UseHubQueue,  (* config: use_hub_queue                           *)
          Jobs,         (* background tasks                                *)
          MaxAdmissions, (* bound: times a player is put in a queue         *)
          None          (* null                                            *)

Lobby == {HubServer, QueueServer, LoginServer}

ASSUME ServersAssumption ==
  /\ Excluded \subseteq Servers
  /\ Lobby \cap Servers = {}
  /\ None \notin Servers \cup Lobby \cup Jobs \cup Players
  /\ Players \cap Jobs = {}
  /\ UseHubQueue \in BOOLEAN
  /\ MaxAdmissions \in Nat

(***************************************************************************)
(* A connection attempt is made by the player or by a job that teleports.  *)
(***************************************************************************)
Attempts == Players \cup Jobs

VARIABLES
  at,         (* server each player is on; None: disconnected              *)
  backend,    (* state of each server process                              *)
  queued,     (* QueueManager.playerQueues                                 *)
  countdown,  (* QueueEntry.countdownTask: the job of the entry's countdown *)
  starting,   (* ServerPreConnectHandler.startingServers                   *)
  conn,       (* attempt -> progress of onServerPreConnect                 *)
  job,        (* job -> progress of the background work                    *)
  cancel,     (* player -> progress of /cancel                             *)
  admissions  (* times a player has been queued so far                     *)

vars == <<at, backend, queued, countdown, starting, conn, job, cancel, admissions>>

ConnSteps == {"idle", "check", "enqueue", "claim", "claimAdd", "gate", "transfer"}
JobSteps  == {"idle", "canStart", "start", "refuse", "release", "poll", "ready",
              "tick", "request", "dequeue"}

TypeOK ==
  /\ at \in [Players -> Servers \cup Lobby \cup {None}]
  /\ backend \in [Servers -> {"down", "booting", "up"}]
  /\ queued \in [Players -> Servers \cup {None}]
  /\ countdown \in [Players -> Jobs \cup {None}]
  /\ starting \subseteq Servers
  /\ conn \in [Attempts -> [pc : ConnSteps, player : Players \cup {None},
                            target : Servers \cup {None}, hub : BOOLEAN]]
  /\ job \in [Jobs -> [pc : JobSteps, player : Players \cup {None},
                       server : Servers \cup {None}, hub : BOOLEAN]]
  /\ cancel \in [Players -> [pc : {"idle", "remove", "stop"},
                             server : Servers \cup {None}, leave : BOOLEAN]]
  /\ admissions \in 0..MaxAdmissions

NoConn == [pc |-> "idle", player |-> None, target |-> None, hub |-> FALSE]
NoJob  == [pc |-> "idle", player |-> None, server |-> None, hub |-> FALSE]
NoCancel == [pc |-> "idle", server |-> None, leave |-> FALSE]

Init ==
  /\ at \in [Players -> {LoginServer, HubServer}]
  /\ backend = [s \in Servers |-> "down"]
  /\ queued = [p \in Players |-> None]
  /\ countdown = [p \in Players |-> None]
  /\ starting = {}
  /\ conn = [c \in Attempts |-> NoConn]
  /\ job = [j \in Jobs |-> NoJob]
  /\ cancel = [p \in Players |-> NoCancel]
  /\ admissions = 0

(***************************************************************************)
(* Shared helpers                                                          *)
(***************************************************************************)
ConnAt(c, step) == conn[c].pc = step
ConnTo(c, step) == conn' = [conn EXCEPT ![c].pc = step]
ConnEnds(c) == conn' = [conn EXCEPT ![c] = NoConn]

JobAt(j, step) == job[j].pc = step
JobTo(j, step) == job' = [job EXCEPT ![j].pc = step]
JobEnds(j) == job' = [job EXCEPT ![j] = NoJob]

\* ping().
IsServerRunning(s) == backend[s] = "up"

\* QueueManager.removeFromQueue: the entry goes, its countdown is not cancelled.
RemoveFromQueue(p) ==
  /\ queued' = [queued EXCEPT ![p] = None]
  /\ countdown' = [countdown EXCEPT ![p] = None]

\* Bookkeeping of the finite set of jobs: a player's attempt takes a job that
\* is entirely free, a job's teleport attempt reuses its own.
FreeJobs == {j \in Jobs : JobAt(j, "idle") /\ ConnAt(j, "idle")}
JobsFor(c) == IF c \in Jobs THEN {j \in {c} : JobAt(j, "idle")} ELSE FreeJobs
Unspent == {c \in Players : conn[c].pc \in {"check", "enqueue", "claim", "claimAdd"}}

\* buildTask(...).schedule(), for the player and server of attempt c.
Spawn(c, step) ==
  \E j \in JobsFor(c) :
    job' = [job EXCEPT ![j] = [pc |-> step, player |-> conn[c].player,
                               server |-> conn[c].target, hub |-> conn[c].hub]]

Online(p) == at[p] # None

\* The process of s goes down; Velocity moves its players to the hub.
StopBackend(s) ==
  /\ backend' = [backend EXCEPT ![s] = "down"]
  /\ at' = [p \in Players |-> IF at[p] = s THEN HubServer ELSE at[p]]

(***************************************************************************)
(* onServerPreConnect                                                      *)
(***************************************************************************)
\* The player asks for a server. Every attempt may need a job: the number of
\* jobs bounds the attempts that run at the same time.
Request(p, s) ==
  /\ Online(p)
  /\ s # at[p]
  /\ ConnAt(p, "idle")
  /\ Cardinality(Unspent) < Cardinality(FreeJobs)
  /\ conn' = [conn EXCEPT ![p] = [pc |-> "check", player |-> p, target |-> s, hub |-> FALSE]]
  /\ UNCHANGED <<at, backend, queued, countdown, starting, job, cancel, admissions>>

\* isInAnyQueue: a queued player is handled apart. For the others the current
\* server chooses the hub or the direct path; a server that answers is joined,
\* a server that does not is queued for unless it is excluded.
Check(c) ==
  LET p == conn[c].player
      s == conn[c].target
  IN
  /\ ConnAt(c, "check")
  /\ \/ queued[p] # None /\ ConnTo(c, "gate")
     \/ /\ queued[p] = None
        /\ IsServerRunning(s)
        /\ ConnTo(c, "transfer")
     \/ /\ queued[p] = None
        /\ ~IsServerRunning(s)
        /\ s \in Excluded
        /\ ConnEnds(c)
     \/ /\ queued[p] = None
        /\ ~IsServerRunning(s)
        /\ s \notin Excluded
        /\ conn' = [conn EXCEPT ![c].pc = "enqueue",
                                ![c].hub = UseHubQueue /\ at[p] = HubServer]
  /\ UNCHANGED <<at, backend, queued, countdown, starting, job, cancel, admissions>>

\* addToQueue; refused, the event keeps its default result and the player is
\* connected to a server that did not answer, which fails.
Enqueue(c) ==
  LET p == conn[c].player IN
  /\ ConnAt(c, "enqueue")
  /\ \/ /\ queued[p] = None
        /\ admissions < MaxAdmissions
        /\ admissions' = admissions + 1
        /\ queued' = [queued EXCEPT ![p] = conn[c].target]
        /\ ConnTo(c, "claim")
     \/ /\ queued[p] # None
        /\ ConnEnds(c)
        /\ UNCHANGED <<queued, admissions>>
  /\ UNCHANGED <<at, backend, countdown, starting, job, cancel>>

\* The handler returns: a hub player stays, a direct one goes to the queue
\* server.
HandlerReturns(c) ==
  LET p == conn[c].player IN
  /\ at' = [at EXCEPT ![p] = IF conn[c].hub \/ ~Online(p) THEN @ ELSE QueueServer]
  /\ ConnEnds(c)

\* startingServers.contains: somebody is starting the server, only wait.
Claim(c) ==
  /\ ConnAt(c, "claim")
  /\ \/ /\ conn[c].target \in starting
        /\ Spawn(c, "poll")
        /\ HandlerReturns(c)
     \/ /\ conn[c].target \notin starting
        /\ ConnTo(c, "claimAdd")
        /\ UNCHANGED <<at, job>>
  /\ UNCHANGED <<backend, queued, countdown, starting, cancel, admissions>>

\* startingServers.add: a second thread may have added it since the test.
ClaimAdd(c) ==
  /\ ConnAt(c, "claimAdd")
  /\ starting' = starting \cup {conn[c].target}
  /\ Spawn(c, "canStart")
  /\ HandlerReturns(c)
  /\ UNCHANGED <<backend, queued, countdown, cancel, admissions>>

\* A queued player may only go to the server he waits for (isInQueue), once
\* it answers.
Gate(c) ==
  LET allowed == /\ queued[conn[c].player] = conn[c].target
                 /\ IsServerRunning(conn[c].target)
  IN
  /\ ConnAt(c, "gate")
  /\ \/ allowed /\ ConnTo(c, "transfer")
     \/ ~allowed /\ ConnEnds(c)
  /\ UNCHANGED <<at, backend, queued, countdown, starting, job, cancel, admissions>>

\* Velocity connects the player, unless he or the server went meanwhile.
Transfer(c) ==
  LET p == conn[c].player IN
  /\ ConnAt(c, "transfer")
  /\ at' = [at EXCEPT ![p] = IF Online(p) /\ IsServerRunning(conn[c].target)
                             THEN conn[c].target ELSE @]
  /\ ConnEnds(c)
  /\ UNCHANGED <<backend, queued, countdown, starting, job, cancel, admissions>>

(***************************************************************************)
(* startServerAndQueue                                                     *)
(***************************************************************************)
\* can-start answers yes or no, or does not answer (null).  The second try,
\* after stopping the servers that have a pending stop timer, is part of it.
CanStart(j) ==
  /\ JobAt(j, "canStart")
  /\ \E step \in {"start", "refuse"} : JobTo(j, step)
  /\ UNCHANGED <<at, backend, queued, countdown, starting, conn, cancel, admissions>>

\* The start request reaches the manager or not; its answer arrives or not.
StartServer(j) ==
  LET s == job[j].server IN
  /\ JobAt(j, "start")
  /\ \/ /\ backend' = [backend EXCEPT ![s] = IF @ = "down" THEN "booting" ELSE @]
        /\ \E step \in {"poll", "refuse"} : JobTo(j, step)
     \/ JobTo(j, "refuse") /\ UNCHANGED backend
  /\ UNCHANGED <<at, queued, countdown, starting, conn, cancel, admissions>>

\* The player is told (a direct player is disconnected) and dequeued ...
Refuse(j) ==
  LET p == job[j].player IN
  /\ JobAt(j, "refuse")
  /\ at' = [at EXCEPT ![p] = IF job[j].hub THEN @ ELSE None]
  /\ RemoveFromQueue(p)
  /\ JobTo(j, "release")
  /\ UNCHANGED <<backend, starting, conn, cancel, admissions>>

\* Mutant: a failed start leaves the server marked as starting.
ReleaseForgotten(j) ==
  /\ JobAt(j, "release")
  /\ JobEnds(j)
  /\ UNCHANGED <<at, backend, queued, countdown, starting, conn, cancel, admissions>>

\* ... and the server is no longer being started.
Release(j) ==
  /\ JobAt(j, "release")
  /\ starting' = starting \ {job[j].server}
  /\ JobEnds(j)
  /\ UNCHANGED <<at, backend, queued, countdown, conn, cancel, admissions>>

(***************************************************************************)
(* waitForServerReady                                                      *)
(***************************************************************************)
PollAnswers(j) ==
  /\ JobAt(j, "poll")
  /\ IsServerRunning(job[j].server)
  /\ starting' = starting \ {job[j].server}
  /\ JobTo(j, "ready")
  /\ UNCHANGED <<at, backend, queued, countdown, conn, cancel, admissions>>

\* Mutant: a timed out player stays queued.
PollExpiresKeeps(j) ==
  /\ JobAt(j, "poll")
  /\ starting' = starting \ {job[j].server}
  /\ JobEnds(j)
  /\ UNCHANGED <<at, backend, queued, countdown, conn, cancel, admissions>>

\* Timed out: the player is dequeued, whatever he waits for by now.
PollExpires(j) ==
  /\ JobAt(j, "poll")
  /\ starting' = starting \ {job[j].server}
  /\ RemoveFromQueue(job[j].player)
  /\ JobEnds(j)
  /\ UNCHANGED <<at, backend, conn, cancel, admissions>>

\* Mutant: the player is dequeued before he is sent.
ReadyDequeues(j) ==
  LET p == job[j].player
      wanted == queued[p] = job[j].server
  IN
  /\ JobAt(j, "ready")
  /\ \/ ~wanted /\ JobEnds(j) /\ UNCHANGED <<queued, countdown>>
     \/ wanted /\ JobTo(j, "request") /\ RemoveFromQueue(p)
  /\ UNCHANGED <<at, backend, starting, conn, cancel, admissions>>

\* isInQueue decides whether there is still somebody to send: a direct player
\* at once, a hub player after a countdown attached to his entry. A countdown
\* the entry already has is cancelled, unless it has run out.
Ready(j) ==
  LET p == job[j].player
      wanted == queued[p] = job[j].server
  IN
  /\ JobAt(j, "ready")
  /\ \/ ~wanted /\ JobEnds(j) /\ UNCHANGED countdown
     \/ wanted /\ ~job[j].hub /\ JobTo(j, "request") /\ UNCHANGED countdown
     \/ /\ wanted /\ job[j].hub
        /\ countdown' = [countdown EXCEPT ![p] = j]
        /\ job' = [i \in Jobs |->
                     IF i = j THEN [job[i] EXCEPT !.pc = "tick"]
                     ELSE IF i = countdown[p] /\ JobAt(i, "tick") THEN NoJob
                     ELSE job[i]]
  /\ UNCHANGED <<at, backend, queued, starting, conn, cancel, admissions>>

\* The last tick hands onComplete to the executor; now nothing can stop it.
Tick(j) ==
  /\ JobAt(j, "tick")
  /\ JobTo(j, "request")
  /\ UNCHANGED <<at, backend, queued, countdown, starting, conn, cancel, admissions>>

\* createConnectionRequest(...).fireAndForget().
Teleport(j) ==
  /\ JobAt(j, "request")
  /\ ConnAt(j, "idle")
  /\ conn' = [conn EXCEPT ![j] = [pc |-> "check", player |-> job[j].player,
                                  target |-> job[j].server, hub |-> FALSE]]
  /\ JobTo(j, "dequeue")
  /\ UNCHANGED <<at, backend, queued, countdown, starting, cancel, admissions>>

Dequeue(j) ==
  /\ JobAt(j, "dequeue")
  /\ RemoveFromQueue(job[j].player)
  /\ JobEnds(j)
  /\ UNCHANGED <<at, backend, starting, conn, cancel, admissions>>

(***************************************************************************)
(* /cancel                                                                 *)
(***************************************************************************)
\* Only a queued player gets here. The target is read, the countdown of his
\* entry cancelled (unless it has run out), and his server decides whether he
\* will be disconnected.
Cancel(p) ==
  /\ Online(p)
  /\ queued[p] # None
  /\ cancel[p].pc = "idle"
  /\ cancel' = [cancel EXCEPT ![p] = [pc |-> "remove", server |-> queued[p],
                                      leave |-> at[p] = QueueServer]]
  /\ countdown' = [countdown EXCEPT ![p] = None]
  /\ job' = [j \in Jobs |-> IF j = countdown[p] /\ JobAt(j, "tick") THEN NoJob ELSE job[j]]
  /\ UNCHANGED <<at, backend, queued, starting, conn, admissions>>

\* removeFromQueue; if nobody else waits for the server (isQueueEmpty) a stop
\* is scheduled; on the queue server the player is then disconnected.
CancelRemove(p) ==
  LET s == cancel[p].server IN
  /\ cancel[p].pc = "remove"
  /\ RemoveFromQueue(p)
  /\ cancel' = [cancel EXCEPT ![p] =
                  IF \A q \in Players \ {p} : queued[q] # s
                  THEN [pc |-> "stop", server |-> s, leave |-> FALSE] ELSE NoCancel]
  /\ at' = [at EXCEPT ![p] = IF cancel[p].leave THEN None ELSE @]
  /\ UNCHANGED <<backend, starting, conn, job, admissions>>

\* stopServerByName; the request may be lost.
CancelStop(p) ==
  /\ cancel[p].pc = "stop"
  /\ StopBackend(cancel[p].server) \/ UNCHANGED <<backend, at>>
  /\ cancel' = [cancel EXCEPT ![p] = NoCancel]
  /\ UNCHANGED <<queued, countdown, starting, conn, job, admissions>>

(***************************************************************************)
(* Players and server processes, outside the plugin                        *)
(***************************************************************************)
Leave(p) ==
  /\ Online(p)
  /\ at' = [at EXCEPT ![p] = None]
  /\ UNCHANGED <<backend, queued, countdown, starting, conn, job, cancel, admissions>>

Boot(s) ==
  /\ backend[s] = "booting"
  /\ backend' = [backend EXCEPT ![s] = "up"]
  /\ UNCHANGED <<at, queued, countdown, starting, conn, job, cancel, admissions>>

\* Started by an operator, or stopped by one, by a stop timer or by a crash.
Operate(s) ==
  /\ \/ /\ backend[s] = "down"
        /\ backend' = [backend EXCEPT ![s] = "booting"]
        /\ UNCHANGED at
     \/ backend[s] # "down" /\ StopBackend(s)
  /\ UNCHANGED <<queued, countdown, starting, conn, job, cancel, admissions>>

-------------------------------------------------------------------------------
Handle(c) ==
  Check(c) \/ Enqueue(c) \/ Claim(c) \/ ClaimAdd(c) \/ Gate(c) \/ Transfer(c)

Work(j) ==
  \/ CanStart(j) \/ StartServer(j) \/ Refuse(j) \/ Release(j)
  \/ PollAnswers(j) \/ PollExpires(j) \/ Ready(j)
  \/ Tick(j) \/ Teleport(j) \/ Dequeue(j)

CancelSteps(p) == CancelRemove(p) \/ CancelStop(p)

Environment ==
  \/ \E p \in Players : Leave(p) \/ Cancel(p) \/ \E s \in Servers : Request(p, s)
  \/ \E s \in Servers : Boot(s) \/ Operate(s)

Next ==
  \/ Environment
  \/ \E c \in Attempts : Handle(c)
  \/ \E j \in Jobs : Work(j)
  \/ \E p \in Players : CancelSteps(p)

\* Threads of the plugin are scheduled; players, operators and server
\* processes owe nothing.
Fairness ==
  /\ \A c \in Attempts : WF_vars(Handle(c))
  /\ \A j \in Jobs : WF_vars(Work(j))
  /\ \A p \in Players : WF_vars(CancelSteps(p))

Spec == Init /\ [][Next]_vars
FairSpec == Spec /\ Fairness

(***************************************************************************)
(* Properties                                                              *)
(***************************************************************************)
Preparing == {"canStart", "start", "refuse"}

\* The work that will take player p out of the queue for server s.
Serves(j, p, s) ==
  /\ job[j].player = p
  /\ \/ job[j].server = s /\ job[j].pc \in Preparing \cup {"poll", "ready"}
     \/ job[j].pc \in {"tick", "request", "dequeue"}

\* Nobody is forgotten in the queue: for every queued player the handler that
\* queued him, a job or his own /cancel is under way (addToQueue is followed
\* by a task on every path, and no task ends without removeFromQueue or a
\* countdown).
QueuedHasWorker ==
  \A p \in Players : queued[p] # None =>
    \/ \E c \in Attempts : /\ conn[c].player = p
                           /\ conn[c].target = queued[p]
                           /\ conn[c].pc \in {"claim", "claimAdd"}
    \/ \E j \in Jobs : Serves(j, p, queued[p])
    \/ cancel[p].pc = "remove"

\* A server stays in startingServers only while a job that will take it out
\* works on it; otherwise later players would wait for a start nobody makes.
StartingHasWorker ==
  \A s \in starting : \E j \in Jobs :
    job[j].server = s /\ job[j].pc \in Preparing \cup {"release", "poll"}

\* The plugin forgets neither a queued player nor a server it starts: the two
\* above, with the types of the variables.
StartInv == TypeOK /\ QueuedHasWorker /\ StartingHasWorker

\* Excluded servers are not queued for, started or stopped by the plugin
\* (Config.java: "won't be started/stopped").
ExcludedUntouched ==
  /\ \A p \in Players : {queued[p], cancel[p].server} \cap Excluded = {}
  /\ \A j \in Jobs : job[j].server \notin Excluded

\* A queued player is taken out of that queue in the end.
QueueDrains == \A p \in Players, s \in Servers \ Excluded : queued[p] = s ~> queued[p] # s

\* A server is not "starting" for ever.
StartingReleased == \A s \in Servers \ Excluded : s \in starting ~> s \notin starting

\* Whatever the manager answers, every wait the plugin begins is over at last,
\* and it begins none for a server it must leave alone.
WaitsEnd == []ExcludedUntouched /\ QueueDrains /\ StartingReleased

===============================================================================
