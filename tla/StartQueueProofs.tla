--------------------------- MODULE StartQueueProofs ---------------------------
(***************************************************************************)
(* The auto-start for any players, servers and jobs: nobody is forgotten   *)
(* in the queue, no server is marked as starting without a job, excluded   *)
(* servers are left alone; and without /cancel every task acts on the      *)
(* queue entry that it was made for.                                       *)
(***************************************************************************)
EXTENDS MCStartQueue, TLAPS

\* What an attempt and a job are while they last.
ConnRecords == [pc : ConnSteps \ {"idle"}, player : Players, target : Servers, hub : BOOLEAN]
JobRecords  == [pc : JobSteps \ {"idle"}, player : Players, server : Servers, hub : BOOLEAN]

Shape ==
  /\ conn \in [Attempts -> ConnRecords \cup {NoConn}]
  /\ job \in [Jobs -> JobRecords \cup {NoJob}]

\* The other variables.
Rest ==
  /\ at \in [Players -> Servers \cup Lobby \cup {None}]
  /\ backend \in [Servers -> {"down", "booting", "up"}]
  /\ queued \in [Players -> Servers \cup {None}]
  /\ countdown \in [Players -> Jobs \cup {None}]
  /\ starting \subseteq Servers
  /\ cancel \in [Players -> [pc : {"idle", "remove", "stop"},
                             server : Servers \cup {None}, leave : BOOLEAN]]
  /\ admissions \in 0..MaxAdmissions

\* A countdown that can still be cancelled is the player's own.
CountdownOwn ==
  \A p \in Players : countdown[p] # None =>
    job[countdown[p]].player = p /\ job[countdown[p]].pc \in {"tick", "request", "dequeue"}

Claiming(c) == conn[c].pc \in {"claim", "claimAdd"}
Working(j) == job[j].pc \notin {"idle", "release"}

StartIInv == Shape /\ Rest /\ CountdownOwn /\ QueuedHasWorker /\ StartingHasWorker

-------------------------------------------------------------------------------
(***************************************************************************)
(* What the helpers do to attempts and jobs                                *)
(***************************************************************************)
OnlyConn(c) == \A d \in Attempts \ {c} : conn'[d] = conn[d]
OnlyJob(j) == \A i \in Jobs \ {j} : job'[i] = job[i]

ConnShape == conn \in [Attempts -> ConnRecords \cup {NoConn}]
JobShape == job \in [Jobs -> JobRecords \cup {NoJob}]

LEMMA Busy ==
  ASSUME Shape
  PROVE  /\ \A c \in Attempts : conn[c].pc # "idle" => conn[c] \in ConnRecords
         /\ \A c \in Attempts : conn[c].pc = "idle" => conn[c] = NoConn
         /\ \A j \in Jobs : job[j].pc # "idle" => job[j] \in JobRecords
         /\ \A j \in Jobs : job[j].pc = "idle" => job[j] = NoJob
BY DEF Shape, ConnRecords, JobRecords, NoConn, NoJob

LEMMA ConnMoves ==
  ASSUME Shape, NEW c \in Attempts, conn[c].pc # "idle", NEW step \in ConnSteps \ {"idle"},
         NEW h \in BOOLEAN,
         conn' = [conn EXCEPT ![c] = [conn[c] EXCEPT !.pc = step, !.hub = h]]
  PROVE  /\ ConnShape' /\ OnlyConn(c)
         /\ conn'[c].pc = step /\ conn'[c].player = conn[c].player
         /\ conn'[c].target = conn[c].target
<1>1. conn[c] \in ConnRecords
  BY Busy
<1>2. [conn[c] EXCEPT !.pc = step, !.hub = h] \in ConnRecords
  BY <1>1 DEF ConnRecords
<1>3. conn'[c] = [conn[c] EXCEPT !.pc = step, !.hub = h]
  BY DEF Shape
<1>4. QED
  BY <1>1, <1>2, <1>3 DEF Shape, ConnShape, OnlyConn, ConnRecords

LEMMA ConnGoes ==
  ASSUME Shape, NEW c \in Attempts, conn[c].pc # "idle", NEW step \in ConnSteps \ {"idle"},
         ConnTo(c, step)
  PROVE  /\ ConnShape' /\ OnlyConn(c)
         /\ conn'[c].pc = step /\ conn'[c].player = conn[c].player
         /\ conn'[c].target = conn[c].target
<1>1. conn[c] \in ConnRecords
  BY Busy
<1>2. [conn[c] EXCEPT !.pc = step] \in ConnRecords
  BY <1>1 DEF ConnRecords
<1>3. conn' = [conn EXCEPT ![c] = [conn[c] EXCEPT !.pc = step]]
  BY DEF ConnTo
<1>4. conn'[c] = [conn[c] EXCEPT !.pc = step]
  BY <1>3 DEF Shape
<1>5. QED
  BY <1>1, <1>2, <1>3, <1>4 DEF Shape, ConnShape, OnlyConn, ConnRecords

LEMMA ConnStops ==
  ASSUME Shape, NEW c \in Attempts, ConnEnds(c)
  PROVE  ConnShape' /\ OnlyConn(c) /\ conn'[c] = NoConn /\ conn'[c].pc = "idle"
<1>1. NoConn.pc = "idle"
  BY DEF NoConn
<1>2. QED
  BY <1>1 DEF Shape, ConnShape, OnlyConn, ConnEnds

LEMMA ConnBegins ==
  ASSUME Shape, NEW c \in Attempts, NEW p \in Players, NEW s \in Servers,
         conn' = [conn EXCEPT ![c] = [pc |-> "check", player |-> p, target |-> s, hub |-> FALSE]]
  PROVE  ConnShape' /\ OnlyConn(c) /\ conn'[c].pc = "check"
BY DEF Shape, ConnShape, OnlyConn, ConnRecords, ConnSteps

LEMMA JobGoes ==
  ASSUME Shape, NEW j \in Jobs, job[j].pc # "idle", NEW step \in JobSteps \ {"idle"}, JobTo(j, step)
  PROVE  /\ JobShape' /\ OnlyJob(j)
         /\ job'[j].pc = step /\ job'[j].player = job[j].player /\ job'[j].server = job[j].server
<1>1. job[j] \in JobRecords
  BY Busy
<1>2. [job[j] EXCEPT !.pc = step] \in JobRecords
  BY <1>1 DEF JobRecords
<1>3. job' = [job EXCEPT ![j] = [job[j] EXCEPT !.pc = step]]
  BY DEF JobTo
<1>4. job'[j] = [job[j] EXCEPT !.pc = step]
  BY <1>3 DEF Shape
<1>5. QED
  BY <1>1, <1>2, <1>3, <1>4 DEF Shape, JobShape, OnlyJob, JobRecords

LEMMA JobStops ==
  ASSUME Shape, NEW j \in Jobs, JobEnds(j)
  PROVE  JobShape' /\ OnlyJob(j) /\ job'[j] = NoJob /\ job'[j].pc = "idle"
<1>1. NoJob.pc = "idle"
  BY DEF NoJob
<1>2. QED
  BY <1>1 DEF Shape, JobShape, OnlyJob, JobEnds

\* An idle job takes over the attempt's player and server.
LEMMA Spawns ==
  ASSUME Shape, NEW c \in Attempts, conn[c].pc # "idle", NEW step \in JobSteps \ {"idle"},
         Spawn(c, step)
  PROVE  /\ JobShape'
         /\ \E j \in Jobs : /\ job[j].pc = "idle" /\ OnlyJob(j)
                            /\ job'[j].pc = step /\ job'[j].player = conn[c].player
                            /\ job'[j].server = conn[c].target
<1>1. conn[c] \in ConnRecords
  BY Busy
<1> DEFINE x == [pc |-> step, player |-> conn[c].player, server |-> conn[c].target,
                 hub |-> conn[c].hub]
<1>2. x \in JobRecords /\ x.pc = step /\ x.player = conn[c].player /\ x.server = conn[c].target
  BY <1>1 DEF ConnRecords, JobRecords
<1>3. PICK j \in JobsFor(c) : job' = [job EXCEPT ![j] = x]
  BY DEF Spawn
<1>4. j \in Jobs /\ job[j].pc = "idle"
  BY DEF JobsFor, FreeJobs, JobAt
<1> HIDE DEF x
<1>5. job'[j] = x /\ OnlyJob(j) /\ JobShape'
  BY <1>2, <1>3, <1>4 DEF Shape, JobShape, OnlyJob
<1>6. QED
  BY <1>2, <1>4, <1>5

LEMMA Dequeued ==
  ASSUME Rest, NEW p \in Players, RemoveFromQueue(p)
  PROVE  /\ queued'[p] = None /\ countdown'[p] = None
         /\ \A q \in Players \ {p} : queued'[q] = queued[q] /\ countdown'[q] = countdown[q]
         /\ queued' \in [Players -> Servers \cup {None}]
         /\ countdown' \in [Players -> Jobs \cup {None}]
BY DEF Rest, RemoveFromQueue

-------------------------------------------------------------------------------
(***************************************************************************)
(* The other variables keep their types.                                   *)
(***************************************************************************)
LEMMA RestStep ==
  ASSUME Shape, Rest, [Next]_vars
  PROVE  Rest'
<1> USE ServersAssumption
<1>0. HubServer \in Lobby /\ QueueServer \in Lobby
  BY DEF Lobby
<1>1. ASSUME NEW p \in Players, NEW v \in Servers \cup Lobby \cup {None}, at' = [at EXCEPT ![p] = v],
             UNCHANGED <<backend, starting, admissions>>
      PROVE  /\ at' \in [Players -> Servers \cup Lobby \cup {None}]
             /\ backend' \in [Servers -> {"down", "booting", "up"}]
             /\ starting' \subseteq Servers /\ admissions' \in 0..MaxAdmissions
  BY <1>1 DEF Rest
<1>2. ASSUME NEW s \in Servers, StopBackend(s)
      PROVE  /\ at' \in [Players -> Servers \cup Lobby \cup {None}]
             /\ backend' \in [Servers -> {"down", "booting", "up"}]
  BY <1>0, <1>2 DEF StopBackend, Rest
<1>3. ASSUME NEW c \in Attempts, Handle(c) PROVE Rest'
  <2>1. conn[c] \in ConnRecords
    BY <1>3, Busy DEF Handle, Check, Enqueue, Claim, ClaimAdd, Gate, Transfer, ConnAt
  <2>2. conn[c].player \in Players /\ conn[c].target \in Servers
    BY <2>1 DEF ConnRecords
  <2>3. CASE Check(c) \/ Gate(c)
    BY <2>3 DEF Check, Gate, Rest
  <2>4. CASE Enqueue(c)
    <3>1. CASE admissions < MaxAdmissions /\ admissions' = admissions + 1
               /\ queued' = [queued EXCEPT ![conn[c].player] = conn[c].target]
      BY <2>2, <2>4, <3>1 DEF Enqueue, Rest
    <3>2. CASE UNCHANGED <<queued, admissions>>
      BY <2>4, <3>2 DEF Enqueue, Rest
    <3>3. QED
      BY <2>4, <3>1, <3>2 DEF Enqueue
  <2>5. CASE Claim(c) \/ ClaimAdd(c) \/ Transfer(c)
    <3>1. at' \in [Players -> Servers \cup Lobby \cup {None}]
      BY <1>0, <2>2, <2>5 DEF Claim, ClaimAdd, Transfer, HandlerReturns, Rest
    <3>2. starting' \subseteq Servers
      BY <2>2, <2>5 DEF Claim, ClaimAdd, Transfer, Rest
    <3>3. QED
      BY <2>5, <3>1, <3>2 DEF Claim, ClaimAdd, Transfer, Rest
  <2>6. QED
    BY <1>3, <2>3, <2>4, <2>5 DEF Handle
<1>4. ASSUME NEW j \in Jobs, Work(j) PROVE Rest'
  <2>1. job[j] \in JobRecords
    BY <1>4, Busy DEF Work, CanStart, StartServer, Refuse, Release, PollAnswers, PollExpires,
       Ready, Tick, Teleport, Dequeue, JobAt
  <2>2. job[j].player \in Players /\ job[j].server \in Servers
    BY <2>1 DEF JobRecords
  <2>3. CASE CanStart(j) \/ Tick(j) \/ Teleport(j)
    BY <2>3 DEF CanStart, Tick, Teleport, Rest
  <2>4. CASE StartServer(j)
    <3>1. backend' \in [Servers -> {"down", "booting", "up"}]
      BY <2>4 DEF StartServer, Rest
    <3>2. QED
      BY <2>4, <3>1 DEF StartServer, Rest
  <2>5. CASE Refuse(j)
    <3>1. at' \in [Players -> Servers \cup Lobby \cup {None}]
      BY <2>5 DEF Refuse, Rest
    <3>2. QED
      BY <2>2, <2>5, <3>1, Dequeued DEF Refuse, Rest
  <2>6. CASE Release(j) \/ PollAnswers(j)
    BY <2>6 DEF Release, PollAnswers, Rest
  <2>7. CASE PollExpires(j) \/ Dequeue(j)
    <3>1. starting' \subseteq Servers
      BY <2>7 DEF PollExpires, Dequeue, Rest
    <3>2. QED
      BY <2>2, <2>7, <3>1, Dequeued DEF PollExpires, Dequeue, Rest
  <2>8. CASE Ready(j)
    <3>1. countdown' \in [Players -> Jobs \cup {None}]
      BY <2>8 DEF Ready, Rest
    <3>2. QED
      BY <2>8, <3>1 DEF Ready, Rest
  <2>9. QED
    BY <1>4, <2>3, <2>4, <2>5, <2>6, <2>7, <2>8 DEF Work
<1>5. ASSUME NEW p \in Players, Leave(p) \/ Cancel(p) \/ CancelSteps(p) PROVE Rest'
  <2>1. CASE Leave(p)
    BY <2>1 DEF Leave, Rest
  <2>2. CASE Cancel(p)
    <3>1. [pc |-> "remove", server |-> queued[p], leave |-> at[p] = QueueServer]
            \in [pc : {"idle", "remove", "stop"}, server : Servers \cup {None}, leave : BOOLEAN]
      BY DEF Rest
    <3>2. QED
      BY <2>2, <3>1 DEF Cancel, Rest
  <2>3. CASE CancelRemove(p)
    <3>1. cancel[p].server \in Servers \cup {None}
      BY DEF Rest
    <3>2. cancel' \in [Players -> [pc : {"idle", "remove", "stop"},
                                   server : Servers \cup {None}, leave : BOOLEAN]]
      BY <2>3, <3>1 DEF CancelRemove, NoCancel, Rest
    <3>3. at' \in [Players -> Servers \cup Lobby \cup {None}]
      BY <2>3 DEF CancelRemove, Rest
    <3>4. QED
      BY <2>3, <3>2, <3>3, Dequeued DEF CancelRemove, Rest
  <2>4. CASE CancelStop(p)
    <3>1. cancel' \in [Players -> [pc : {"idle", "remove", "stop"},
                                   server : Servers \cup {None}, leave : BOOLEAN]]
      BY <2>4 DEF CancelStop, NoCancel, Rest
    <3>2. /\ at' \in [Players -> Servers \cup Lobby \cup {None}]
          /\ backend' \in [Servers -> {"down", "booting", "up"}]
      BY <1>0, <2>4 DEF CancelStop, StopBackend, Rest
    <3>3. QED
      BY <2>4, <3>1, <3>2 DEF CancelStop, Rest
  <2>5. QED
    BY <1>5, <2>1, <2>2, <2>3, <2>4 DEF CancelSteps
<1>6. ASSUME NEW s \in Servers, Boot(s) \/ Operate(s) PROVE Rest'
  <2>1. /\ at' \in [Players -> Servers \cup Lobby \cup {None}]
        /\ backend' \in [Servers -> {"down", "booting", "up"}]
    BY <1>2, <1>6 DEF Boot, Operate, Rest
  <2>2. QED
    BY <1>6, <2>1 DEF Boot, Operate, Rest
<1>7. CASE (\E p \in Players, s \in Servers : Request(p, s)) \/ UNCHANGED vars
  BY <1>7 DEF Request, vars, Rest
<1>8. QED
  BY <1>3, <1>4, <1>5, <1>6, <1>7 DEF Next, Environment

-------------------------------------------------------------------------------
(***************************************************************************)
(* Workers                                                                 *)
(***************************************************************************)
\* The work that will take server s out of startingServers.
Releases(j, s) == job[j].server = s /\ job[j].pc \in Preparing \cup {"release", "poll"}

Keeps(c, p, s) == conn[c].player = p /\ conn[c].target = s /\ Claiming(c)

\* What has to be seen of a step, for every player who stays queued ...
LEMMA QueuedFrame ==
  ASSUME QueuedHasWorker,
         \A p \in Players : \A s : (queued'[p] = s /\ s # None) =>
           \/ \E c \in Attempts : Keeps(c, p, s)'
           \/ \E j \in Jobs : Serves(j, p, s)'
           \/ cancel'[p].pc = "remove"
           \/ /\ queued[p] = s
              /\ cancel[p].pc # "remove"
              /\ \A c \in Attempts : Keeps(c, p, s) =>
                   Keeps(c, p, s)' \/ \E j \in Jobs : Serves(j, p, s)'
              /\ \A j \in Jobs : Serves(j, p, s) => Serves(j, p, s)'
  PROVE  QueuedHasWorker'
<1> SUFFICES ASSUME NEW p \in Players, NEW s, queued'[p] = s, s # None
             PROVE  \/ \E c \in Attempts : Keeps(c, p, s)'
                    \/ \E j \in Jobs : Serves(j, p, s)'
                    \/ cancel'[p].pc = "remove"
  BY DEF QueuedHasWorker, Keeps, Claiming, Serves
<1>1. CASE /\ queued[p] = s
           /\ cancel[p].pc # "remove"
           /\ \A c \in Attempts : Keeps(c, p, s) =>
                Keeps(c, p, s)' \/ \E j \in Jobs : Serves(j, p, s)'
           /\ \A j \in Jobs : Serves(j, p, s) => Serves(j, p, s)'
  <2>1. (\E c \in Attempts : Keeps(c, p, s)) \/ (\E j \in Jobs : Serves(j, p, s))
    BY <1>1 DEF QueuedHasWorker, Keeps, Claiming
  <2>2. QED
    BY <1>1, <2>1
<1>2. QED
  BY <1>1

\* ... and for every server that stays marked as starting.
LEMMA StartingFrame ==
  ASSUME StartingHasWorker,
         \A s \in starting' :
           \/ \E j \in Jobs : Releases(j, s)'
           \/ s \in starting /\ \A j \in Jobs : Releases(j, s) => Releases(j, s)'
  PROVE  StartingHasWorker'
BY DEF StartingHasWorker, Releases

\* A job that is not touched serves and releases what it did.
LEMMA JobKept ==
  ASSUME NEW i, job'[i] = job[i]
  PROVE  /\ \A p, s : Serves(i, p, s)' = Serves(i, p, s)
         /\ \A s : Releases(i, s)' = Releases(i, s)
BY DEF Serves, Releases

LEMMA ConnKept ==
  ASSUME NEW d, conn'[d] = conn[d]
  PROVE  \A p, s : Keeps(d, p, s)' = Keeps(d, p, s)
BY DEF Keeps, Claiming

Workers == CountdownOwn /\ QueuedHasWorker /\ StartingHasWorker

\* An attempt goes on or ends without letting go of a player it has queued.
LEMMA AttemptStep ==
  ASSUME Workers, UNCHANGED <<queued, countdown, starting, job, cancel>>,
         NEW c \in Attempts, OnlyConn(c),
         Claiming(c) => /\ Claiming(c)' /\ conn'[c].player = conn[c].player
                        /\ conn'[c].target = conn[c].target
  PROVE  Workers'
<1>1. \A d \in Attempts : \A p, s : Keeps(d, p, s) => Keeps(d, p, s)'
  <2>1. \A p, s : Keeps(c, p, s) => Keeps(c, p, s)'
    BY DEF Keeps
  <2>2. QED
    BY <2>1, ConnKept DEF OnlyConn
<1>2. \A j \in Jobs : /\ \A p, s : Serves(j, p, s)' = Serves(j, p, s)
                      /\ \A s : Releases(j, s)' = Releases(j, s)
  BY JobKept
<1>3. QueuedHasWorker'
  BY <1>1, <1>2, QueuedFrame DEF Workers
<1>4. StartingHasWorker'
  BY <1>2, StartingFrame DEF Workers
<1>5. CountdownOwn'
  BY DEF Workers, CountdownOwn
<1>6. QED
  BY <1>3, <1>4, <1>5 DEF Workers

\* One job goes from one place to the next with its player and its server.
LEMMA JobStep ==
  ASSUME Workers, Rest, UNCHANGED <<queued, countdown, cancel>>,
         \A c \in Attempts : \A p, s : Keeps(c, p, s) => Keeps(c, p, s)',
         NEW j \in Jobs, OnlyJob(j),
         \A p \in Players : \A s : (queued[p] = s /\ Serves(j, p, s)) => Serves(j, p, s)',
         job[j].pc \in {"tick", "request", "dequeue"} =>
           job'[j].pc \in {"tick", "request", "dequeue"} /\ job'[j].player = job[j].player,
         \A s \in starting' : s \in starting /\ (Releases(j, s) => Releases(j, s)')
  PROVE  Workers'
<1>1. \A i \in Jobs, p \in Players : \A s :
        (queued[p] = s /\ Serves(i, p, s)) => Serves(i, p, s)'
  BY JobKept DEF OnlyJob
<1>2. \A i \in Jobs, s \in starting' : Releases(i, s) => Releases(i, s)'
  BY JobKept DEF OnlyJob
<1>3. QueuedHasWorker'
  BY <1>1, QueuedFrame DEF Workers
<1>4. StartingHasWorker'
  BY <1>2, StartingFrame DEF Workers
<1>5. CountdownOwn'
  BY DEF Workers, CountdownOwn, OnlyJob, Rest
<1>6. QED
  BY <1>3, <1>4, <1>5 DEF Workers

\* A job that takes its player out of the queue.
LEMMA JobDequeues ==
  ASSUME Workers, Rest, UNCHANGED <<cancel, conn>>,
         NEW j \in Jobs, OnlyJob(j), job[j].player \in Players, RemoveFromQueue(job[j].player),
         \A s \in starting' : s \in starting /\ (Releases(j, s) => Releases(j, s)')
  PROVE  Workers'
<1> DEFINE p == job[j].player
<1>1. /\ queued'[p] = None /\ countdown'[p] = None
      /\ \A q \in Players \ {p} : queued'[q] = queued[q] /\ countdown'[q] = countdown[q]
  BY Dequeued
<1>2. \A q \in Players \ {p} : \A s : ~Serves(j, q, s)
  BY DEF Serves
<1>3. \A i \in Jobs \ {j} : /\ \A q, s : Serves(i, q, s)' = Serves(i, q, s)
                            /\ \A s : Releases(i, s)' = Releases(i, s)
  BY JobKept DEF OnlyJob
<1>4. \A c \in Attempts : \A q, s : Keeps(c, q, s)' = Keeps(c, q, s)
  BY ConnKept
<1>5. QueuedHasWorker'
  <2>1. ASSUME NEW q \in Players, NEW s, queued'[q] = s, s # None
        PROVE  /\ queued[q] = s
               /\ cancel[q].pc = "remove" => cancel'[q].pc = "remove"
               /\ \A c \in Attempts : Keeps(c, q, s) => Keeps(c, q, s)'
               /\ \A i \in Jobs : Serves(i, q, s) => Serves(i, q, s)'
    <3>1. q # p
      BY <1>1, <2>1
    <3>2. ASSUME NEW i \in Jobs, Serves(i, q, s) PROVE Serves(i, q, s)'
      <4>1. i # j
        BY <1>2, <3>1, <3>2
      <4>2. QED
        BY <1>3, <3>2, <4>1
    <3>3. QED
      BY <1>1, <1>4, <2>1, <3>1, <3>2
  <2>2. QED
    BY <2>1, QueuedFrame DEF Workers
<1>6. StartingHasWorker'
  BY <1>3, StartingFrame DEF Workers
<1>7. CountdownOwn'
  <2>1. ASSUME NEW q \in Players, countdown'[q] # None
        PROVE  job'[countdown'[q]].player = q
               /\ job'[countdown'[q]].pc \in {"tick", "request", "dequeue"}
    <3>1. q # p /\ countdown'[q] = countdown[q]
      BY <1>1, <2>1
    <3>2. job[countdown[q]].player = q /\ job[countdown[q]].pc \in {"tick", "request", "dequeue"}
      BY <2>1, <3>1 DEF Workers, CountdownOwn
    <3>3. countdown[q] # j /\ countdown[q] \in Jobs
      BY <2>1, <3>1, <3>2 DEF Rest
    <3>4. QED
      BY <3>1, <3>2, <3>3 DEF OnlyJob
  <2>2. QED
    BY <2>1 DEF CountdownOwn
<1>8. QED
  BY <1>5, <1>6, <1>7 DEF Workers

\* The attempt that has queued a player ends and hands him to a new job.
LEMMA SpawnStep ==
  ASSUME Workers, Shape, Rest, UNCHANGED <<queued, countdown, cancel>>,
         NEW c \in Attempts, Claiming(c), NEW step \in {"canStart", "poll"}, Spawn(c, step),
         ConnEnds(c),
         starting' = starting \/ (starting' = starting \cup {conn[c].target})
  PROVE  Workers' /\ Shape'
<1>1. conn[c].pc # "idle" /\ step \in JobSteps \ {"idle"}
  BY DEF Claiming, JobSteps
<1>2. PICK j \in Jobs : /\ job[j].pc = "idle" /\ OnlyJob(j)
                        /\ job'[j].pc = step /\ job'[j].player = conn[c].player
                        /\ job'[j].server = conn[c].target
  BY <1>1, Spawns
<1>3. Shape'
  BY <1>1, Spawns, ConnStops DEF Shape, ConnShape, JobShape
<1>4. \A i \in Jobs \ {j} : /\ \A q, s : Serves(i, q, s)' = Serves(i, q, s)
                            /\ \A s : Releases(i, s)' = Releases(i, s)
  BY <1>2, JobKept DEF OnlyJob
<1>5. \A q, s : ~Serves(j, q, s) /\ ~Releases(j, s)
  BY <1>2 DEF Serves, Releases, Preparing
<1>6. \A d \in Attempts \ {c} : \A q, s : Keeps(d, q, s)' = Keeps(d, q, s)
  BY ConnStops, ConnKept DEF OnlyConn
<1>7. \A q, s : Keeps(c, q, s) => Serves(j, q, s)'
  BY <1>2 DEF Keeps, Serves, Preparing
<1>8. \A s : s = conn[c].target => Releases(j, s)'
  BY <1>2 DEF Releases, Preparing
<1>9. QueuedHasWorker'
  BY <1>4, <1>5, <1>6, <1>7, QueuedFrame DEF Workers
<1>10. StartingHasWorker'
  <2>1. \A s \in starting' : s \in starting \/ s = conn[c].target
    OBVIOUS
  <2>2. \A s : \A i \in Jobs : Releases(i, s) => Releases(i, s)'
    BY <1>4, <1>5
  <2>3. QED
    BY <1>8, <2>1, <2>2, StartingFrame DEF Workers
<1>11. CountdownOwn'
  BY <1>2 DEF Workers, CountdownOwn, OnlyJob, Rest
<1>12. QED
  BY <1>3, <1>9, <1>10, <1>11 DEF Workers

-------------------------------------------------------------------------------
(***************************************************************************)
(* Every step keeps the invariant.                                         *)
(***************************************************************************)
LEMMA ShapeParts == Shape <=> ConnShape /\ JobShape
BY DEF Shape, ConnShape, JobShape

LEMMA HandleStep ==
  ASSUME Shape, Rest, Workers, NEW c \in Attempts, Handle(c)
  PROVE  Shape' /\ Workers'
<1>1. conn[c] \in ConnRecords
  BY Busy DEF Handle, Check, Enqueue, Claim, ClaimAdd, Gate, Transfer, ConnAt
<1>2. conn[c].player \in Players /\ conn[c].target \in Servers /\ conn[c].pc # "idle"
  BY <1>1 DEF ConnRecords
<1>3. ASSUME job' = job, ConnShape' PROVE Shape'
  BY <1>3 DEF Shape, ConnShape
<1>4. CASE Check(c)
  <2>1. ~Claiming(c)
    BY <1>4 DEF Check, ConnAt, Claiming
  <2>2. ConnShape' /\ OnlyConn(c)
    <3>1. CASE ConnTo(c, "gate") \/ ConnTo(c, "transfer")
      BY <1>2, <3>1, ConnGoes DEF ConnSteps
    <3>2. CASE ConnEnds(c)
      BY <3>2, ConnStops
    <3>3. ASSUME NEW h \in BOOLEAN, conn' = [conn EXCEPT ![c].pc = "enqueue", ![c].hub = h]
          PROVE  ConnShape' /\ OnlyConn(c)
      <4>1. conn' = [conn EXCEPT ![c] = [conn[c] EXCEPT !.pc = "enqueue", !.hub = h]]
        BY <3>3 DEF Shape
      <4>2. QED
        BY <1>2, <4>1, ConnMoves DEF ConnSteps
    <3>4. (UseHubQueue /\ at[conn[c].player] = HubServer) \in BOOLEAN
      BY ServersAssumption
    <3>5. QED
      BY <1>4, <3>1, <3>2, <3>3, <3>4 DEF Check
  <2>3. QED
    BY <1>3, <1>4, <2>1, <2>2, AttemptStep DEF Check
<1>5. CASE Gate(c) \/ Transfer(c)
  <2>1. ~Claiming(c)
    BY <1>5 DEF Gate, Transfer, ConnAt, Claiming
  <2>2. ConnShape' /\ OnlyConn(c)
    <3>1. CASE ConnTo(c, "transfer")
      BY <1>2, <3>1, ConnGoes DEF ConnSteps
    <3>2. CASE ConnEnds(c)
      BY <3>2, ConnStops
    <3>3. QED
      BY <1>5, <3>1, <3>2 DEF Gate, Transfer
  <2>3. QED
    BY <1>3, <1>5, <2>1, <2>2, AttemptStep DEF Gate, Transfer
<1>6. CASE Enqueue(c)
  <2>1. ~Claiming(c)
    BY <1>6 DEF Enqueue, ConnAt, Claiming
  <2>2. CASE ConnEnds(c) /\ UNCHANGED <<queued, admissions>>
    <3>1. ConnShape' /\ OnlyConn(c)
      BY <2>2, ConnStops
    <3>2. QED
      BY <1>3, <1>6, <2>1, <2>2, <3>1, AttemptStep DEF Enqueue
  <2>3. CASE /\ queued' = [queued EXCEPT ![conn[c].player] = conn[c].target]
             /\ ConnTo(c, "claim")
    <3>1. /\ ConnShape' /\ OnlyConn(c) /\ conn'[c].pc = "claim"
          /\ conn'[c].player = conn[c].player /\ conn'[c].target = conn[c].target
      BY <1>2, <2>3, ConnGoes DEF ConnSteps
    <3>2. QueuedHasWorker'
      <4>1. ASSUME NEW p \in Players, NEW s, queued'[p] = s, s # None, p = conn[c].player
            PROVE  Keeps(c, p, s)'
        <5>1. s = conn[c].target
          BY <2>3, <4>1 DEF Rest
        <5>2. QED
          BY <3>1, <4>1, <5>1 DEF Keeps, Claiming
      <4>2. ASSUME NEW p \in Players, NEW s, queued'[p] = s, s # None, p # conn[c].player
            PROVE  queued[p] = s
        BY <2>3, <4>2 DEF Rest
      <4>3. \A d \in Attempts : \A p, s : Keeps(d, p, s) => Keeps(d, p, s)'
        BY <2>1, <3>1, ConnKept DEF OnlyConn, Keeps
      <4>4. \A j \in Jobs : \A p, s : Serves(j, p, s)' = Serves(j, p, s)
        BY <1>6, JobKept DEF Enqueue
      <4>5. cancel' = cancel
        BY <1>6 DEF Enqueue
      <4>6. QED
        BY <4>1, <4>2, <4>3, <4>4, <4>5, QueuedFrame DEF Workers
    <3>3. StartingHasWorker' /\ CountdownOwn'
      BY <1>6 DEF Enqueue, Workers, StartingHasWorker, CountdownOwn
    <3>4. QED
      BY <1>3, <1>6, <3>1, <3>2, <3>3 DEF Enqueue, Workers
  <2>4. QED
    BY <1>6, <2>2, <2>3 DEF Enqueue
<1>7. CASE Claim(c)
  <2>1. Claiming(c)
    BY <1>7 DEF Claim, ConnAt, Claiming
  <2>2. CASE Spawn(c, "poll") /\ HandlerReturns(c)
    BY <1>7, <2>1, <2>2, SpawnStep DEF Claim, HandlerReturns
  <2>3. CASE ConnTo(c, "claimAdd") /\ UNCHANGED <<at, job>>
    <3>1. /\ ConnShape' /\ OnlyConn(c) /\ conn'[c].pc = "claimAdd"
          /\ conn'[c].player = conn[c].player /\ conn'[c].target = conn[c].target
      BY <1>2, <2>3, ConnGoes DEF ConnSteps
    <3>2. Claiming(c)'
      BY <3>1 DEF Claiming
    <3>3. QED
      BY <1>3, <1>7, <2>3, <3>1, <3>2, AttemptStep DEF Claim
  <2>4. QED
    BY <1>7, <2>2, <2>3 DEF Claim
<1>8. CASE ClaimAdd(c)
  <2>1. Claiming(c)
    BY <1>8 DEF ClaimAdd, ConnAt, Claiming
  <2>2. QED
    BY <1>8, <2>1, SpawnStep DEF ClaimAdd, HandlerReturns
<1>9. QED
  BY <1>4, <1>5, <1>6, <1>7, <1>8 DEF Handle

\* The server is ready and the player still waits: his countdown begins, the
\* one he may have had is over.
LEMMA CountdownStep ==
  ASSUME Shape, Rest, Workers, NEW j \in Jobs, JobAt(j, "ready"),
         UNCHANGED <<queued, starting, conn, cancel>>,
         NEW p \in Players, p = job[j].player, NEW k, k = countdown[p],
         countdown' = [countdown EXCEPT ![p] = j],
         job' = [i \in Jobs |-> IF i = j THEN [job[i] EXCEPT !.pc = "tick"]
                                ELSE IF i = k /\ JobAt(i, "tick") THEN NoJob ELSE job[i]]
  PROVE  Shape' /\ Workers'
<1>1. job[j] \in JobRecords
  BY Busy DEF JobAt
<1>2. [job[j] EXCEPT !.pc = "tick"] \in JobRecords
  BY <1>1 DEF JobRecords, JobSteps
<1>3. job'[j] = [job[j] EXCEPT !.pc = "tick"]
  OBVIOUS
<1>4. job'[j].pc = "tick" /\ job'[j].player = p
  BY <1>1, <1>3 DEF JobRecords
<1>5. \A i \in Jobs \ {j} : job'[i] = job[i] \/ (i = k /\ job[i].pc = "tick" /\ job'[i] = NoJob)
  BY DEF JobAt
<1>6. Shape'
  BY <1>2, <1>3, <1>5 DEF Shape
<1>7. k \in Jobs => (job[k].player = p /\ job[k].pc # "ready")
  BY ServersAssumption DEF Workers, CountdownOwn
<1>8. QueuedHasWorker'
  <2>1. \A s : Serves(j, p, s)'
    BY <1>4 DEF Serves
  <2>2. ASSUME NEW q \in Players, q # p, NEW i \in Jobs, NEW s, Serves(i, q, s)
        PROVE  Serves(i, q, s)'
    <3>1. i # j /\ i # k
      BY <1>7, <2>2 DEF Serves, JobAt
    <3>2. job'[i] = job[i]
      BY <1>5, <3>1
    <3>3. QED
      BY <2>2, <3>2, JobKept
  <2>3. \A c \in Attempts : \A q, s : Keeps(c, q, s)' = Keeps(c, q, s)
    BY ConnKept
  <2>4. QED
    BY <2>1, <2>2, <2>3, QueuedFrame DEF Workers
<1>9. StartingHasWorker'
  <2>1. ASSUME NEW s, NEW i \in Jobs, Releases(i, s) PROVE Releases(i, s)'
    <3>1. i # j /\ job[i].pc # "tick"
      BY <2>1 DEF Releases, Preparing, JobAt
    <3>2. QED
      BY <1>5, <2>1, <3>1, JobKept
  <2>2. QED
    BY <2>1, StartingFrame DEF Workers
<1>10. CountdownOwn'
  <2>1. ASSUME NEW q \in Players, countdown'[q] # None
        PROVE  /\ job'[countdown'[q]].player = q
               /\ job'[countdown'[q]].pc \in {"tick", "request", "dequeue"}
    <3>1. CASE q = p
      BY <1>4, <3>1 DEF Rest
    <3>2. CASE q # p
      <4>1. countdown'[q] = countdown[q] /\ countdown[q] \in Jobs
        BY <2>1, <3>2 DEF Rest
      <4>2. job[countdown[q]].player = q /\ job[countdown[q]].pc \in {"tick", "request", "dequeue"}
        BY <2>1, <4>1 DEF Workers, CountdownOwn
      <4>3. countdown[q] # j /\ countdown[q] # k
        BY <1>7, <3>2, <4>1, <4>2 DEF JobAt
      <4>4. QED
        BY <1>5, <4>1, <4>2, <4>3
    <3>3. QED
      BY <3>1, <3>2
  <2>2. QED
    BY <2>1 DEF CountdownOwn
<1>11. QED
  BY <1>6, <1>8, <1>9, <1>10 DEF Workers

LEMMA WorkStep ==
  ASSUME Shape, Rest, Workers, NEW j \in Jobs, Work(j)
  PROVE  Shape' /\ Workers'
<1>1. job[j] \in JobRecords
  BY Busy DEF Work, CanStart, StartServer, Refuse, Release, PollAnswers, PollExpires,
     Ready, Tick, Teleport, Dequeue, JobAt
<1>2. job[j].player \in Players /\ job[j].server \in Servers /\ job[j].pc # "idle"
  BY <1>1 DEF JobRecords
<1>3. ASSUME conn' = conn
      PROVE  /\ JobShape' => Shape'
             /\ \A c \in Attempts : \A p, s : Keeps(c, p, s) => Keeps(c, p, s)'
  BY <1>3, ConnKept DEF Shape, JobShape
<1>4. CASE CanStart(j) \/ StartServer(j)
  <2>1. PICK step \in {"start", "refuse", "poll"} : JobTo(j, step)
    BY <1>4 DEF CanStart, StartServer
  <2>2. /\ JobShape' /\ OnlyJob(j) /\ job'[j].pc = step
        /\ job'[j].player = job[j].player /\ job'[j].server = job[j].server
    BY <1>2, <2>1, JobGoes DEF JobSteps
  <2>3. /\ \A p, s : Serves(j, p, s) => Serves(j, p, s)'
        /\ \A s : Releases(j, s) => Releases(j, s)'
        /\ job[j].pc \notin {"tick", "request", "dequeue"}
    BY <1>4, <2>2 DEF CanStart, StartServer, JobAt, Serves, Releases, Preparing
  <2>4. QED
    BY <1>3, <1>4, <2>2, <2>3, JobStep DEF CanStart, StartServer
<1>5. CASE Refuse(j)
  <2>1. /\ JobShape' /\ OnlyJob(j) /\ job'[j].pc = "release" /\ job'[j].server = job[j].server
    BY <1>2, <1>5, JobGoes DEF JobSteps, Refuse
  <2>2. \A s : Releases(j, s) => Releases(j, s)'
    BY <2>1 DEF Releases
  <2>3. QED
    BY <1>2, <1>3, <1>5, <2>1, <2>2, JobDequeues DEF Refuse
<1>6. CASE Release(j)
  <2>1. JobShape' /\ OnlyJob(j)
    BY <1>6, JobStops DEF Release
  <2>2. /\ \A p, s : ~Serves(j, p, s)
        /\ job[j].pc \notin {"tick", "request", "dequeue"}
        /\ \A s \in starting' : s \in starting /\ ~Releases(j, s)
    BY <1>6 DEF Release, JobAt, Serves, Releases, Preparing
  <2>3. QED
    BY <1>3, <1>6, <2>1, <2>2, JobStep DEF Release
<1>7. CASE PollAnswers(j)
  <2>1. /\ JobShape' /\ OnlyJob(j) /\ job'[j].pc = "ready"
        /\ job'[j].player = job[j].player /\ job'[j].server = job[j].server
    BY <1>2, <1>7, JobGoes DEF JobSteps, PollAnswers
  <2>2. /\ \A p, s : Serves(j, p, s) => Serves(j, p, s)'
        /\ job[j].pc \notin {"tick", "request", "dequeue"}
    BY <1>7, <2>1 DEF PollAnswers, JobAt, Serves, Preparing
  <2>3. \A s \in starting' : s \in starting /\ ~Releases(j, s)
    BY <1>7 DEF PollAnswers, Releases
  <2>4. QED
    BY <1>3, <1>7, <2>1, <2>2, <2>3, JobStep DEF PollAnswers
<1>8. CASE PollExpires(j)
  <2>1. JobShape' /\ OnlyJob(j)
    BY <1>8, JobStops DEF PollExpires
  <2>2. \A s \in starting' : s \in starting /\ ~Releases(j, s)
    BY <1>8 DEF PollExpires, Releases
  <2>3. QED
    BY <1>2, <1>3, <1>8, <2>1, <2>2, JobDequeues DEF PollExpires
<1>9. CASE Dequeue(j)
  <2>1. JobShape' /\ OnlyJob(j)
    BY <1>9, JobStops DEF Dequeue
  <2>2. \A s : ~Releases(j, s)
    BY <1>9 DEF Dequeue, JobAt, Releases, Preparing
  <2>3. QED
    BY <1>2, <1>3, <1>9, <2>1, <2>2, JobDequeues DEF Dequeue
<1>10. CASE Ready(j)
  <2>1. /\ \A s : ~Releases(j, s)
        /\ job[j].pc \notin {"tick", "request", "dequeue"}
    BY <1>10 DEF Ready, JobAt, Releases, Preparing
  <2>2. CASE queued[job[j].player] # job[j].server /\ JobEnds(j) /\ UNCHANGED countdown
    <3>1. JobShape' /\ OnlyJob(j)
      BY <2>2, JobStops
    <3>2. \A p \in Players : \A s : queued[p] = s => ~Serves(j, p, s)
      BY <2>1, <2>2 DEF Serves
    <3>3. QED
      BY <1>3, <1>10, <2>1, <2>2, <3>1, <3>2, JobStep DEF Ready
  <2>3. CASE JobTo(j, "request") /\ UNCHANGED countdown
    <3>1. /\ JobShape' /\ OnlyJob(j) /\ job'[j].pc = "request"
          /\ job'[j].player = job[j].player
      BY <1>2, <2>3, JobGoes DEF JobSteps
    <3>2. \A p, s : Serves(j, p, s) => Serves(j, p, s)'
      BY <3>1 DEF Serves
    <3>3. QED
      BY <1>3, <1>10, <2>1, <2>3, <3>1, <3>2, JobStep DEF Ready
  <2>4. ASSUME countdown' = [countdown EXCEPT ![job[j].player] = j],
               job' = [i \in Jobs |->
                        IF i = j THEN [job[i] EXCEPT !.pc = "tick"]
                        ELSE IF i = countdown[job[j].player] /\ JobAt(i, "tick") THEN NoJob
                        ELSE job[i]]
        PROVE  Shape' /\ Workers'
    <3>1. ASSUME NEW p, p = job[j].player, NEW k, k = countdown[p]
          PROVE  Shape' /\ Workers'
      <4>1. countdown' = [countdown EXCEPT ![p] = j]
        BY <2>4, <3>1
      <4>2. job' = [i \in Jobs |-> IF i = j THEN [job[i] EXCEPT !.pc = "tick"]
                                   ELSE IF i = k /\ JobAt(i, "tick") THEN NoJob ELSE job[i]]
        BY <2>4, <3>1
      <4>3. p \in Players
        BY <1>2, <3>1
      <4>4. JobAt(j, "ready") /\ UNCHANGED <<queued, starting, conn, cancel>>
        BY <1>10 DEF Ready
      <4>5. QED
        BY <3>1, <4>1, <4>2, <4>3, <4>4, CountdownStep
    <3>2. QED
      BY <3>1
  <2>5. QED
    BY <1>10, <2>2, <2>3, <2>4 DEF Ready
<1>11. CASE Tick(j)
  <2>1. /\ JobShape' /\ OnlyJob(j) /\ job'[j].pc = "request" /\ job'[j].player = job[j].player
    BY <1>2, <1>11, JobGoes DEF JobSteps, Tick
  <2>2. /\ \A p, s : Serves(j, p, s) => Serves(j, p, s)'
        /\ \A s : ~Releases(j, s)
    BY <1>11, <2>1 DEF Tick, JobAt, Serves, Releases, Preparing
  <2>3. QED
    BY <1>3, <1>11, <2>1, <2>2, JobStep DEF Tick
<1>12. CASE Teleport(j)
  <2>1. /\ JobShape' /\ OnlyJob(j) /\ job'[j].pc = "dequeue" /\ job'[j].player = job[j].player
    BY <1>2, <1>12, JobGoes DEF JobSteps, Teleport
  <2>2. /\ \A p, s : Serves(j, p, s) => Serves(j, p, s)'
        /\ \A s : ~Releases(j, s)
    BY <1>12, <2>1 DEF Teleport, JobAt, Serves, Releases, Preparing
  <2>3. j \in Attempts
    BY DEF Attempts
  <2>4. ConnShape' /\ OnlyConn(j)
    BY <1>2, <1>12, <2>3, ConnBegins DEF Teleport
  <2>5. \A c \in Attempts : \A p, s : Keeps(c, p, s) => Keeps(c, p, s)'
    <3>1. \A p, s : ~Keeps(j, p, s)
      BY <1>12 DEF Teleport, ConnAt, Keeps, Claiming
    <3>2. QED
      BY <2>4, <3>1, ConnKept DEF OnlyConn
  <2>6. QED
    BY <1>12, <2>1, <2>2, <2>4, <2>5, JobStep, ShapeParts DEF Teleport, Shape, ConnShape, JobShape
<1>13. QED
  BY <1>4, <1>5, <1>6, <1>7, <1>8, <1>9, <1>10, <1>11, <1>12 DEF Work

\* /cancel.
LEMMA CancelStep ==
  ASSUME Shape, Rest, Workers, NEW p \in Players, Cancel(p) \/ CancelSteps(p)
  PROVE  Shape' /\ Workers'
<1>1. \A c \in Attempts : \A q, s : Keeps(c, q, s)' = Keeps(c, q, s)
  BY ConnKept DEF Cancel, CancelSteps, CancelRemove, CancelStop
<1>2. ASSUME NEW k, k = countdown[p], Cancel(p) PROVE Shape' /\ Workers'
  <2>1. \A i \in Jobs : job'[i] = job[i] \/ (i = k /\ job[i].pc = "tick" /\ job'[i] = NoJob)
    BY <1>2 DEF Cancel, JobAt
  <2>2. Shape'
    BY <1>2, <2>1 DEF Shape, Cancel
  <2>3. k \in Jobs => job[k].player = p
    BY <1>2, ServersAssumption DEF Workers, CountdownOwn
  <2>4. cancel'[p].pc = "remove" /\ \A q \in Players \ {p} : cancel'[q] = cancel[q]
    BY <1>2 DEF Cancel, Rest
  <2>5. QueuedHasWorker'
    <3>1. ASSUME NEW q \in Players, q # p, NEW i \in Jobs, NEW s, Serves(i, q, s)
          PROVE  Serves(i, q, s)'
      <4>1. i # k
        BY <2>3, <3>1 DEF Serves
      <4>2. QED
        BY <2>1, <3>1, <4>1, JobKept
    <3>2. queued' = queued
      BY <1>2 DEF Cancel
    <3>3. QED
      BY <1>1, <2>4, <3>1, <3>2, QueuedFrame DEF Workers
  <2>6. StartingHasWorker'
    <3>1. ASSUME NEW s, NEW i \in Jobs, Releases(i, s) PROVE Releases(i, s)'
      <4>1. job[i].pc # "tick"
        BY <3>1 DEF Releases, Preparing
      <4>2. QED
        BY <2>1, <3>1, <4>1, JobKept
    <3>2. starting' = starting
      BY <1>2 DEF Cancel
    <3>3. QED
      BY <3>1, <3>2, StartingFrame DEF Workers
  <2>7. CountdownOwn'
    <3>1. ASSUME NEW q \in Players, countdown'[q] # None
          PROVE  /\ job'[countdown'[q]].player = q
                 /\ job'[countdown'[q]].pc \in {"tick", "request", "dequeue"}
      <4>1. q # p /\ countdown'[q] = countdown[q] /\ countdown[q] \in Jobs
        BY <1>2, <3>1 DEF Cancel, Rest
      <4>2. job[countdown[q]].player = q /\ job[countdown[q]].pc \in {"tick", "request", "dequeue"}
        BY <3>1, <4>1 DEF Workers, CountdownOwn
      <4>3. QED
        BY <2>1, <2>3, <4>1, <4>2
    <3>2. QED
      BY <3>1 DEF CountdownOwn
  <2>8. QED
    BY <2>2, <2>5, <2>6, <2>7 DEF Workers
<1>3. CASE CancelRemove(p)
  <2>1. /\ queued'[p] = None /\ countdown'[p] = None
        /\ \A q \in Players \ {p} : queued'[q] = queued[q] /\ countdown'[q] = countdown[q]
        /\ \A q \in Players \ {p} : cancel'[q] = cancel[q]
    BY <1>3, Dequeued DEF CancelRemove, Rest
  <2>2. \A i \in Jobs : \A q, s : Serves(i, q, s)' = Serves(i, q, s)
    BY <1>3, JobKept DEF CancelRemove
  <2>3. QueuedHasWorker'
    BY <1>1, <2>1, <2>2, QueuedFrame DEF Workers
  <2>4. CountdownOwn'
    BY <1>3, <2>1 DEF CancelRemove, Workers, CountdownOwn
  <2>5. QED
    BY <1>3, <2>3, <2>4 DEF CancelRemove, Shape, Workers, StartingHasWorker
<1>4. CASE CancelStop(p)
  <2>1. \A q \in Players : cancel[q].pc = "remove" => cancel'[q].pc = "remove"
    BY <1>4 DEF CancelStop, Rest
  <2>2. \A i \in Jobs : \A q, s : Serves(i, q, s)' = Serves(i, q, s)
    BY <1>4, JobKept DEF CancelStop
  <2>3. queued' = queued
    BY <1>4 DEF CancelStop
  <2>4. QueuedHasWorker'
    BY <1>1, <2>1, <2>2, <2>3, QueuedFrame DEF Workers
  <2>5. QED
    BY <1>4, <2>4 DEF CancelStop, Shape, Workers, StartingHasWorker, CountdownOwn
<1>5. QED
  BY <1>2, <1>3, <1>4 DEF CancelSteps

\* What leaves the plugin's own variables alone.
LEMMA OutsideStep ==
  ASSUME Shape, Workers, UNCHANGED <<queued, countdown, starting, conn, job, cancel>>
  PROVE  Shape' /\ Workers'
BY DEF Shape, Workers, CountdownOwn, QueuedHasWorker, Serves, StartingHasWorker

LEMMA StartIInvInit == Init => StartIInv
<1> SUFFICES ASSUME Init PROVE StartIInv
  OBVIOUS
<1> USE ServersAssumption DEF Init
<1>1. Rest
  BY DEF Rest, Lobby, NoCancel
<1>2. Shape /\ CountdownOwn /\ QueuedHasWorker /\ StartingHasWorker
  BY DEF Shape, CountdownOwn, QueuedHasWorker, StartingHasWorker
<1>3. QED
  BY <1>1, <1>2 DEF StartIInv

LEMMA StartIInvStep == StartIInv /\ [Next]_vars => StartIInv'
<1> SUFFICES ASSUME StartIInv, [Next]_vars PROVE StartIInv'
  OBVIOUS
<1>1. Shape /\ Rest /\ Workers
  BY DEF StartIInv, Workers
<1>2. Rest'
  BY <1>1, RestStep
<1>3. Shape' /\ Workers'
  <2>1. ASSUME NEW c \in Attempts, Handle(c) PROVE Shape' /\ Workers'
    BY <1>1, <2>1, HandleStep
  <2>2. ASSUME NEW j \in Jobs, Work(j) PROVE Shape' /\ Workers'
    BY <1>1, <2>2, WorkStep
  <2>3. ASSUME NEW p \in Players, Cancel(p) \/ CancelSteps(p) PROVE Shape' /\ Workers'
    BY <1>1, <2>3, CancelStep
  <2>4. ASSUME NEW p \in Players, NEW s \in Servers, Request(p, s) PROVE Shape' /\ Workers'
    <3>1. p \in Attempts
      BY DEF Attempts
    <3>2. ConnShape' /\ OnlyConn(p)
      BY <1>1, <2>4, <3>1, ConnBegins DEF Request
    <3>3. ~Claiming(p)
      BY <2>4 DEF Request, ConnAt, Claiming
    <3>4. QED
      BY <1>1, <2>4, <3>1, <3>2, <3>3, AttemptStep DEF Request, Shape, ConnShape
  <2>5. CASE (\E p \in Players : Leave(p)) \/ (\E s \in Servers : Boot(s) \/ Operate(s))
             \/ UNCHANGED vars
    BY <1>1, <2>5, OutsideStep DEF Leave, Boot, Operate, vars
  <2> QED
    BY <2>1, <2>2, <2>3, <2>4, <2>5 DEF Next, Environment
<1>4. QED
  BY <1>2, <1>3 DEF StartIInv, Workers

LEMMA StartInvariance == Spec => []StartIInv
<1>1. Init => StartIInv
  BY StartIInvInit
<1>2. StartIInv /\ [Next]_vars => StartIInv'
  BY StartIInvStep
<1>3. QED
  BY <1>1, <1>2, PTL DEF Spec

\* The plugin forgets neither a queued player nor a server that it starts: a
\* handler, a task or a /cancel that will deal with it is always under way.
THEOREM StartInvHolds == Spec => []StartInv
<1>1. Shape /\ Rest => TypeOK
  <2> SUFFICES ASSUME Shape, Rest PROVE TypeOK
    OBVIOUS
  <2> DEFINE C == [pc : ConnSteps, player : Players \cup {None},
                   target : Servers \cup {None}, hub : BOOLEAN]
             J == [pc : JobSteps, player : Players \cup {None},
                   server : Servers \cup {None}, hub : BOOLEAN]
  <2>1. ConnRecords \subseteq C /\ JobRecords \subseteq J
    BY DEF ConnRecords, JobRecords
  <2>2. NoConn \in C /\ NoJob \in J
    BY DEF NoConn, NoJob, ConnSteps, JobSteps
  <2> HIDE DEF C, J
  <2>3. conn \in [Attempts -> C] /\ job \in [Jobs -> J]
    BY <2>1, <2>2 DEF Shape
  <2>4. QED
    BY <2>3 DEF Rest, TypeOK, C, J
<1>2. StartIInv => StartInv
  BY <1>1 DEF StartIInv, StartInv
<1>3. QED
  BY <1>2, StartInvariance, PTL

-------------------------------------------------------------------------------
(***************************************************************************)
(* Excluded servers                                                        *)
(***************************************************************************)
\* What ExcludedUntouched rests on: an attempt that is about to queue its
\* player has passed the handler's test of excluded_servers.
AllowedOnly ==
  /\ ExcludedUntouched
  /\ \A c \in Attempts : conn[c].pc = "enqueue" \/ Claiming(c) => conn[c].target \notin Excluded

\* Every server that appears was there before.
LEMMA AllowedFrame ==
  ASSUME AllowedOnly, NEW s, s \notin Excluded,
         \A p \in Players : queued'[p] \in {None, s, queued[p]},
         \A p \in Players : cancel'[p].server \in {None, s, cancel[p].server},
         \A j \in Jobs : job'[j].server \in {None, s, job[j].server},
         \A c \in Attempts : conn'[c].pc = "enqueue" \/ Claiming(c)' =>
           \/ conn'[c].target \in {s}
           \/ (conn[c].pc = "enqueue" \/ Claiming(c)) /\ conn'[c].target = conn[c].target
  PROVE  AllowedOnly'
BY ServersAssumption DEF AllowedOnly, ExcludedUntouched

\* Attempts: only the one that handles an event changes.
LEMMA AllowedHandle ==
  ASSUME Shape, Rest, AllowedOnly, NEW c \in Attempts, Handle(c)
  PROVE  AllowedOnly'
<1>1. conn[c] \in ConnRecords
  BY Busy DEF Handle, Check, Enqueue, Claim, ClaimAdd, Gate, Transfer, ConnAt
<1>2. conn[c].player \in Players /\ conn[c].target \in Servers /\ conn[c].pc # "idle"
  BY <1>1 DEF ConnRecords
<1>3. ASSUME NEW s, s = conn[c].target, s \notin Excluded, OnlyConn(c),
             conn'[c].pc = "enqueue" \/ Claiming(c)' => conn'[c].target = s,
             \A p \in Players : queued'[p] \in {s, queued[p]}, cancel' = cancel,
             \A j \in Jobs : job'[j].server \in {s, job[j].server}
      PROVE  AllowedOnly'
  <2>1. \A d \in Attempts : (conn'[d].pc = "enqueue" \/ Claiming(d)') =>
          \/ conn'[d].target \in {s}
          \/ (conn[d].pc = "enqueue" \/ Claiming(d)) /\ conn'[d].target = conn[d].target
    BY <1>3 DEF OnlyConn, Claiming
  <2>2. QED
    BY <1>3, <2>1, AllowedFrame
<1>4. ASSUME OnlyConn(c), conn'[c].pc # "enqueue", ~Claiming(c)', UNCHANGED <<queued, job, cancel>>
      PROVE  AllowedOnly'
  <2>1. None \notin Excluded
    BY ServersAssumption
  <2>2. \A d \in Attempts : (conn'[d].pc = "enqueue" \/ Claiming(d)') =>
          (conn[d].pc = "enqueue" \/ Claiming(d)) /\ conn'[d].target = conn[d].target
    BY <1>4 DEF OnlyConn, Claiming
  <2>3. QED
    BY <1>4, <2>1, <2>2, AllowedFrame
<1>5. ASSUME ConnEnds(c), UNCHANGED <<queued, job, cancel>> PROVE AllowedOnly'
  BY <1>4, <1>5, ConnStops DEF Claiming
<1>6. CASE Check(c)
  <2>1. CASE ConnTo(c, "gate") \/ ConnTo(c, "transfer")
    <3>1. OnlyConn(c) /\ conn'[c].pc \in {"gate", "transfer"}
      BY <1>2, <2>1, ConnGoes DEF ConnSteps
    <3>2. QED
      BY <1>4, <1>6, <3>1 DEF Check, Claiming
  <2>2. CASE ConnEnds(c)
    BY <1>5, <1>6, <2>2 DEF Check
  <2>3. ASSUME conn[c].target \notin Excluded, NEW h \in BOOLEAN,
               conn' = [conn EXCEPT ![c].pc = "enqueue", ![c].hub = h]
        PROVE  AllowedOnly'
    <3>1. conn' = [conn EXCEPT ![c] = [conn[c] EXCEPT !.pc = "enqueue", !.hub = h]]
      BY <2>3 DEF Shape
    <3>2. OnlyConn(c) /\ conn'[c].target = conn[c].target
      BY <1>2, <3>1, ConnMoves DEF ConnSteps
    <3>3. QED
      BY <1>3, <1>6, <2>3, <3>2 DEF Check
  <2>4. (UseHubQueue /\ at[conn[c].player] = HubServer) \in BOOLEAN
    BY ServersAssumption
  <2>5. QED
    BY <1>6, <2>1, <2>2, <2>3, <2>4 DEF Check
<1>7. CASE Gate(c) \/ Transfer(c)
  <2>1. CASE ConnTo(c, "transfer")
    <3>1. OnlyConn(c) /\ conn'[c].pc = "transfer"
      BY <1>2, <2>1, ConnGoes DEF ConnSteps
    <3>2. QED
      BY <1>4, <1>7, <3>1 DEF Gate, Transfer, Claiming
  <2>2. CASE ConnEnds(c)
    BY <1>5, <1>7, <2>2 DEF Gate, Transfer
  <2>3. QED
    BY <1>7, <2>1, <2>2 DEF Gate, Transfer
<1>8. CASE Enqueue(c)
  <2>1. conn[c].target \notin Excluded
    BY <1>8 DEF Enqueue, ConnAt, AllowedOnly
  <2>2. CASE ConnEnds(c) /\ UNCHANGED <<queued, admissions>>
    BY <1>5, <1>8, <2>2 DEF Enqueue
  <2>3. CASE queued' = [queued EXCEPT ![conn[c].player] = conn[c].target] /\ ConnTo(c, "claim")
    <3>1. OnlyConn(c) /\ conn'[c].target = conn[c].target
      BY <1>2, <2>3, ConnGoes DEF ConnSteps
    <3>2. \A p \in Players : queued'[p] \in {conn[c].target, queued[p]}
      BY <2>3 DEF Rest
    <3>3. QED
      BY <1>3, <1>8, <2>1, <3>1, <3>2 DEF Enqueue
  <2>4. QED
    BY <1>8, <2>2, <2>3 DEF Enqueue
<1>9. ASSUME Claiming(c), NEW step \in {"canStart", "poll"}, Spawn(c, step), ConnEnds(c),
             UNCHANGED <<queued, cancel>>
      PROVE  AllowedOnly'
  <2>1. conn[c].target \notin Excluded
    BY <1>9 DEF AllowedOnly
  <2>2. OnlyConn(c) /\ conn'[c].pc = "idle"
    BY <1>9, ConnStops
  <2>3. step \in JobSteps \ {"idle"}
    BY DEF JobSteps
  <2>4. \A j \in Jobs : job'[j].server \in {conn[c].target, job[j].server}
    BY <1>2, <1>9, <2>3, Spawns DEF OnlyJob
  <2>5. QED
    BY <1>3, <1>9, <2>1, <2>2, <2>4 DEF Claiming
<1>10. CASE Claim(c)
  <2>1. Claiming(c)
    BY <1>10 DEF Claim, ConnAt, Claiming
  <2>2. CASE Spawn(c, "poll") /\ HandlerReturns(c)
    BY <1>9, <1>10, <2>1, <2>2 DEF Claim, HandlerReturns
  <2>3. CASE ConnTo(c, "claimAdd") /\ UNCHANGED <<at, job>>
    <3>1. OnlyConn(c) /\ conn'[c].target = conn[c].target
      BY <1>2, <2>3, ConnGoes DEF ConnSteps
    <3>2. conn[c].target \notin Excluded
      BY <2>1 DEF AllowedOnly
    <3>3. QED
      BY <1>3, <1>10, <2>3, <3>1, <3>2 DEF Claim
  <2>4. QED
    BY <1>10, <2>2, <2>3 DEF Claim
<1>11. CASE ClaimAdd(c)
  BY <1>9, <1>11 DEF ClaimAdd, HandlerReturns, ConnAt, Claiming
<1>12. QED
  BY <1>6, <1>7, <1>8, <1>10, <1>11 DEF Handle

\* Everything else works for servers that were chosen before.
LEMMA AllowedOther ==
  ASSUME Shape, Rest, AllowedOnly,
         \A p \in Players : queued'[p] \in {None, queued[p]},
         \A p \in Players : cancel'[p].server \in {None, queued[p], cancel[p].server},
         \A j \in Jobs : job'[j].server \in {None, job[j].server},
         \A c \in Attempts : conn'[c] = conn[c] \/ conn'[c].pc = "check"
  PROVE  AllowedOnly'
<1>1. \A c \in Attempts : (conn'[c].pc = "enqueue" \/ Claiming(c)') => conn'[c] = conn[c]
  BY DEF Claiming
<1>2. \A c \in Attempts : (conn'[c].pc = "enqueue" \/ Claiming(c)') => conn'[c].target \notin Excluded
  BY <1>1 DEF AllowedOnly, Claiming
<1>3. ExcludedUntouched'
  BY ServersAssumption DEF AllowedOnly, ExcludedUntouched
<1>4. QED
  BY <1>2, <1>3 DEF AllowedOnly

LEMMA AllowedStep ==
  ASSUME Shape, Rest, AllowedOnly, [Next]_vars
  PROVE  AllowedOnly'
<1>1. NoJob.server = None /\ NoCancel.server = None
  BY DEF NoJob, NoCancel
<1>2. ASSUME NEW j \in Jobs, NEW step, JobTo(j, step)
      PROVE  \A i \in Jobs : job'[i].server = job[i].server
  <2>1. job[j] \in JobRecords \cup {NoJob}
    BY DEF Shape
  <2>2. [job[j] EXCEPT !.pc = step].server = job[j].server
    BY <2>1 DEF JobRecords, NoJob
  <2>3. job' = [job EXCEPT ![j] = [job[j] EXCEPT !.pc = step]]
    BY <1>2 DEF JobTo
  <2>4. QED
    BY <2>2, <2>3 DEF Shape
<1>3. ASSUME NEW j \in Jobs, JobEnds(j)
      PROVE  \A i \in Jobs : job'[i].server \in {None, job[i].server}
  BY <1>1, <1>3, JobStops DEF OnlyJob
<1>4. ASSUME NEW p \in Players, RemoveFromQueue(p)
      PROVE  \A q \in Players : queued'[q] \in {None, queued[q]}
  BY <1>4 DEF RemoveFromQueue, Rest
<1>5. ASSUME NEW j \in Jobs, Work(j) PROVE AllowedOnly'
  <2>1. job[j] \in JobRecords
    BY <1>5, Busy DEF Work, CanStart, StartServer, Refuse, Release, PollAnswers, PollExpires,
       Ready, Tick, Teleport, Dequeue, JobAt
  <2>2. job[j].player \in Players /\ job[j].server \in Servers
    BY <2>1 DEF JobRecords
  <2>3. \A i \in Jobs : job'[i].server \in {None, job[i].server}
    <3>1. CASE \E step \in JobSteps : JobTo(j, step)
      BY <1>2, <3>1
    <3>2. CASE JobEnds(j)
      BY <1>3, <3>2
    <3>3. ASSUME job' = [i \in Jobs |->
                     IF i = j THEN [job[i] EXCEPT !.pc = "tick"]
                     ELSE IF i = countdown[job[j].player] /\ JobAt(i, "tick") THEN NoJob
                     ELSE job[i]]
          PROVE  \A i \in Jobs : job'[i].server \in {None, job[i].server}
      <4>1. [job[j] EXCEPT !.pc = "tick"].server = job[j].server
        BY <2>1 DEF JobRecords
      <4>2. QED
        BY <1>1, <3>3, <4>1
    <3>4. \/ \E step \in JobSteps : JobTo(j, step)
          \/ JobEnds(j)
          \/ job' = [i \in Jobs |->
                     IF i = j THEN [job[i] EXCEPT !.pc = "tick"]
                     ELSE IF i = countdown[job[j].player] /\ JobAt(i, "tick") THEN NoJob
                     ELSE job[i]]
      BY <1>5 DEF Work, CanStart, StartServer, Refuse, Release, PollAnswers, PollExpires,
         Ready, Tick, Teleport, Dequeue, JobSteps
    <3>5. QED
      BY <3>1, <3>2, <3>3, <3>4
  <2>4. \A p \in Players : queued'[p] \in {None, queued[p]}
    BY <1>4, <1>5, <2>2 DEF Work, CanStart, StartServer, Refuse, Release, PollAnswers,
       PollExpires, Ready, Tick, Teleport, Dequeue
  <2>5. \A c \in Attempts : conn'[c] = conn[c] \/ conn'[c].pc = "check"
    <3>1. CASE Teleport(j)
      BY <2>2, <3>1, ConnBegins DEF Teleport, OnlyConn, Attempts
    <3>2. CASE ~Teleport(j)
      BY <1>5, <3>2 DEF Work, CanStart, StartServer, Refuse, Release, PollAnswers,
         PollExpires, Ready, Tick, Dequeue
    <3>3. QED
      BY <3>1, <3>2
  <2>6. cancel' = cancel
    BY <1>5 DEF Work, CanStart, StartServer, Refuse, Release, PollAnswers, PollExpires,
       Ready, Tick, Teleport, Dequeue
  <2>7. QED
    BY <2>3, <2>4, <2>5, <2>6, AllowedOther
<1>6. ASSUME NEW p \in Players, Cancel(p) \/ CancelSteps(p) PROVE AllowedOnly'
  <2>1. \A q \in Players : queued'[q] \in {None, queued[q]}
    BY <1>4, <1>6 DEF Cancel, CancelSteps, CancelRemove, CancelStop
  <2>2. \A q \in Players : cancel'[q].server \in {None, queued[q], cancel[q].server}
    <3>1. CASE Cancel(p)
      BY <3>1 DEF Cancel, Rest
    <3>2. CASE CancelRemove(p)
      BY <1>1, <3>2 DEF CancelRemove, Rest
    <3>3. CASE CancelStop(p)
      BY <1>1, <3>3 DEF CancelStop, Rest
    <3>4. QED
      BY <1>6, <3>1, <3>2, <3>3 DEF CancelSteps
  <2>3. \A j \in Jobs : job'[j].server \in {None, job[j].server}
    BY <1>1, <1>6 DEF Cancel, CancelSteps, CancelRemove, CancelStop
  <2>4. conn' = conn
    BY <1>6 DEF Cancel, CancelSteps, CancelRemove, CancelStop
  <2>5. QED
    BY <2>1, <2>2, <2>3, <2>4, AllowedOther
<1>7. ASSUME NEW p \in Players, NEW s \in Servers, Request(p, s) PROVE AllowedOnly'
  <2>1. \A c \in Attempts : conn'[c] = conn[c] \/ conn'[c].pc = "check"
    BY <1>7, ConnBegins DEF Request, OnlyConn, Attempts
  <2>2. QED
    BY <1>7, <2>1, AllowedOther DEF Request
<1>8. CASE (\E p \in Players : Leave(p)) \/ (\E s \in Servers : Boot(s) \/ Operate(s))
           \/ UNCHANGED vars
  BY <1>8, AllowedOther DEF Leave, Boot, Operate, vars
<1>9. QED
  BY <1>5, <1>6, <1>7, <1>8, AllowedHandle DEF Next, Environment

\* Excluded servers are never queued for, started or stopped, although the list
\* is read once, long before the plugin acts.
THEOREM ExcludedUntouchedHolds == Spec => []ExcludedUntouched
<1>1. Init => AllowedOnly
  BY ServersAssumption DEF Init, AllowedOnly, ExcludedUntouched, Claiming, NoConn, NoJob, NoCancel
<1>2. StartIInv /\ AllowedOnly /\ [Next]_vars => AllowedOnly'
  BY AllowedStep DEF StartIInv
<1>3. AllowedOnly => ExcludedUntouched
  BY DEF AllowedOnly
<1>4. QED
  BY <1>1, <1>2, <1>3, StartInvariance, PTL DEF Spec

-------------------------------------------------------------------------------
(***************************************************************************)
(* Without /cancel                                                         *)
(***************************************************************************)
\* Whoever works for a player works for the entry that he has in the queue,
\* and nobody else does.
OneWorker ==
  /\ \A p \in Players : cancel[p].pc = "idle"
  /\ \A c \in Attempts : Claiming(c) =>
       /\ queued[conn[c].player] = conn[c].target
       /\ \A d \in Attempts : Claiming(d) /\ conn[d].player = conn[c].player => d = c
       /\ \A j \in Jobs : Working(j) => job[j].player # conn[c].player
  /\ \A j \in Jobs : Working(j) =>
       /\ queued[job[j].player] = job[j].server
       /\ \A i \in Jobs : Working(i) /\ job[i].player = job[j].player => i = j

\* Who works goes on for the same entry, or stops.
LEMMA OneWorkerFrame ==
  ASSUME OneWorker, cancel' = cancel,
         \A c \in Attempts : Claiming(c)' =>
           /\ Claiming(c) /\ conn'[c].player = conn[c].player /\ conn'[c].target = conn[c].target
           /\ \A p : p = conn[c].player => queued'[p] = queued[p],
         \A j \in Jobs : Working(j)' =>
           /\ Working(j) /\ job'[j].player = job[j].player /\ job'[j].server = job[j].server
           /\ \A p : p = job[j].player => queued'[p] = queued[p]
  PROVE  OneWorker'
BY DEF OneWorker

\* An attempt that queues nobody.
LEMMA OneWorkerAttempt ==
  ASSUME OneWorker, UNCHANGED <<queued, job, cancel>>, NEW c \in Attempts, OnlyConn(c),
         Claiming(c)' => /\ Claiming(c) /\ conn'[c].player = conn[c].player
                         /\ conn'[c].target = conn[c].target
  PROVE  OneWorker'
<1>1. \A j \in Jobs : Working(j)' => Working(j)
  BY DEF Working
<1>2. \A d \in Attempts \ {c} : Claiming(d)' => Claiming(d) /\ conn'[d] = conn[d]
  BY DEF OnlyConn, Claiming
<1>3. QED
  BY <1>1, <1>2, OneWorkerFrame

\* A job that keeps its player queued.
LEMMA OneWorkerJob ==
  ASSUME OneWorker, UNCHANGED <<queued, cancel>>,
         \A c \in Attempts : Claiming(c)' => conn'[c] = conn[c],
         NEW j \in Jobs, OnlyJob(j),
         Working(j)' => /\ Working(j) /\ job'[j].player = job[j].player
                        /\ job'[j].server = job[j].server
  PROVE  OneWorker'
<1>1. \A i \in Jobs \ {j} : Working(i)' => Working(i) /\ job'[i] = job[i]
  BY DEF OnlyJob, Working
<1>2. \A c \in Attempts : Claiming(c)' => Claiming(c) /\ conn'[c] = conn[c]
  BY DEF Claiming
<1>3. QED
  BY <1>1, <1>2, OneWorkerFrame

\* A job that takes its player out of the queue works no more.
LEMMA OneWorkerDequeues ==
  ASSUME OneWorker, Rest, UNCHANGED <<cancel, conn>>, NEW j \in Jobs, Working(j), OnlyJob(j),
         ~Working(j)', NEW p \in Players, p = job[j].player, RemoveFromQueue(p)
  PROVE  OneWorker'
<1>1. \A q : q # p => queued'[q] = queued[q]
  BY DEF RemoveFromQueue, Rest
<1>2. ASSUME NEW c \in Attempts, Claiming(c)'
      PROVE  Claiming(c) /\ conn[c].player # p /\ conn'[c] = conn[c]
  BY <1>2 DEF Claiming, OneWorker
<1>3. ASSUME NEW i \in Jobs, Working(i)'
      PROVE  Working(i) /\ job[i].player # p /\ job'[i] = job[i]
  <2>1. i # j /\ job'[i] = job[i]
    BY <1>3 DEF OnlyJob
  <2>2. Working(i)
    BY <1>3, <2>1 DEF Working
  <2>3. QED
    BY <2>1, <2>2 DEF OneWorker
<1>4. QED
  BY <1>1, <1>2, <1>3, OneWorkerFrame

\* The attempt that has queued a player hands him to a job and ends.
LEMMA OneWorkerSpawn ==
  ASSUME OneWorker, Shape, UNCHANGED <<queued, cancel>>,
         NEW c \in Attempts, Claiming(c), NEW step \in {"canStart", "poll"}, Spawn(c, step),
         ConnEnds(c)
  PROVE  OneWorker'
<1>1. conn[c].pc # "idle" /\ step \in JobSteps \ {"idle"}
  BY DEF Claiming, JobSteps
<1>2. PICK j \in Jobs : /\ job[j].pc = "idle" /\ OnlyJob(j)
                        /\ job'[j].pc = step /\ job'[j].player = conn[c].player
                        /\ job'[j].server = conn[c].target
  BY <1>1, Spawns
<1>3. \A d \in Attempts : Claiming(d)' => d # c /\ Claiming(d) /\ conn'[d] = conn[d]
  BY ConnStops DEF Claiming, OnlyConn
<1>4. \A i \in Jobs : (Working(i)' /\ i # j) => Working(i) /\ job'[i] = job[i]
  BY <1>2 DEF Working, OnlyJob
<1>5. \A i \in Jobs : (Working(i)' /\ i # j) => job[i].player # conn[c].player
  BY <1>4 DEF OneWorker
<1>6. \A d \in Attempts : Claiming(d)' => conn[d].player # conn[c].player
  BY <1>3 DEF OneWorker
<1>7. ASSUME NEW d \in Attempts, Claiming(d)'
      PROVE  /\ queued'[conn'[d].player] = conn'[d].target
             /\ \A e \in Attempts : Claiming(e)' /\ conn'[e].player = conn'[d].player => e = d
             /\ \A i \in Jobs : Working(i)' => job'[i].player # conn'[d].player
  <2>1. Claiming(d) /\ conn'[d] = conn[d]
    BY <1>3, <1>7
  <2>2. queued'[conn'[d].player] = conn'[d].target
    BY <2>1 DEF OneWorker
  <2>3. ASSUME NEW e \in Attempts, Claiming(e)', conn'[e].player = conn'[d].player PROVE e = d
    BY <1>3, <2>1, <2>3 DEF OneWorker
  <2>4. ASSUME NEW i \in Jobs, Working(i)' PROVE job'[i].player # conn'[d].player
    <3>1. CASE i = j
      BY <1>2, <1>6, <1>7, <2>1, <3>1
    <3>2. CASE i # j
      BY <1>4, <2>1, <2>4, <3>2 DEF OneWorker
    <3>3. QED
      BY <3>1, <3>2
  <2>5. QED
    BY <2>2, <2>3, <2>4
<1>8. ASSUME NEW i \in Jobs, Working(i)'
      PROVE  /\ queued'[job'[i].player] = job'[i].server
             /\ \A k \in Jobs : Working(k)' /\ job'[k].player = job'[i].player => k = i
  <2>1. queued'[job'[i].player] = job'[i].server
    <3>1. CASE i = j
      BY <1>2, <3>1 DEF OneWorker
    <3>2. CASE i # j
      BY <1>4, <1>8, <3>2 DEF OneWorker
    <3>3. QED
      BY <3>1, <3>2
  <2>2. ASSUME NEW k \in Jobs, Working(k)', job'[k].player = job'[i].player PROVE k = i
    <3>1. CASE i = j \/ k = j
      BY <1>2, <1>4, <1>5, <1>8, <2>2, <3>1
    <3>2. CASE i # j /\ k # j
      BY <1>4, <1>8, <2>2, <3>2 DEF OneWorker
    <3>3. QED
      BY <3>1, <3>2
  <2>3. QED
    BY <2>1, <2>2
<1>9. \A p \in Players : cancel'[p].pc = "idle"
  BY DEF OneWorker
<1>10. QED
  BY <1>7, <1>8, <1>9 DEF OneWorker

\* A player who waits for nothing is queued: nobody works for him yet.
LEMMA OneWorkerEnqueue ==
  ASSUME OneWorker, Shape, Rest, UNCHANGED <<job, cancel>>, NEW c \in Attempts,
         NEW p \in Players, NEW s \in Servers, p = conn[c].player, s = conn[c].target,
         queued[p] = None, queued' = [queued EXCEPT ![p] = s],
         OnlyConn(c), conn'[c].player = p, conn'[c].target = s, ~Claiming(c)
  PROVE  OneWorker'
<1>1. \A q : q # p => queued'[q] = queued[q]
  BY DEF Rest
<1>2. queued'[p] = s
  BY DEF Rest
<1>3. ASSUME NEW d \in Attempts, Claiming(d)', d # c
      PROVE  Claiming(d) /\ conn'[d] = conn[d] /\ conn[d].player # p
  <2>1. Claiming(d) /\ conn'[d] = conn[d]
    BY <1>3 DEF OnlyConn, Claiming
  <2>2. conn[d] \in ConnRecords
    BY <2>1, Busy DEF Claiming
  <2>3. conn[d].target # None
    BY <2>2, ServersAssumption DEF ConnRecords
  <2>4. QED
    BY <2>1, <2>3 DEF OneWorker
<1>4. ASSUME NEW i \in Jobs, Working(i)' PROVE Working(i) /\ job[i].player # p
  <2>1. Working(i)
    BY <1>4 DEF Working
  <2>2. job[i] \in JobRecords
    BY <2>1, Busy DEF Working
  <2>3. job[i].server # None
    BY <2>2, ServersAssumption DEF JobRecords
  <2>4. QED
    BY <2>1, <2>3 DEF OneWorker
<1>5. ASSUME NEW d \in Attempts, Claiming(d)'
      PROVE  /\ queued'[conn'[d].player] = conn'[d].target
             /\ \A e \in Attempts : Claiming(e)' /\ conn'[e].player = conn'[d].player => e = d
             /\ \A i \in Jobs : Working(i)' => job'[i].player # conn'[d].player
  <2>1. CASE d = c
    BY <1>2, <1>3, <1>4, <2>1
  <2>2. CASE d # c
    <3>1. Claiming(d) /\ conn'[d] = conn[d] /\ conn[d].player # p
      BY <1>3, <1>5, <2>2
    <3>2. queued'[conn'[d].player] = conn'[d].target
      BY <1>1, <3>1 DEF OneWorker
    <3>3. ASSUME NEW e \in Attempts, Claiming(e)', conn'[e].player = conn'[d].player PROVE e = d
      <4>1. e # c
        BY <3>1, <3>3
      <4>2. QED
        BY <1>3, <3>1, <3>3, <4>1 DEF OneWorker
    <3>4. \A i \in Jobs : Working(i)' => job'[i].player # conn'[d].player
      BY <1>4, <3>1 DEF OneWorker
    <3>5. QED
      BY <3>2, <3>3, <3>4
  <2>3. QED
    BY <2>1, <2>2
<1>6. ASSUME NEW i \in Jobs, Working(i)'
      PROVE  /\ queued'[job'[i].player] = job'[i].server
             /\ \A k \in Jobs : Working(k)' /\ job'[k].player = job'[i].player => k = i
  BY <1>1, <1>4, <1>6 DEF OneWorker
<1>7. \A q \in Players : cancel'[q].pc = "idle"
  BY DEF OneWorker
<1>8. QED
  BY <1>5, <1>6, <1>7 DEF OneWorker

LEMMA OneWorkerHandle ==
  ASSUME Shape, Rest, OneWorker, NEW c \in Attempts, Handle(c)
  PROVE  OneWorker'
<1>1. conn[c] \in ConnRecords
  BY Busy DEF Handle, Check, Enqueue, Claim, ClaimAdd, Gate, Transfer, ConnAt
<1>2. conn[c].player \in Players /\ conn[c].target \in Servers /\ conn[c].pc # "idle"
  BY <1>1 DEF ConnRecords
<1>3. ASSUME ConnEnds(c), UNCHANGED <<queued, job, cancel>> PROVE OneWorker'
  BY <1>3, ConnStops, OneWorkerAttempt DEF Claiming
<1>4. ASSUME NEW step \in {"gate", "transfer"}, ConnTo(c, step), UNCHANGED <<queued, job, cancel>>
      PROVE  OneWorker'
  <2>1. OnlyConn(c) /\ conn'[c].pc = step
    BY <1>2, <1>4, ConnGoes DEF ConnSteps
  <2>2. QED
    BY <1>4, <2>1, OneWorkerAttempt DEF Claiming
<1>5. CASE Check(c)
  <2>1. CASE ConnTo(c, "gate") \/ ConnTo(c, "transfer") \/ ConnEnds(c)
    BY <1>3, <1>4, <1>5, <2>1 DEF Check
  <2>2. ASSUME NEW h \in BOOLEAN, conn' = [conn EXCEPT ![c].pc = "enqueue", ![c].hub = h]
        PROVE  OneWorker'
    <3>1. conn' = [conn EXCEPT ![c] = [conn[c] EXCEPT !.pc = "enqueue", !.hub = h]]
      BY <2>2 DEF Shape
    <3>2. OnlyConn(c) /\ conn'[c].pc = "enqueue"
      BY <1>2, <3>1, ConnMoves DEF ConnSteps
    <3>3. QED
      BY <1>5, <3>2, OneWorkerAttempt DEF Check, Claiming
  <2>3. (UseHubQueue /\ at[conn[c].player] = HubServer) \in BOOLEAN
    BY ServersAssumption
  <2>4. QED
    BY <1>5, <2>1, <2>2, <2>3 DEF Check
<1>6. CASE Gate(c) \/ Transfer(c)
  BY <1>3, <1>4, <1>6 DEF Gate, Transfer
<1>7. CASE Enqueue(c)
  <2>1. CASE ConnEnds(c) /\ UNCHANGED <<queued, admissions>>
    BY <1>3, <1>7, <2>1 DEF Enqueue
  <2>2. CASE /\ queued[conn[c].player] = None
             /\ queued' = [queued EXCEPT ![conn[c].player] = conn[c].target]
             /\ ConnTo(c, "claim")
    <3>1. /\ OnlyConn(c)
          /\ conn'[c].player = conn[c].player /\ conn'[c].target = conn[c].target
      BY <1>2, <2>2, ConnGoes DEF ConnSteps
    <3>2. ~Claiming(c)
      BY <1>7 DEF Enqueue, ConnAt, Claiming
    <3>3. ASSUME NEW p, p = conn[c].player, NEW s, s = conn[c].target PROVE OneWorker'
      BY <1>2, <1>7, <2>2, <3>1, <3>2, <3>3, OneWorkerEnqueue DEF Enqueue
    <3>4. QED
      BY <3>3
  <2>3. QED
    BY <1>7, <2>1, <2>2 DEF Enqueue
<1>8. CASE Claim(c)
  <2>1. Claiming(c)
    BY <1>8 DEF Claim, ConnAt, Claiming
  <2>2. CASE Spawn(c, "poll") /\ HandlerReturns(c)
    BY <1>8, <2>1, <2>2, OneWorkerSpawn DEF Claim, HandlerReturns
  <2>3. CASE ConnTo(c, "claimAdd") /\ UNCHANGED <<at, job>>
    <3>1. /\ OnlyConn(c)
          /\ conn'[c].player = conn[c].player /\ conn'[c].target = conn[c].target
      BY <1>2, <2>3, ConnGoes DEF ConnSteps
    <3>2. QED
      BY <1>8, <2>1, <2>3, <3>1, OneWorkerAttempt DEF Claim
  <2>4. QED
    BY <1>8, <2>2, <2>3 DEF Claim
<1>9. CASE ClaimAdd(c)
  BY <1>9, OneWorkerSpawn DEF ClaimAdd, HandlerReturns, ConnAt, Claiming
<1>10. QED
  BY <1>5, <1>6, <1>7, <1>8, <1>9 DEF Handle

LEMMA OneWorkerWork ==
  ASSUME Shape, Rest, Workers, OneWorker, NEW j \in Jobs, Work(j)
  PROVE  OneWorker'
<1>1. job[j] \in JobRecords
  BY Busy DEF Work, CanStart, StartServer, Refuse, Release, PollAnswers, PollExpires,
     Ready, Tick, Teleport, Dequeue, JobAt
<1>2. job[j].player \in Players /\ job[j].server \in Servers /\ job[j].pc # "idle"
  BY <1>1 DEF JobRecords
<1>3. ASSUME JobEnds(j), UNCHANGED <<queued, conn, cancel>> PROVE OneWorker'
  BY <1>3, JobStops, OneWorkerJob DEF Working
<1>4. ASSUME NEW step \in JobSteps \ {"idle"}, JobTo(j, step), Working(j), UNCHANGED <<queued, cancel>>,
             \A c \in Attempts : Claiming(c)' => conn'[c] = conn[c]
      PROVE  OneWorker'
  <2>1. OnlyJob(j) /\ job'[j].player = job[j].player /\ job'[j].server = job[j].server
    BY <1>2, <1>4, JobGoes
  <2>2. QED
    BY <1>4, <2>1, OneWorkerJob
<1>5. ASSUME RemoveFromQueue(job[j].player), Working(j), OnlyJob(j), ~Working(j)',
             UNCHANGED <<cancel, conn>>
      PROVE  OneWorker'
  <2>1. ASSUME NEW p, p = job[j].player PROVE OneWorker'
    BY <1>2, <1>5, <2>1, OneWorkerDequeues
  <2>2. QED
    BY <2>1
<1>6. CASE CanStart(j) \/ StartServer(j)
  BY <1>4, <1>6 DEF CanStart, StartServer, JobAt, Working, JobSteps
<1>7. CASE Release(j)
  BY <1>3, <1>7 DEF Release
<1>8. CASE PollAnswers(j) \/ Tick(j)
  BY <1>4, <1>8 DEF PollAnswers, Tick, JobAt, Working, JobSteps
<1>9. CASE Refuse(j)
  <2>1. OnlyJob(j) /\ job'[j].pc = "release"
    BY <1>2, <1>9, JobGoes DEF Refuse, JobSteps
  <2>2. QED
    BY <1>5, <1>9, <2>1 DEF Refuse, JobAt, Working
<1>10. CASE PollExpires(j) \/ Dequeue(j)
  <2>1. OnlyJob(j) /\ job'[j].pc = "idle"
    BY <1>10, JobStops DEF PollExpires, Dequeue
  <2>2. QED
    BY <1>5, <1>10, <2>1 DEF PollExpires, Dequeue, JobAt, Working
<1>11. CASE Teleport(j)
  <2>1. \A c \in Attempts : Claiming(c)' => conn'[c] = conn[c]
    BY <1>2, <1>11, ConnBegins DEF Teleport, OnlyConn, Attempts, Claiming
  <2>2. QED
    BY <1>4, <1>11, <2>1 DEF Teleport, JobAt, Working, JobSteps
<1>12. CASE Ready(j)
  <2>1. CASE JobEnds(j)
    BY <1>3, <1>12, <2>1 DEF Ready
  <2>2. CASE JobTo(j, "request")
    BY <1>4, <1>12, <2>2 DEF Ready, JobAt, Working, JobSteps
  <2>3. ASSUME job' = [i \in Jobs |->
                        IF i = j THEN [job[i] EXCEPT !.pc = "tick"]
                        ELSE IF i = countdown[job[j].player] /\ JobAt(i, "tick") THEN NoJob
                        ELSE job[i]]
        PROVE  OneWorker'
    <3>1. job'[j].player = job[j].player /\ job'[j].server = job[j].server
      BY <1>1, <2>3 DEF JobRecords
    <3>2. \A i \in Jobs \ {j} : job'[i] \in {NoJob, job[i]}
      BY <2>3
    <3>3. Working(j)
      BY <1>12 DEF Ready, JobAt, Working
    <3>4. ASSUME NEW i \in Jobs, Working(i)'
          PROVE  Working(i) /\ job'[i].player = job[i].player /\ job'[i].server = job[i].server
      <4>1. CASE i = j
        BY <3>1, <3>3, <4>1
      <4>2. CASE i # j
        BY <3>2, <3>4, <4>2 DEF Working, NoJob
      <4>3. QED
        BY <4>1, <4>2
    <3>5. \A c \in Attempts : Claiming(c)' => Claiming(c) /\ conn'[c] = conn[c]
      BY <1>12 DEF Ready, Claiming
    <3>6. queued' = queued /\ cancel' = cancel
      BY <1>12 DEF Ready
    <3>7. QED
      BY <3>4, <3>5, <3>6, OneWorkerFrame
  <2>4. QED
    BY <1>12, <2>1, <2>2, <2>3 DEF Ready
<1>13. QED
  BY <1>6, <1>7, <1>8, <1>9, <1>10, <1>11, <1>12 DEF Work

LEMMA OneWorkerStep ==
  ASSUME StartIInv, OneWorker, [Next]_vars, cancel' = cancel
  PROVE  OneWorker'
<1>1. Shape /\ Rest /\ Workers
  BY DEF StartIInv, Workers
<1>2. \A p \in Players : ~Cancel(p) /\ ~CancelSteps(p)
  <2> SUFFICES ASSUME NEW p \in Players PROVE ~Cancel(p) /\ ~CancelSteps(p)
    OBVIOUS
  <2>1. cancel[p].pc = "idle"
    BY DEF OneWorker
  <2>2. ~CancelSteps(p)
    BY <2>1 DEF CancelSteps, CancelRemove, CancelStop
  <2>3. Cancel(p) => cancel'[p].pc = "remove"
    BY <1>1 DEF Cancel, Rest
  <2>4. QED
    BY <2>1, <2>2, <2>3
<1>3. ASSUME NEW p \in Players, NEW s \in Servers, Request(p, s) PROVE OneWorker'
  <2>1. p \in Attempts
    BY DEF Attempts
  <2>2. OnlyConn(p) /\ conn'[p].pc = "check"
    BY <1>1, <1>3, <2>1, ConnBegins DEF Request
  <2>3. QED
    BY <1>3, <2>1, <2>2, OneWorkerAttempt DEF Request, Claiming
<1>4. CASE (\E p \in Players : Leave(p)) \/ (\E s \in Servers : Boot(s) \/ Operate(s))
           \/ UNCHANGED vars
  BY <1>4 DEF Leave, Boot, Operate, vars, OneWorker, Working, Claiming
<1>5. QED
  BY <1>1, <1>2, <1>3, <1>4, OneWorkerHandle, OneWorkerWork DEF Next, Environment

\* Without /cancel no task acts on a queue entry other than the one it was made
\* for, though each reads the queue long before it acts: the tests of
\* waitForServerReady and of the countdown are enough.
THEOREM PatientExactHolds == MCSpec => PatientExact
<1> DEFINE Patiently == patient => OneWorker
<1>1. MCInit => Init /\ Patiently
  BY DEF MCInit, Init, OneWorker, Claiming, Working, NoConn, NoJob, NoCancel
<1>2. [MCNext]_MCVars => [Next]_vars /\ (patient => cancel' = cancel) /\ patient' = patient
  BY DEF MCNext, MCVars, vars
<1>3. StartIInv /\ Patiently /\ [MCNext]_MCVars => Patiently'
  BY <1>2, OneWorkerStep
<1>4. ASSUME StartIInv, OneWorker, NEW j \in Jobs, Working(j)
      PROVE  queued[job[j].player] = job[j].server /\ job[j].player \in Players
  BY <1>4, Busy DEF OneWorker, StartIInv, Working, JobRecords
<1>5. StartIInv /\ Patiently /\ [MCNext]_MCVars =>
        /\ [patient => \A j \in Jobs :
             (job[j].pc = "request" /\ job'[j].pc = "dequeue")
               => queued[job[j].player] = job[j].server]_MCVars
        /\ [patient => \A j \in Jobs :
             (job[j].pc = "poll" /\ job'[j].pc = "idle")
               => queued[job[j].player] \in {None, job[j].server}]_MCVars
        /\ [patient => \A j \in Jobs :
             (job[j].pc = "start" /\ job'[j].pc # "start")
               => \E p \in Players : queued[p] = job[j].server]_MCVars
  BY <1>4 DEF Working
<1>6. MCSpec => Spec
  BY <1>1, <1>2, PTL DEF MCSpec, Spec
<1>7. MCSpec => []Patiently
  BY <1>1, <1>3, <1>6, StartInvariance, PTL DEF MCSpec
<1>8. QED
  BY <1>5, <1>6, <1>7, StartInvariance, PTL
     DEF MCSpec, PatientExact, PatientTeleports, PatientExpires, PatientStarts

===============================================================================
