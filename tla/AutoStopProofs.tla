---------------------------- MODULE AutoStopProofs ----------------------------
(***************************************************************************)
(* StopInv and NeverStopped for any number of players, servers and tasks,  *)
(* with handlers, tasks and the eviction interleaved at will;              *)
(* SerialReports and SerialStopsIdleOnly for one event at a time.          *)
(***************************************************************************)
EXTENDS MCAutoStop, TLAPS

Protected == Excluded \cup {LoginServer}
ConnSteps == HandlerSteps \cup {"idle", "handshake", "track", "cancelTimer", "land"}

\* A handler that works on a server has one, and what it cancels and arms belongs
\* to that server. MaySchedule stands between a protected server and the arming.
GoodConns ==
  {c \in [pc : ConnSteps, target : Servers \cup {None}, prev : Servers \cup {None}] :
     /\ c.pc \in HandlerSteps => c.prev \in Servers
     /\ c.pc # "idle" => c.target \in Servers
     /\ c.pc \in {"cancelOld", "arm"} => c.prev \notin Protected}

GoodDiscs ==
  {d \in [pc : HandlerSteps \cup {"idle"}, server : Servers \cup {None}] :
     /\ d.pc \in HandlerSteps \ {"leave"} => d.server \in Servers
     /\ d.pc \in {"cancelOld", "arm"} => d.server \notin Protected}

GoodTasks ==
  {t \in [pc : {"free", "armed", "stop", "forget"}, server : Servers \cup {None}] :
     t.pc # "free" => t.server \notin Protected}

PlacesOK ==
  /\ online \subseteq Players
  /\ at \in [Players -> Servers \cup {None}]
  /\ backend \subseteq Servers
  /\ tracked \in [Servers -> SUBSET Players]
  /\ rows \in [Players -> Servers \cup {None}]

TimersOK ==
  /\ stopTimers \in [Servers -> Timers \cup {None}]
  /\ timer \in [Timers -> GoodTasks]
  /\ EntryIsLive
  /\ evict \subseteq Servers \ Protected

\* The inductive invariant.
IInv ==
  /\ PlacesOK
  /\ conn \in [Players -> GoodConns]
  /\ disc \in [Players -> GoodDiscs]
  /\ TimersOK

LEMMA InitInv == AutoStopAssumption /\ Init => IInv
  BY DEF Init, IInv, PlacesOK, TimersOK, EntryIsLive, GoodConns, GoodDiscs, GoodTasks,
         NoTimer, NoConn, NoDisc, ConnSteps, HandlerSteps

LEMMA Implied == IInv => StopInv
  <1> SUFFICES ASSUME IInv PROVE StopInv
    OBVIOUS
  <1>1. conn \in [Players -> [pc : ConnSteps, target : Servers \cup {None},
                              prev : Servers \cup {None}]]
    BY DEF IInv, GoodConns
  <1>2. disc \in [Players -> [pc : HandlerSteps \cup {"idle"}, server : Servers \cup {None}]]
    BY DEF IInv, GoodDiscs
  <1>3. timer \in [Timers -> [pc : {"free", "armed", "stop", "forget"},
                              server : Servers \cup {None}]]
    BY DEF IInv, TimersOK, GoodTasks
  <1> QED
    BY <1>1, <1>2, <1>3 DEF IInv, StopInv, TypeOK, PlacesOK, TimersOK, ConnSteps

\* A handler goes on to a step that its servers allow.
LEMMA ConnToOK ==
  ASSUME conn \in [Players -> GoodConns], NEW p \in Players, NEW step \in ConnSteps,
         ConnTo(p, step), conn[p].pc # "idle",
         step \in HandlerSteps => conn[p].prev \in Servers,
         step \in {"cancelOld", "arm"} => conn[p].prev \notin Protected
  PROVE  conn' \in [Players -> GoodConns]
  <1> DEFINE c == [conn[p] EXCEPT !.pc = step]
  <1>1. conn[p] \in GoodConns
    OBVIOUS
  <1>2. c \in [pc : ConnSteps, target : Servers \cup {None}, prev : Servers \cup {None}]
        /\ c.pc = step /\ c.target = conn[p].target /\ c.prev = conn[p].prev
    BY <1>1 DEF GoodConns
  <1>3. c \in GoodConns
    BY <1>1, <1>2 DEF GoodConns
  <1>4. conn' = [conn EXCEPT ![p] = c]
    BY DEF ConnTo
  <1> HIDE DEF c
  <1> QED
    BY <1>3, <1>4

LEMMA DiscToOK ==
  ASSUME disc \in [Players -> GoodDiscs], NEW p \in Players, NEW step \in HandlerSteps,
         disc' = [disc EXCEPT ![p] = [disc[p] EXCEPT !.pc = step]],
         step # "leave" => disc[p].server \in Servers,
         step \in {"cancelOld", "arm"} => disc[p].server \notin Protected
  PROVE  disc' \in [Players -> GoodDiscs]
  <1> DEFINE d == [disc[p] EXCEPT !.pc = step]
  <1>1. disc[p] \in GoodDiscs
    OBVIOUS
  <1>2. d \in [pc : HandlerSteps \cup {"idle"}, server : Servers \cup {None}]
        /\ d.pc = step /\ d.server = disc[p].server
    BY <1>1 DEF GoodDiscs
  <1>3. d \in GoodDiscs
    BY <1>1, <1>2 DEF GoodDiscs
  <1>4. disc' = [disc EXCEPT ![p] = d]
    OBVIOUS
  <1> HIDE DEF d
  <1> QED
    BY <1>3, <1>4

LEMMA ReturnOK ==
  ASSUME NEW p \in Players
  PROVE  /\ conn \in [Players -> GoodConns] => [conn EXCEPT ![p] = NoConn] \in [Players -> GoodConns]
         /\ disc \in [Players -> GoodDiscs] => [disc EXCEPT ![p] = NoDisc] \in [Players -> GoodDiscs]
  <1>1. NoConn \in GoodConns
    BY DEF NoConn, GoodConns, ConnSteps, HandlerSteps
  <1>2. NoDisc \in GoodDiscs
    BY DEF NoDisc, GoodDiscs, HandlerSteps
  <1> QED
    BY <1>1, <1>2

\* Cancelling the timer of a server drops its entry and no other one's task.
LEMMA CancelKeeps ==
  ASSUME TimersOK, AutoStopAssumption, NEW s \in Servers, CancelStopTimer(s), UNCHANGED evict
  PROVE  TimersOK'
  <1> DEFINE t == stopTimers[s]
  <1>1. /\ stopTimers' = [stopTimers EXCEPT ![s] = None]
        /\ \/ timer' = timer
           \/ t # None /\ timer' = [timer EXCEPT ![t] = NoTimer]
    BY DEF CancelStopTimer
  <1>2. t \in Timers \cup {None}
    BY DEF TimersOK
  <1>3. NoTimer \in GoodTasks
    BY DEF NoTimer, GoodTasks
  <1>4. \A u \in Timers : timer'[u] = timer[u] \/ (u = t /\ t # None /\ timer'[u] = NoTimer)
    BY <1>1, <1>2 DEF TimersOK
  <1>5. EntryIsLive'
    <2> SUFFICES ASSUME NEW r \in Servers, stopTimers'[r] # None
                 PROVE  timer'[stopTimers'[r]].pc # "free" /\ timer'[stopTimers'[r]].server = r
      BY DEF EntryIsLive
    <2>1. r # s /\ stopTimers'[r] = stopTimers[r]
      BY <1>1 DEF TimersOK
    <2>2. stopTimers[r] \in Timers /\ timer[stopTimers[r]].server = r
          /\ timer[stopTimers[r]].pc # "free"
      BY <2>1 DEF TimersOK, EntryIsLive
    <2>3. t # None => timer[t].server = s
      BY DEF TimersOK, EntryIsLive
    <2>4. timer'[stopTimers[r]] = timer[stopTimers[r]]
      BY <1>4, <2>1, <2>2, <2>3
    <2> QED
      BY <2>1, <2>2, <2>4
  <1>6. stopTimers' \in [Servers -> Timers \cup {None}]
    BY <1>1 DEF TimersOK
  <1>7. timer' \in [Timers -> GoodTasks]
    BY <1>1, <1>3 DEF TimersOK
  <1> QED
    BY <1>5, <1>6, <1>7 DEF TimersOK

\* A task that is registered was free: no entry leads to it but the new one.
LEMMA ArmKeeps ==
  ASSUME TimersOK, AutoStopAssumption, NEW s \in Servers \ Protected, ArmTimer(s),
         UNCHANGED evict
  PROVE  TimersOK'
  <1>1. PICK t \in Timers :
          /\ timer[t].pc = "free"
          /\ timer' = [timer EXCEPT ![t] = [pc |-> "armed", server |-> s]]
          /\ stopTimers' = [stopTimers EXCEPT ![s] = t]
    BY DEF ArmTimer
  <1>2. EntryIsLive'
    <2> SUFFICES ASSUME NEW r \in Servers, stopTimers'[r] # None
                 PROVE  timer'[stopTimers'[r]].pc # "free" /\ timer'[stopTimers'[r]].server = r
      BY DEF EntryIsLive
    <2>1. CASE r = s
      BY <1>1, <2>1 DEF TimersOK
    <2>2. CASE r # s
      <3>1. stopTimers'[r] = stopTimers[r] /\ stopTimers[r] \in Timers
        BY <1>1, <2>2 DEF TimersOK
      <3>2. timer[stopTimers[r]].pc # "free" /\ timer[stopTimers[r]].server = r
        BY <3>1 DEF TimersOK, EntryIsLive
      <3> QED
        BY <1>1, <3>1, <3>2 DEF TimersOK
    <2> QED
      BY <2>1, <2>2
  <1>3. [pc |-> "armed", server |-> s] \in GoodTasks
    BY DEF GoodTasks
  <1>4. stopTimers' \in [Servers -> Timers \cup {None}]
    BY <1>1 DEF TimersOK
  <1>5. timer' \in [Timers -> GoodTasks]
    BY <1>1, <1>3 DEF TimersOK
  <1> QED
    BY <1>2, <1>4, <1>5 DEF TimersOK

LEMMA SameTimers ==
  ASSUME TimersOK, UNCHANGED <<stopTimers, timer, evict>>
  PROVE  TimersOK'
  BY DEF TimersOK, EntryIsLive

\* Velocity's steps: sessions and connections.
LEMMA SessionInv ==
  ASSUME IInv, AutoStopAssumption, NEW p \in Players,
         \/ Login(p) \/ HandshakeFails(p) \/ ServerConnected(p) \/ Disconnect(p)
         \/ \E s \in Servers : PreConnect(p, s)
  PROVE  IInv'
  <1>1. TimersOK'
    BY SameTimers DEF IInv, Login, HandshakeFails, ServerConnected, Disconnect, PreConnect
  <1>2. CASE Login(p)
    BY <1>1, <1>2 DEF IInv, PlacesOK, Login
  <1>3. CASE HandshakeFails(p)
    BY <1>1, <1>3, ReturnOK DEF IInv, PlacesOK, HandshakeFails
  <1>4. CASE ServerConnected(p)
    <2> DEFINE step == IF at[p] = None THEN "track" ELSE "untrack"
               c == [conn[p] EXCEPT !.pc = step, !.prev = at[p]]
    <2>1. conn[p] \in GoodConns /\ at[p] \in Servers \cup {None}
      BY DEF IInv, PlacesOK
    <2>2. conn[p].target \in Servers
      BY <1>4, <2>1 DEF GoodConns, ServerConnected
    <2>3. step \in ConnSteps /\ (step \in HandlerSteps => step = "untrack" /\ at[p] \in Servers)
      BY <2>1 DEF ConnSteps, HandlerSteps
    <2>4. conn' = [conn EXCEPT ![p] = c]
      BY <1>4 DEF ServerConnected
    <2> HIDE DEF step
    <2>5. c \in [pc : ConnSteps, target : Servers \cup {None}, prev : Servers \cup {None}]
          /\ c.pc = step /\ c.target = conn[p].target /\ c.prev = at[p]
      BY <2>1, <2>3 DEF GoodConns
    <2> HIDE DEF c
    <2>6. c \in GoodConns
      BY <2>2, <2>3, <2>5 DEF GoodConns, HandlerSteps
    <2>7. conn' \in [Players -> GoodConns]
      BY <2>4, <2>6 DEF IInv
    <2> QED
      BY <1>1, <1>4, <2>7 DEF IInv, PlacesOK, ServerConnected
  <1>5. CASE Disconnect(p)
    <2> DEFINE d == [pc |-> IF at[p] = None THEN "leave" ELSE "untrack", server |-> at[p]]
    <2>1. d \in GoodDiscs
      BY DEF IInv, PlacesOK, GoodDiscs, HandlerSteps
    <2>2. disc' = [disc EXCEPT ![p] = d]
      BY <1>5 DEF Disconnect
    <2>3. disc' \in [Players -> GoodDiscs]
      BY <2>1, <2>2 DEF IInv
    <2>4. conn' \in [Players -> GoodConns]
      BY <1>5, ReturnOK DEF Disconnect, IInv
    <2>5. PlacesOK'
      BY <1>5 DEF IInv, PlacesOK, Disconnect
    <2> QED
      BY <1>1, <2>3, <2>4, <2>5 DEF IInv
  <1>6. ASSUME NEW s \in Servers, PreConnect(p, s) PROVE IInv'
    <2> DEFINE c == [pc |-> "handshake", target |-> s, prev |-> None]
    <2>1. c \in GoodConns
      BY DEF GoodConns, ConnSteps, HandlerSteps
    <2>2. conn' = [conn EXCEPT ![p] = c]
      BY <1>6 DEF PreConnect
    <2>3. conn' \in [Players -> GoodConns]
      BY <2>1, <2>2 DEF IInv
    <2>4. PlacesOK'
      BY <1>6 DEF IInv, PlacesOK, PreConnect
    <2> QED
      BY <1>1, <1>6, <2>3, <2>4 DEF IInv, PreConnect
  <1> QED
    BY <1>2, <1>3, <1>4, <1>5, <1>6

LEMMA ConnectedInv ==
  ASSUME IInv, AutoStopAssumption, NEW p \in Players, OnServerConnected(p)
  PROVE  IInv'
  <1>1. conn[p] \in GoodConns
    BY DEF IInv
  <1>2. conn[p].pc \in HandlerSteps => conn[p].prev \in Servers
    BY <1>1 DEF GoodConns
  <1>3. conn[p].pc # "idle" => conn[p].target \in Servers
    BY <1>1 DEF GoodConns
  <1>4. CASE ConnUntrack(p)
    <2>1. conn' \in [Players -> GoodConns]
      BY <1>1, <1>2, <1>4, ConnToOK DEF IInv, ConnUntrack, GoodConns, ConnSteps, HandlerSteps
    <2>2. PlacesOK'
      BY <1>4 DEF IInv, PlacesOK, ConnUntrack, RemovePlayerFromServer
    <2> QED
      BY <1>4, <2>1, <2>2, SameTimers DEF IInv, ConnUntrack
  <1>5. CASE ConnLeave(p)
    <2>1. conn' \in [Players -> GoodConns]
      BY <1>1, <1>2, <1>5, ConnToOK DEF IInv, ConnLeave, GoodConns, ConnSteps, HandlerSteps
    <2>2. PlacesOK'
      BY <1>5 DEF IInv, PlacesOK, ConnLeave, ReportPlayerLeave
    <2> QED
      BY <1>5, <2>1, <2>2, SameTimers DEF IInv, ConnLeave
  <1>6. CASE ConnStatus(p)
    <2>1. PICK step \in {"cancelOld", "track"} :
            ConnTo(p, step) /\ (step = "cancelOld" => conn[p].prev \notin Protected)
      BY <1>6 DEF ConnStatus, MaySchedule, Protected
    <2>2. conn' \in [Players -> GoodConns]
      BY <1>2, <1>6, <2>1, ConnToOK DEF IInv, ConnStatus, ConnSteps, HandlerSteps
    <2> QED
      BY <1>6, <2>2, SameTimers DEF IInv, PlacesOK, ConnStatus
  <1>7. CASE ConnCancelOld(p)
    <2>1. conn' \in [Players -> GoodConns]
      BY <1>1, <1>2, <1>7, ConnToOK DEF IInv, ConnCancelOld, GoodConns, ConnSteps, HandlerSteps
    <2>2. conn[p].prev \in Servers
      BY <1>2, <1>7 DEF ConnCancelOld, HandlerSteps
    <2>3. TimersOK'
      BY <1>7, <2>2, CancelKeeps DEF IInv, ConnCancelOld
    <2> QED
      BY <1>7, <2>1, <2>3 DEF IInv, PlacesOK, ConnCancelOld
  <1>8. CASE ConnArm(p)
    <2>1. conn' \in [Players -> GoodConns]
      BY <1>1, <1>2, <1>8, ConnToOK DEF IInv, ConnArm, GoodConns, ConnSteps, HandlerSteps
    <2>2. conn[p].prev \in Servers \ Protected
      BY <1>1, <1>2, <1>8 DEF GoodConns, ConnArm, HandlerSteps
    <2>3. TimersOK'
      BY <1>8, <2>2, ArmKeeps DEF IInv, ConnArm
    <2> QED
      BY <1>8, <2>1, <2>3 DEF IInv, PlacesOK, ConnArm
  <1>9. CASE ConnTrack(p)
    <2>1. conn' \in [Players -> GoodConns]
      BY <1>1, <1>2, <1>9, ConnToOK DEF IInv, ConnTrack, GoodConns, ConnSteps, HandlerSteps
    <2>2. PlacesOK'
      BY <1>9 DEF IInv, PlacesOK, ConnTrack, AddPlayerToServer
    <2> QED
      BY <1>9, <2>1, <2>2, SameTimers DEF IInv, ConnTrack
  <1>10. CASE ConnCancelTimer(p)
    <2>1. conn' \in [Players -> GoodConns]
      BY <1>1, <1>2, <1>10, ConnToOK DEF IInv, ConnCancelTimer, GoodConns, ConnSteps, HandlerSteps
    <2>2. conn[p].target \in Servers
      BY <1>3, <1>10 DEF ConnCancelTimer
    <2>3. TimersOK'
      BY <1>10, <2>2, CancelKeeps DEF IInv, ConnCancelTimer
    <2> QED
      BY <1>10, <2>1, <2>3 DEF IInv, PlacesOK, ConnCancelTimer
  <1>11. CASE Land(p)
    <2>1. conn' \in [Players -> GoodConns]
      BY <1>11, ReturnOK DEF IInv, Land
    <2>2. PlacesOK'
      BY <1>3, <1>11 DEF IInv, PlacesOK, Land
    <2> QED
      BY <1>11, <2>1, <2>2, SameTimers DEF IInv, Land
  <1> QED
    BY <1>4, <1>5, <1>6, <1>7, <1>8, <1>9, <1>10, <1>11 DEF OnServerConnected

LEMMA DisconnectInv ==
  ASSUME IInv, AutoStopAssumption, NEW p \in Players, OnPlayerDisconnect(p)
  PROVE  IInv'
  <1>1. disc[p] \in GoodDiscs
    BY DEF IInv
  <1>2. disc[p].pc \in HandlerSteps \ {"leave"} => disc[p].server \in Servers
    BY <1>1 DEF GoodDiscs
  <1>3. CASE DiscUntrack(p)
    <2>1. disc' = [disc EXCEPT ![p] = [disc[p] EXCEPT !.pc = "leave"]]
      BY <1>3 DEF DiscUntrack, DiscTo
    <2>2. disc' \in [Players -> GoodDiscs]
      BY <2>1, DiscToOK DEF IInv, HandlerSteps
    <2>3. PlacesOK'
      BY <1>3 DEF IInv, PlacesOK, DiscUntrack, RemovePlayerFromServer
    <2> QED
      BY <1>3, <2>2, <2>3, SameTimers DEF IInv, DiscUntrack
  <1>4. CASE DiscLeave(p)
    <2>1. ASSUME disc[p].server = None PROVE disc' \in [Players -> GoodDiscs]
      BY <1>4, <2>1, ReturnOK DEF IInv, DiscLeave
    <2>2. ASSUME disc[p].server # None PROVE disc' \in [Players -> GoodDiscs]
      <3>1. disc' = [disc EXCEPT ![p] = [disc[p] EXCEPT !.pc = "status"]]
        BY <1>4, <2>2 DEF DiscLeave
      <3>2. disc[p].server \in Servers
        BY <1>1, <2>2 DEF GoodDiscs
      <3> QED
        BY <3>1, <3>2, DiscToOK DEF IInv, HandlerSteps
    <2>3. disc' \in [Players -> GoodDiscs]
      BY <2>1, <2>2
    <2>4. PlacesOK'
      BY <1>4 DEF IInv, PlacesOK, DiscLeave, ReportPlayerLeave
    <2> QED
      BY <1>4, <2>3, <2>4, SameTimers DEF IInv, DiscLeave
  <1>5. CASE DiscStatus(p)
    <2>1. CASE disc' = [disc EXCEPT ![p] = NoDisc]
      BY <1>5, <2>1, ReturnOK, SameTimers DEF IInv, PlacesOK, DiscStatus
    <2>2. CASE MaySchedule(disc[p].server)
               /\ disc' = [disc EXCEPT ![p] = [disc[p] EXCEPT !.pc = "cancelOld"]]
      <3>1. disc' \in [Players -> GoodDiscs]
        BY <1>2, <1>5, <2>2, DiscToOK DEF IInv, DiscStatus, MaySchedule, Protected, HandlerSteps
      <3> QED
        BY <1>5, <3>1, SameTimers DEF IInv, PlacesOK, DiscStatus
    <2> QED
      BY <1>5, <2>1, <2>2 DEF DiscStatus
  <1>6. CASE DiscCancelOld(p)
    <2>1. disc[p].server \in Servers \ Protected
      BY <1>1, <1>2, <1>6 DEF GoodDiscs, DiscCancelOld, HandlerSteps
    <2>2. disc' = [disc EXCEPT ![p] = [disc[p] EXCEPT !.pc = "arm"]]
      BY <1>6 DEF DiscCancelOld, DiscTo
    <2>3. disc' \in [Players -> GoodDiscs]
      BY <2>1, <2>2, DiscToOK DEF IInv, HandlerSteps
    <2>4. TimersOK'
      BY <1>6, <2>1, CancelKeeps DEF IInv, DiscCancelOld
    <2> QED
      BY <1>6, <2>3, <2>4 DEF IInv, PlacesOK, DiscCancelOld
  <1>7. CASE DiscArm(p)
    <2>1. disc[p].server \in Servers \ Protected
      BY <1>1, <1>2, <1>7 DEF GoodDiscs, DiscArm, HandlerSteps
    <2>2. disc' \in [Players -> GoodDiscs]
      BY <1>7, ReturnOK DEF IInv, DiscArm
    <2>3. TimersOK'
      BY <1>7, <2>1, ArmKeeps DEF IInv, DiscArm
    <2> QED
      BY <1>7, <2>2, <2>3 DEF IInv, PlacesOK, DiscArm
  <1> QED
    BY <1>3, <1>4, <1>5, <1>6, <1>7 DEF OnPlayerDisconnect

\* The scheduled tasks, the eviction, and servers that start again.
LEMMA TaskInv ==
  ASSUME IInv, AutoStopAssumption,
         \/ \E t \in Timers : Task(t)
         \/ Evict
         \/ \E s \in Servers : EvictStop(s) \/ Start(s)
  PROVE  IInv'
  <1>1. ASSUME NEW t \in Timers, NEW pc \in {"stop", "forget"}, timer[t].pc # "free",
               timer' = [timer EXCEPT ![t].pc = pc], UNCHANGED <<stopTimers, evict>>
        PROVE  TimersOK'
    <2> DEFINE task == [timer[t] EXCEPT !.pc = pc]
    <2>1. timer[t] \in GoodTasks
      BY DEF IInv, TimersOK
    <2>2. task \in GoodTasks /\ task.pc # "free" /\ task.server = timer[t].server
      BY <1>1, <2>1 DEF GoodTasks
    <2>3. timer' = [timer EXCEPT ![t] = task]
      BY <1>1
    <2> HIDE DEF task
    <2>4. timer' \in [Timers -> GoodTasks]
      BY <2>2, <2>3 DEF IInv, TimersOK
    <2>5. EntryIsLive'
      BY <1>1, <2>2, <2>3 DEF IInv, TimersOK, EntryIsLive
    <2> QED
      BY <1>1, <2>4, <2>5 DEF IInv, TimersOK
  <1>2. ASSUME NEW t \in Timers, Fire(t) PROVE IInv'
    <2>1. TimersOK'
      BY <1>1, <1>2 DEF Fire
    <2> QED
      BY <1>2, <2>1 DEF IInv, PlacesOK, Fire
  <1>3. ASSUME NEW t \in Timers, StopServer(t) PROVE IInv'
    <2>1. TimersOK'
      BY <1>1, <1>3 DEF StopServer
    <2> QED
      BY <1>3, <2>1 DEF IInv, PlacesOK, StopServer
  <1>4. ASSUME NEW t \in Timers, Forget(t) PROVE IInv'
    <2>1. NoTimer \in GoodTasks
      BY DEF NoTimer, GoodTasks
    <2>2. /\ stopTimers' = [stopTimers EXCEPT ![timer[t].server] = None]
          /\ timer' = [timer EXCEPT ![t] = NoTimer]
      BY <1>4 DEF Forget
    <2>3. /\ stopTimers' \in [Servers -> Timers \cup {None}]
          /\ timer' \in [Timers -> GoodTasks]
      BY <2>1, <2>2 DEF IInv, TimersOK
    <2>4. EntryIsLive'
      BY <2>2 DEF IInv, TimersOK, EntryIsLive
    <2> QED
      BY <1>4, <2>3, <2>4 DEF IInv, PlacesOK, TimersOK, Forget
  <1>5. CASE Evict
    <2>1. \A s \in Servers : stopTimers[s] # None => s \notin Protected
      BY DEF IInv, TimersOK, EntryIsLive, GoodTasks
    <2>2. TimersOK'
      BY <1>5, <2>1 DEF IInv, TimersOK, EntryIsLive, Evict
    <2> QED
      BY <1>5, <2>2 DEF IInv, PlacesOK, Evict
  <1>6. ASSUME NEW s \in Servers, EvictStop(s) \/ Start(s) PROVE IInv'
    <2>1. TimersOK'
      BY <1>6 DEF IInv, TimersOK, EntryIsLive, EvictStop, Start
    <2> QED
      BY <1>6, <2>1 DEF IInv, PlacesOK, EvictStop, Start
  <1> QED
    BY <1>2, <1>3, <1>4, <1>5, <1>6 DEF Task

LEMMA StepInv == AutoStopAssumption /\ IInv /\ [Next]_vars => IInv'
  <1> SUFFICES ASSUME AutoStopAssumption, IInv, [Next]_vars PROVE IInv'
    OBVIOUS
  <1>1. CASE UNCHANGED vars
    BY <1>1 DEF vars, IInv, PlacesOK, TimersOK, EntryIsLive
  <1> QED
    BY <1>1, SessionInv, ConnectedInv, DisconnectInv, TaskInv DEF Next

\* Whatever the handlers of the players, the tasks and the eviction do at the
\* same time, a registered stop timer is a task that has still to end.
THEOREM StopInvHolds == Spec => []StopInv
  BY InitInv, StepInv, Implied, AutoStopAssumption, PTL DEF Spec

\* The plugin never stops the login server or an excluded one: the only guard
\* is the test of the handlers, asynchronous steps before a task exists.
THEOREM NeverStoppedHolds == Spec => NeverStopped
  <1>1. AutoStopAssumption /\ IInv /\ [Next]_vars
          => [(Excluded \cup {LoginServer}) \cap backend \subseteq backend']_vars
    <2> SUFFICES ASSUME IInv, Next PROVE Protected \cap backend \subseteq backend'
      BY DEF Protected
    <2>1. ASSUME NEW t \in Timers, StopServer(t) PROVE Protected \cap backend \subseteq backend'
      <3>1. timer[t].server \notin Protected
        BY <2>1 DEF IInv, TimersOK, GoodTasks, StopServer
      <3> QED
        BY <2>1, <3>1 DEF StopServer
    <2>2. ASSUME NEW s \in Servers, EvictStop(s) \/ Start(s)
          PROVE  Protected \cap backend \subseteq backend'
      BY <2>2 DEF IInv, TimersOK, EvictStop, Start
    <2>3. ASSUME NEW t \in Timers, Fire(t) \/ Forget(t) PROVE UNCHANGED backend
      BY <2>3 DEF Fire, Forget
    <2>4. ASSUME NEW p \in Players,
                 \/ Login(p) \/ HandshakeFails(p) \/ ServerConnected(p) \/ Disconnect(p)
                 \/ OnServerConnected(p) \/ OnPlayerDisconnect(p)
                 \/ \E s \in Servers : PreConnect(p, s)
          PROVE  UNCHANGED backend
      BY <2>4 DEF Login, HandshakeFails, ServerConnected, Disconnect, PreConnect,
           OnServerConnected, OnPlayerDisconnect, ConnUntrack, ConnLeave, ConnStatus,
           ConnCancelOld, ConnArm, ConnTrack, ConnCancelTimer, Land, DiscUntrack,
           DiscLeave, DiscStatus, DiscCancelOld, DiscArm
    <2>5. CASE Evict
      BY <2>5 DEF Evict
    <2> QED
      BY <2>1, <2>2, <2>3, <2>4, <2>5 DEF Next, Task
  <1> QED
    BY <1>1, InitInv, StepInv, AutoStopAssumption, PTL DEF Spec, NeverStopped

-------------------------------------------------------------------------------
(***************************************************************************)
(* One event at a time.  While one handler or task is at work no other     *)
(* moves, so what it has seen stays so; the invariant says what the one at *)
(* work has done of a player's move, and what a pending task may count on. *)
(***************************************************************************)
Connecting(p) == conn[p].pc # "idle"
Leaving(p) == disc[p].pc # "idle"
Runs(t) == timer[t].pc \in {"stop", "forget"}

\* One handler or task at work.
Sole ==
  /\ \A p, q \in Players : Connecting(p) /\ Connecting(q) => p = q
  /\ \A p, q \in Players : Leaving(p) /\ Leaving(q) => p = q
  /\ \A p, q \in Players : ~(Connecting(p) /\ Leaving(q))
  /\ \A t, u \in Timers : Runs(t) /\ Runs(u) => t = u
  /\ \A t \in Timers, p \in Players : Runs(t) => ~Connecting(p) /\ ~Leaving(p)

\* Where serverPlayers has a player: where he is, or as far as a handler is.
On(p) ==
  IF conn[p].pc = "untrack" THEN conn[p].prev
  ELSE IF conn[p].pc \in {"cancelTimer", "land"} THEN conn[p].target
  ELSE IF disc[p].pc = "untrack" THEN disc[p].server
  ELSE at[p]

Followed == \A p \in Players, s \in Servers : p \in tracked[s] <=> On(p) = s

\* Between two servers, and after leaving, a player is on none.
Between ==
  \A p \in Players :
    /\ Connecting(p) => p \in online
    /\ conn[p].pc \notin {"idle", "handshake"} \/ Leaving(p) => at[p] = None

Reachable ==
  \A t \in Timers : timer[t].pc # "free" =>
    timer[t].server \in Servers /\ stopTimers[timer[t].server] = t

\* A task that may still stop its server waits for a server that is empty, or
\* for a handler that is about to cancel it.
Deserted ==
  \A t \in Timers, p \in Players :
    timer[t].pc \in {"armed", "stop"} /\ p \in tracked[timer[t].server] =>
      conn[p].pc = "cancelTimer" /\ conn[p].target = timer[t].server

\* What a handler that will arm a task has seen.
ToArm ==
  \A p \in Players :
    /\ conn[p].pc \in {"cancelOld", "arm"} => tracked[conn[p].prev] = {}
    /\ conn[p].pc = "arm" => stopTimers[conn[p].prev] = None
    /\ disc[p].pc \in {"cancelOld", "arm"} => tracked[disc[p].server] = {}
    /\ disc[p].pc = "arm" => stopTimers[disc[p].server] = None

SerialInv == Sole /\ Followed /\ Between /\ Reachable /\ Deserted /\ ToArm

LEMMA SoleBusy == (\A a, b \in Busy : a = b) => Sole
  <1> SUFFICES ASSUME \A a, b \in Busy : a = b PROVE Sole
    OBVIOUS
  <1>1. /\ \A p \in Players : Connecting(p) => <<"conn", p>> \in Busy
        /\ \A p \in Players : Leaving(p) => <<"disc", p>> \in Busy
        /\ \A t \in Timers : Runs(t) => <<"task", t>> \in Busy
    BY DEF Busy, Connecting, Leaving, Runs
  <1>2. \A x, y : <<"conn", x>> # <<"disc", y>> /\ <<"conn", x>> # <<"task", y>>
                  /\ <<"disc", x>> # <<"task", y>>
    OBVIOUS
  <1>3. \A x, y, k : <<k, x>> = <<k, y>> => x = y
    OBVIOUS
  <1>4. \A p, q \in Players : Connecting(p) /\ Connecting(q) => p = q
    BY <1>1, <1>3
  <1>5. \A p, q \in Players : Leaving(p) /\ Leaving(q) => p = q
    BY <1>1, <1>3
  <1>6. \A p, q \in Players : ~(Connecting(p) /\ Leaving(q))
    BY <1>1, <1>2
  <1>7. \A t, u \in Timers : Runs(t) /\ Runs(u) => t = u
    BY <1>1, <1>3
  <1>8. \A t \in Timers, p \in Players : Runs(t) => ~Connecting(p) /\ ~Leaving(p)
    BY <1>1, <1>2
  <1> QED
    BY <1>4, <1>5, <1>6, <1>7, <1>8 DEF Sole

\* What one step of a handler changes.
LEMMA ConnStep ==
  ASSUME conn \in [Players -> GoodConns], NEW p \in Players, NEW step, ConnTo(p, step)
  PROVE  /\ conn'[p].pc = step /\ conn'[p].prev = conn[p].prev /\ conn'[p].target = conn[p].target
         /\ \A q \in Players \ {p} : conn'[q] = conn[q]
  <1>1. conn[p] \in GoodConns
    OBVIOUS
  <1> QED
    BY <1>1 DEF ConnTo, GoodConns

LEMMA DiscStep ==
  ASSUME disc \in [Players -> GoodDiscs], NEW p \in Players, NEW step,
         disc' = [disc EXCEPT ![p] = [disc[p] EXCEPT !.pc = step]]
  PROVE  /\ disc'[p].pc = step /\ disc'[p].server = disc[p].server
         /\ \A q \in Players \ {p} : disc'[q] = disc[q]
  <1>1. disc[p] \in GoodDiscs
    OBVIOUS
  <1> QED
    BY <1>1 DEF GoodDiscs

\* A step that leaves tracking and timers alone.
LEMMA TimersFrame ==
  ASSUME SerialInv, UNCHANGED <<tracked, stopTimers, timer>>,
         \A p \in Players : conn[p].pc = "cancelTimer" =>
           conn'[p].pc = "cancelTimer" /\ conn'[p].target = conn[p].target
  PROVE  Reachable' /\ Deserted'
  BY DEF SerialInv, Reachable, Deserted

LEMMA SerialInit == AutoStopAssumption /\ Init => SerialInv
  BY DEF AutoStopAssumption, Init, SerialInv, Sole, Followed, On, Between, Reachable, Deserted,
         ToArm, Connecting, Leaving, Runs, NoConn, NoDisc, NoTimer

\* A handler cancels a timer and arms one; no task is at work meanwhile.
LEMMA CancelSerial ==
  ASSUME IInv, Reachable, AutoStopAssumption, NEW s \in Servers, CancelStopTimer(s),
         \A t \in Timers : ~Runs(t)
  PROVE  /\ Reachable' /\ stopTimers'[s] = None
         /\ \A r \in Servers \ {s} : stopTimers'[r] = stopTimers[r]
         /\ \A t \in Timers : timer'[t].pc # "free" =>
              timer'[t] = timer[t] /\ timer[t].server # s
  <1>1. /\ stopTimers \in [Servers -> Timers \cup {None}] /\ None \notin Timers
        /\ timer \in [Timers -> GoodTasks]
    BY DEF IInv, TimersOK, AutoStopAssumption
  <1>2. /\ stopTimers' = [stopTimers EXCEPT ![s] = None]
        /\ timer' = IF stopTimers[s] # None /\ timer[stopTimers[s]].pc = "armed"
                    THEN [timer EXCEPT ![stopTimers[s]] = NoTimer] ELSE timer
    BY DEF CancelStopTimer
  <1>3. /\ stopTimers'[s] = None
        /\ \A r \in Servers \ {s} : stopTimers'[r] = stopTimers[r]
    BY <1>1, <1>2
  <1>4. ASSUME NEW t \in Timers, timer'[t].pc # "free"
        PROVE  timer'[t] = timer[t] /\ timer[t].server # s
    <2>1. CASE t = stopTimers[s]
      <3>1. timer[t].pc \in {"free", "armed", "stop", "forget"}
        BY <1>1 DEF GoodTasks
      <3>2. timer[t].pc \in {"free", "armed"}
        BY <3>1 DEF Runs
      <3>3. timer[t].pc = "armed" => timer'[t] = NoTimer
        BY <1>1, <1>2, <2>1
      <3>4. timer[t].pc = "free" => timer'[t] = timer[t]
        BY <1>1, <1>2, <2>1
      <3> QED
        BY <1>4, <3>2, <3>3, <3>4 DEF NoTimer
    <2>2. CASE t # stopTimers[s]
      <3>1. timer'[t] = timer[t]
        BY <1>1, <1>2, <2>2
      <3> QED
        BY <1>4, <2>2, <3>1 DEF Reachable
    <2> QED
      BY <2>1, <2>2
  <1>5. Reachable'
    BY <1>3, <1>4 DEF Reachable
  <1> QED
    BY <1>3, <1>4, <1>5

LEMMA ArmSerial ==
  ASSUME IInv, Reachable, AutoStopAssumption, NEW s \in Servers, ArmTimer(s),
         stopTimers[s] = None
  PROVE  /\ Reachable'
         /\ \A t \in Timers : timer'[t].pc # "free" =>
              timer'[t] = timer[t] \/ timer'[t] = [pc |-> "armed", server |-> s]
  <1>1. /\ stopTimers \in [Servers -> Timers \cup {None}] /\ None \notin Timers
        /\ timer \in [Timers -> GoodTasks]
    BY DEF IInv, TimersOK, AutoStopAssumption
  <1>2. PICK u \in Timers :
          /\ timer[u].pc = "free"
          /\ timer' = [timer EXCEPT ![u] = [pc |-> "armed", server |-> s]]
          /\ stopTimers' = [stopTimers EXCEPT ![s] = u]
    BY DEF ArmTimer
  <1>3. /\ timer'[u] = [pc |-> "armed", server |-> s]
        /\ \A t \in Timers \ {u} : timer'[t] = timer[t]
        /\ stopTimers'[s] = u /\ \A r \in Servers \ {s} : stopTimers'[r] = stopTimers[r]
    BY <1>1, <1>2
  <1>4. Reachable'
    BY <1>1, <1>3 DEF Reachable
  <1> QED
    BY <1>3, <1>4

\* Sessions and connections.
LEMMA SessionSerial ==
  ASSUME IInv, SerialInv, Sole', AutoStopAssumption, NEW p \in Players,
         \/ Login(p) \/ HandshakeFails(p) \/ ServerConnected(p) \/ Disconnect(p)
         \/ \E s \in Servers : PreConnect(p, s)
  PROVE  SerialInv'
  <1>0. /\ conn \in [Players -> GoodConns] /\ disc \in [Players -> GoodDiscs]
        /\ at \in [Players -> Servers \cup {None}] /\ None \notin Servers
    BY DEF IInv, PlacesOK, AutoStopAssumption
  <1>1. CASE Login(p)
    BY <1>1 DEF Login, SerialInv, Followed, On, Between, Reachable, Deserted, ToArm, Connecting, Leaving
  <1>2. CASE HandshakeFails(p)
    <2>1. conn'[p] = NoConn /\ \A q \in Players \ {p} : conn'[q] = conn[q]
      BY <1>0, <1>2 DEF HandshakeFails
    <2>2. UNCHANGED <<online, at, tracked, stopTimers, timer, disc>> /\ conn[p].pc = "handshake"
      BY <1>2 DEF HandshakeFails
    <2>3. Reachable' /\ Deserted'
      BY <2>1, <2>2, TimersFrame
    <2>4. \A q \in Players : On(q)' = On(q)
      BY <2>1, <2>2 DEF On, NoConn
    <2>5. Followed'
      BY <2>2, <2>4 DEF SerialInv, Followed
    <2>6. Between'
      BY <2>1, <2>2 DEF SerialInv, Between, NoConn, Connecting, Leaving
    <2>7. ToArm'
      BY <2>1, <2>2 DEF SerialInv, ToArm, NoConn
    <2> QED
      BY <2>3, <2>5, <2>6, <2>7 DEF SerialInv
  <1>3. CASE ServerConnected(p)
    <2>1. /\ conn'[p].pc = IF at[p] = None THEN "track" ELSE "untrack"
          /\ conn'[p].prev = at[p] /\ conn'[p].target = conn[p].target
          /\ \A q \in Players \ {p} : conn'[q] = conn[q]
      <3>1. conn[p] \in GoodConns
        BY <1>0
      <3> QED
        BY <1>0, <1>3, <3>1 DEF ServerConnected, GoodConns
    <2>2. /\ UNCHANGED <<online, tracked, stopTimers, timer, disc>> /\ conn[p].pc = "handshake"
          /\ at'[p] = None /\ \A q \in Players \ {p} : at'[q] = at[q]
      BY <1>0, <1>3 DEF ServerConnected
    <2>3. Reachable' /\ Deserted'
      BY <2>1, <2>2, TimersFrame
    <2>4. disc[p].pc = "idle"
      BY <2>2 DEF SerialInv, Sole, Connecting, Leaving
    <2>5. \A q \in Players : On(q)' = On(q)
      BY <2>1, <2>2, <2>4 DEF On
    <2>6. Followed'
      BY <2>2, <2>5 DEF SerialInv, Followed
    <2>7. Between'
      BY <2>1, <2>2 DEF SerialInv, Between, Connecting, Leaving
    <2>8. ToArm'
      BY <2>1, <2>2 DEF SerialInv, ToArm
    <2> QED
      BY <2>3, <2>6, <2>7, <2>8 DEF SerialInv
  <1>4. CASE Disconnect(p)
    <2>1. /\ disc'[p] = [pc |-> IF at[p] = None THEN "leave" ELSE "untrack", server |-> at[p]]
          /\ \A q \in Players \ {p} : disc'[q] = disc[q]
          /\ at'[p] = None /\ \A q \in Players \ {p} : at'[q] = at[q]
          /\ online' = online \ {p} /\ UNCHANGED <<tracked, stopTimers, timer>>
          /\ disc[p].pc = "idle"
      BY <1>0, <1>4 DEF Disconnect
    <2>2. /\ \A q \in Players : conn'[q].pc = "idle"
          /\ conn[p].pc \in {"idle", "handshake"}
          /\ \A q \in Players \ {p} : conn'[q] = conn[q]
      <3>1. Leaving(p)'
        BY <2>1 DEF Leaving
      <3>2. \A q \in Players : conn'[q].pc = "idle"
        BY <3>1 DEF Sole, Connecting
      <3>3. /\ conn' = IF conn[p].pc = "handshake" THEN [conn EXCEPT ![p] = NoConn] ELSE conn
        BY <1>4 DEF Disconnect
      <3> QED
        BY <1>0, <3>2, <3>3
    <2>3. Reachable' /\ Deserted'
      BY <2>1, <2>2, TimersFrame
    <2>4. \A q \in Players : On(q)' = On(q)
      BY <2>1, <2>2 DEF On
    <2>5. Followed'
      BY <2>1, <2>4 DEF SerialInv, Followed
    <2>6. Between'
      BY <2>1, <2>2 DEF SerialInv, Between, Connecting, Leaving
    <2>7. ToArm'
      BY <2>1, <2>2 DEF SerialInv, ToArm
    <2> QED
      BY <2>3, <2>5, <2>6, <2>7 DEF SerialInv
  <1>5. ASSUME NEW s \in Servers, PreConnect(p, s) PROVE SerialInv'
    <2>1. /\ conn'[p] = [pc |-> "handshake", target |-> s, prev |-> None]
          /\ \A q \in Players \ {p} : conn'[q] = conn[q]
          /\ conn[p].pc = "idle" /\ p \in online
          /\ UNCHANGED <<online, at, tracked, stopTimers, timer, disc>>
      BY <1>0, <1>5 DEF PreConnect
    <2>2. disc[p].pc = "idle"
      BY <2>1 DEF Sole, Connecting, Leaving
    <2>3. Reachable' /\ Deserted'
      BY <2>1, TimersFrame
    <2>4. \A q \in Players : On(q)' = On(q)
      BY <2>1 DEF On
    <2>5. Followed'
      BY <2>1, <2>4 DEF SerialInv, Followed
    <2>6. Between'
      BY <2>1, <2>2 DEF SerialInv, Between, Connecting, Leaving
    <2>7. ToArm'
      BY <2>1 DEF SerialInv, ToArm
    <2> QED
      BY <2>3, <2>5, <2>6, <2>7 DEF SerialInv
  <1> QED
    BY <1>1, <1>2, <1>3, <1>4, <1>5

\* onServerConnected.
LEMMA ConnectedSerial ==
  ASSUME IInv, SerialInv, Sole', AutoStopAssumption, NEW p \in Players, OnServerConnected(p)
  PROVE  SerialInv'
  <1>0. /\ conn \in [Players -> GoodConns] /\ conn[p] \in GoodConns
        /\ at \in [Players -> Servers \cup {None}] /\ None \notin Servers
        /\ tracked \in [Servers -> SUBSET Players]
    BY DEF IInv, PlacesOK, AutoStopAssumption
  <1>1. /\ conn[p].pc \in HandlerSteps => conn[p].prev \in Servers
        /\ conn[p].pc # "idle" => conn[p].target \in Servers
    BY <1>0 DEF GoodConns
  <1>2. /\ conn[p].pc \in HandlerSteps \cup {"track", "cancelTimer", "land"}
        /\ UNCHANGED <<online, disc>>
    BY DEF OnServerConnected, ConnUntrack, ConnLeave, ConnStatus, ConnCancelOld, ConnArm,
           ConnTrack, ConnCancelTimer, Land, HandlerSteps
  <1>3. /\ p \in online /\ at[p] = None
        /\ \A q \in Players : disc[q].pc = "idle"
        /\ \A q \in Players \ {p} : conn[q].pc = "idle"
        /\ \A t \in Timers : ~Runs(t)
    <2>1. Connecting(p)
      BY <1>2 DEF Connecting, HandlerSteps
    <2>2. at[p] = None
      BY <1>2 DEF SerialInv, Between, HandlerSteps
    <2> QED
      BY <2>1, <2>2 DEF SerialInv, Sole, Between, Connecting, Leaving
  <1>4. CASE UNCHANGED <<at, tracked, stopTimers, timer>> /\ conn[p].pc \in {"leave", "status"}
    <2>1. PICK step \in {"status", "cancelOld", "track"} :
            /\ ConnTo(p, step)
            /\ step = "cancelOld" => tracked[conn[p].prev] = {}
      BY <1>4 DEF OnServerConnected, ConnUntrack, ConnLeave, ConnStatus, ConnCancelOld,
           ConnArm, ConnTrack, ConnCancelTimer, Land, MaySchedule, IsServerEmpty
    <2>2. /\ conn'[p].pc = step /\ conn'[p].prev = conn[p].prev
          /\ \A q \in Players \ {p} : conn'[q] = conn[q]
      BY <1>0, <2>1, ConnStep
    <2>3. Reachable' /\ Deserted'
      BY <1>4, <2>2, TimersFrame
    <2>4. \A q \in Players : On(q)' = On(q)
      BY <1>2, <1>4, <2>2 DEF On
    <2>5. Followed'
      BY <1>4, <2>4 DEF SerialInv, Followed
    <2>6. Between'
      BY <1>2, <1>3, <1>4, <2>2 DEF SerialInv, Between, Connecting, Leaving
    <2>7. ToArm'
      BY <1>2, <1>4, <2>1, <2>2 DEF SerialInv, ToArm
    <2> QED
      BY <2>3, <2>5, <2>6, <2>7 DEF SerialInv
  <1>5. CASE ConnUntrack(p)
    <2>1. /\ conn'[p].pc = "leave" /\ \A q \in Players \ {p} : conn'[q] = conn[q]
          /\ UNCHANGED <<at, stopTimers, timer>> /\ conn[p].pc = "untrack"
      BY <1>0, <1>5, ConnStep DEF ConnUntrack
    <2>2. \A s \in Servers :
            tracked'[s] = IF s = conn[p].prev THEN tracked[s] \ {p} ELSE tracked[s]
      BY <1>0, <1>5 DEF ConnUntrack, RemovePlayerFromServer
    <2>3. Followed'
      <3>1. \A q \in Players \ {p} : On(q)' = On(q)
        BY <1>2, <2>1 DEF On
      <3>2. On(p) = conn[p].prev /\ On(p)' = None
        BY <1>2, <1>3, <2>1 DEF On
      <3>3. \A q \in Players, s \in Servers : q \in tracked[s] <=> On(q) = s
        BY DEF SerialInv, Followed
      <3>4. \A s \in Servers : p \notin tracked'[s] /\ On(p)' # s
        <4>1. \A s \in Servers : s # conn[p].prev => p \notin tracked[s]
          BY <3>2, <3>3
        <4>2. \A s \in Servers : p \notin tracked'[s]
          BY <2>2, <4>1
        <4> QED
          BY <1>0, <3>2, <4>2
      <3>5. \A q \in Players \ {p}, s \in Servers : q \in tracked'[s] <=> q \in tracked[s]
        BY <2>2
      <3> QED
        BY <3>1, <3>3, <3>4, <3>5 DEF Followed
    <2>4. Reachable'
      BY <2>1 DEF SerialInv, Reachable
    <2>5. Deserted'
      <3>1. \A t \in Timers : timer[t].pc # "free" => timer[t].server \in Servers
        BY DEF SerialInv, Reachable
      <3> QED
        BY <2>1, <2>2, <3>1 DEF SerialInv, Deserted
    <2>6. Between'
      BY <1>2, <1>3, <2>1 DEF SerialInv, Between, Connecting, Leaving
    <2>7. ToArm'
      BY <1>2, <1>3, <2>1 DEF ToArm
    <2> QED
      BY <2>3, <2>4, <2>5, <2>6, <2>7 DEF SerialInv
  <1>6. CASE ConnCancelOld(p)
    <2>1. /\ conn'[p].pc = "arm" /\ conn'[p].prev = conn[p].prev
          /\ \A q \in Players \ {p} : conn'[q] = conn[q]
          /\ UNCHANGED <<at, tracked>> /\ conn[p].pc = "cancelOld"
      BY <1>0, <1>6, ConnStep DEF ConnCancelOld
    <2>2. conn[p].prev \in Servers
      BY <1>1, <2>1 DEF HandlerSteps
    <2>3. /\ Reachable' /\ stopTimers'[conn[p].prev] = None
          /\ \A t \in Timers : timer'[t].pc # "free" => timer'[t] = timer[t]
      BY <1>3, <1>6, <2>2, CancelSerial DEF SerialInv, ConnCancelOld
    <2>4. Deserted'
      BY <1>3, <2>1, <2>3 DEF SerialInv, Deserted
    <2>5. Followed'
      <3>1. \A q \in Players : On(q)' = On(q)
        BY <1>2, <2>1 DEF On
      <3> QED
        BY <2>1, <3>1 DEF SerialInv, Followed
    <2>6. Between'
      BY <1>2, <1>3, <2>1 DEF SerialInv, Between, Connecting, Leaving
    <2>7. ToArm'
      BY <1>2, <1>3, <2>1, <2>3 DEF SerialInv, ToArm
    <2> QED
      BY <2>3, <2>4, <2>5, <2>6, <2>7 DEF SerialInv
  <1>7. CASE ConnArm(p)
    <2>1. /\ conn'[p].pc = "track" /\ \A q \in Players \ {p} : conn'[q] = conn[q]
          /\ UNCHANGED <<at, tracked>> /\ conn[p].pc = "arm"
      BY <1>0, <1>7, ConnStep DEF ConnArm
    <2>2. /\ conn[p].prev \in Servers
          /\ stopTimers[conn[p].prev] = None /\ tracked[conn[p].prev] = {}
      BY <1>1, <2>1 DEF HandlerSteps, SerialInv, ToArm
    <2>3. /\ Reachable'
          /\ \A t \in Timers : timer'[t].pc # "free" =>
               timer'[t] = timer[t] \/ timer'[t] = [pc |-> "armed", server |-> conn[p].prev]
      BY <1>7, <2>2, ArmSerial DEF SerialInv, ConnArm
    <2>4. Deserted'
      BY <1>3, <2>1, <2>2, <2>3 DEF SerialInv, Deserted
    <2>5. Followed'
      <3>1. \A q \in Players : On(q)' = On(q)
        BY <1>2, <2>1 DEF On
      <3> QED
        BY <2>1, <3>1 DEF SerialInv, Followed
    <2>6. Between'
      BY <1>2, <1>3, <2>1 DEF SerialInv, Between, Connecting, Leaving
    <2>7. ToArm'
      BY <1>2, <1>3, <2>1 DEF ToArm
    <2> QED
      BY <2>3, <2>4, <2>5, <2>6, <2>7 DEF SerialInv
  <1>8. CASE ConnTrack(p)
    <2>1. /\ conn'[p].pc = "cancelTimer" /\ conn'[p].target = conn[p].target
          /\ \A q \in Players \ {p} : conn'[q] = conn[q]
          /\ UNCHANGED <<at, stopTimers, timer>> /\ conn[p].pc = "track"
      BY <1>0, <1>8, ConnStep DEF ConnTrack
    <2>2. \A s \in Servers :
            tracked'[s] = IF s = conn[p].target THEN tracked[s] \cup {p} ELSE tracked[s]
      BY <1>0, <1>8 DEF ConnTrack, AddPlayerToServer
    <2>3. Followed'
      <3>1. \A q \in Players \ {p} : On(q)' = On(q)
        BY <1>2, <2>1 DEF On
      <3>2. On(p) = None /\ On(p)' = conn[p].target
        BY <1>2, <1>3, <2>1 DEF On
      <3>3. \A q \in Players, s \in Servers : q \in tracked[s] <=> On(q) = s
        BY DEF SerialInv, Followed
      <3>4. \A s \in Servers : p \in tracked'[s] <=> On(p)' = s
        BY <1>0, <2>2, <3>2, <3>3
      <3>5. \A q \in Players \ {p}, s \in Servers : q \in tracked'[s] <=> q \in tracked[s]
        BY <2>2
      <3> QED
        BY <3>1, <3>3, <3>4, <3>5 DEF Followed
    <2>4. Reachable'
      BY <2>1 DEF SerialInv, Reachable
    <2>5. Deserted'
      <3>1. \A t \in Timers : timer[t].pc # "free" => timer[t].server \in Servers
        BY DEF SerialInv, Reachable
      <3>2. \A t \in Timers, q \in Players :
              ~(timer[t].pc \in {"armed", "stop"} /\ q \in tracked[timer[t].server])
        BY <1>3, <2>1 DEF SerialInv, Deserted
      <3>3. SUFFICES ASSUME NEW t \in Timers, NEW q \in Players,
                            timer[t].pc \in {"armed", "stop"}, q \in tracked'[timer[t].server]
                     PROVE  q = p /\ timer[t].server = conn[p].target
        BY <2>1 DEF Deserted
      <3>4. timer[t].server \in Servers /\ q \notin tracked[timer[t].server]
        BY <3>1, <3>2, <3>3
      <3> QED
        BY <2>2, <3>3, <3>4
    <2>6. Between'
      BY <1>2, <1>3, <2>1 DEF SerialInv, Between, Connecting, Leaving
    <2>7. ToArm'
      BY <1>2, <1>3, <2>1 DEF ToArm
    <2> QED
      BY <2>3, <2>4, <2>5, <2>6, <2>7 DEF SerialInv
  <1>9. CASE ConnCancelTimer(p)
    <2>1. /\ conn'[p].pc = "land" /\ conn'[p].target = conn[p].target
          /\ \A q \in Players \ {p} : conn'[q] = conn[q]
          /\ UNCHANGED <<at, tracked>> /\ conn[p].pc = "cancelTimer"
      BY <1>0, <1>9, ConnStep DEF ConnCancelTimer
    <2>2. /\ Reachable'
          /\ \A t \in Timers : timer'[t].pc # "free" =>
               timer'[t] = timer[t] /\ timer[t].server # conn[p].target
      BY <1>1, <1>3, <1>9, <2>1, CancelSerial DEF SerialInv, ConnCancelTimer
    <2>4. Deserted'
      BY <1>3, <2>1, <2>2 DEF SerialInv, Deserted
    <2>5. Followed'
      <3>1. \A q \in Players : On(q)' = On(q)
        BY <1>2, <2>1 DEF On
      <3> QED
        BY <2>1, <3>1 DEF SerialInv, Followed
    <2>6. Between'
      BY <1>2, <1>3, <2>1 DEF SerialInv, Between, Connecting, Leaving
    <2>7. ToArm'
      BY <1>2, <1>3, <2>1 DEF ToArm
    <2> QED
      BY <2>2, <2>4, <2>5, <2>6, <2>7 DEF SerialInv
  <1>10. CASE Land(p)
    <2>1. /\ conn'[p] = NoConn /\ \A q \in Players \ {p} : conn'[q] = conn[q]
          /\ at'[p] = conn[p].target /\ \A q \in Players \ {p} : at'[q] = at[q]
          /\ UNCHANGED <<tracked, stopTimers, timer>> /\ conn[p].pc = "land"
      BY <1>0, <1>3, <1>10 DEF Land
    <2>2. Reachable' /\ Deserted'
      BY <1>3, <2>1, TimersFrame
    <2>3. \A q \in Players : On(q)' = On(q)
      BY <1>2, <1>3, <2>1 DEF On, NoConn
    <2>4. Followed'
      BY <2>1, <2>3 DEF SerialInv, Followed
    <2>5. Between'
      BY <1>2, <1>3, <2>1 DEF SerialInv, Between, Connecting, Leaving, NoConn
    <2>6. ToArm'
      BY <1>2, <1>3, <2>1 DEF ToArm, NoConn
    <2> QED
      BY <2>2, <2>4, <2>5, <2>6 DEF SerialInv
  <1>11. CASE ConnLeave(p) \/ ConnStatus(p)
    BY <1>4, <1>11 DEF ConnLeave, ConnStatus
  <1> QED
    BY <1>5, <1>6, <1>7, <1>8, <1>9, <1>10, <1>11 DEF OnServerConnected

\* onPlayerDisconnect.
LEMMA DisconnectedSerial ==
  ASSUME IInv, SerialInv, Sole', AutoStopAssumption, NEW p \in Players, OnPlayerDisconnect(p)
  PROVE  SerialInv'
  <1>0. /\ disc \in [Players -> GoodDiscs] /\ disc[p] \in GoodDiscs
        /\ tracked \in [Servers -> SUBSET Players] /\ None \notin Servers
    BY DEF IInv, PlacesOK, AutoStopAssumption
  <1>1. disc[p].pc \in HandlerSteps \ {"leave"} => disc[p].server \in Servers
    BY <1>0 DEF GoodDiscs
  <1>2. disc[p].pc \in HandlerSteps /\ UNCHANGED <<online, at, conn>>
    BY DEF OnPlayerDisconnect, DiscUntrack, DiscLeave, DiscStatus, DiscCancelOld, DiscArm,
           HandlerSteps
  <1>3. /\ at[p] = None
        /\ \A q \in Players : conn[q].pc = "idle"
        /\ \A q \in Players \ {p} : disc[q].pc = "idle"
        /\ \A t \in Timers : ~Runs(t)
    <2>1. Leaving(p)
      BY <1>2 DEF Leaving, HandlerSteps
    <2> QED
      BY <2>1 DEF SerialInv, Sole, Between, Connecting, Leaving
  <1>4. Between'
    <2>1. \A q \in Players \ {p} : disc'[q] = disc[q]
      BY <1>0 DEF OnPlayerDisconnect, DiscUntrack, DiscLeave, DiscStatus, DiscCancelOld, DiscArm,
           DiscTo
    <2> QED
      BY <1>2, <1>3, <2>1 DEF Between, Connecting, Leaving
  <1>5. CASE DiscUntrack(p)
    <2>1. disc' = [disc EXCEPT ![p] = [disc[p] EXCEPT !.pc = "leave"]]
      BY <1>5 DEF DiscUntrack, DiscTo
    <2>2. /\ disc'[p].pc = "leave" /\ \A q \in Players \ {p} : disc'[q] = disc[q]
          /\ UNCHANGED <<stopTimers, timer>> /\ disc[p].pc = "untrack"
      BY <1>0, <1>5, <2>1, DiscStep DEF DiscUntrack
    <2>3. \A s \in Servers :
            tracked'[s] = IF s = disc[p].server THEN tracked[s] \ {p} ELSE tracked[s]
      BY <1>0, <1>5 DEF DiscUntrack, RemovePlayerFromServer
    <2>4. Followed'
      <3>1. \A q \in Players \ {p} : On(q)' = On(q)
        BY <1>2, <1>3, <2>2 DEF On
      <3>2. On(p) = disc[p].server /\ On(p)' = None
        BY <1>2, <1>3, <2>2 DEF On
      <3>3. \A q \in Players, s \in Servers : q \in tracked[s] <=> On(q) = s
        BY DEF SerialInv, Followed
      <3>4. \A s \in Servers : p \notin tracked'[s] /\ On(p)' # s
        BY <1>0, <2>3, <3>2, <3>3
      <3>5. \A q \in Players \ {p}, s \in Servers : q \in tracked'[s] <=> q \in tracked[s]
        BY <2>3
      <3> QED
        BY <3>1, <3>3, <3>4, <3>5 DEF Followed
    <2>5. Reachable'
      BY <2>2 DEF SerialInv, Reachable
    <2>6. Deserted'
      <3>1. \A t \in Timers : timer[t].pc # "free" => timer[t].server \in Servers
        BY DEF SerialInv, Reachable
      <3> QED
        BY <1>2, <1>3, <2>2, <2>3, <3>1 DEF SerialInv, Deserted
    <2>7. ToArm'
      BY <1>2, <1>3, <2>2 DEF ToArm
    <2> QED
      BY <1>4, <2>4, <2>5, <2>6, <2>7 DEF SerialInv
  <1>6. CASE DiscLeave(p) \/ DiscStatus(p)
    <2>1. UNCHANGED <<tracked, stopTimers, timer>> /\ disc[p].pc \in {"leave", "status"}
      BY <1>6 DEF DiscLeave, DiscStatus
    <2>2. /\ disc'[p] = NoDisc \/ disc'[p].pc = "status"
             \/ (disc'[p].pc = "cancelOld" /\ disc'[p].server = disc[p].server
                   /\ tracked[disc[p].server] = {})
          /\ \A q \in Players \ {p} : disc'[q] = disc[q]
      <3>1. PICK d \in {NoDisc, [disc[p] EXCEPT !.pc = "status"], [disc[p] EXCEPT !.pc = "cancelOld"]} :
              /\ disc' = [disc EXCEPT ![p] = d]
              /\ d = [disc[p] EXCEPT !.pc = "cancelOld"] =>
                   d = NoDisc \/ tracked[disc[p].server] = {} \/ d = [disc[p] EXCEPT !.pc = "status"]
        BY <1>6 DEF DiscLeave, DiscStatus, MaySchedule, IsServerEmpty
      <3>2. /\ [disc[p] EXCEPT !.pc = "status"].pc = "status"
            /\ [disc[p] EXCEPT !.pc = "cancelOld"].pc = "cancelOld"
            /\ [disc[p] EXCEPT !.pc = "cancelOld"].server = disc[p].server
        BY <1>0 DEF GoodDiscs
      <3>3. disc'[p] = d /\ \A q \in Players \ {p} : disc'[q] = disc[q]
        BY <1>0, <3>1
      <3> QED
        BY <3>1, <3>2, <3>3 DEF NoDisc
    <2>3. Reachable' /\ Deserted'
      BY <1>2, <2>1, TimersFrame
    <2>4. Followed'
      <3>1. \A q \in Players : On(q)' = On(q)
        BY <1>2, <1>3, <2>1, <2>2 DEF On, NoDisc
      <3> QED
        BY <2>1, <3>1 DEF SerialInv, Followed
    <2>5. ToArm'
      BY <1>2, <1>3, <2>1, <2>2 DEF SerialInv, ToArm, NoDisc
    <2> QED
      BY <1>4, <2>3, <2>4, <2>5 DEF SerialInv
  <1>7. CASE DiscCancelOld(p)
    <2>1. disc' = [disc EXCEPT ![p] = [disc[p] EXCEPT !.pc = "arm"]]
      BY <1>7 DEF DiscCancelOld, DiscTo
    <2>2. /\ disc'[p].pc = "arm" /\ disc'[p].server = disc[p].server
          /\ \A q \in Players \ {p} : disc'[q] = disc[q]
          /\ UNCHANGED tracked /\ disc[p].pc = "cancelOld"
      BY <1>0, <1>7, <2>1, DiscStep DEF DiscCancelOld
    <2>3. disc[p].server \in Servers
      BY <1>1, <2>2 DEF HandlerSteps
    <2>4. /\ Reachable' /\ stopTimers'[disc[p].server] = None
          /\ \A t \in Timers : timer'[t].pc # "free" => timer'[t] = timer[t]
      BY <1>3, <1>7, <2>3, CancelSerial DEF SerialInv, DiscCancelOld
    <2>5. Deserted'
      BY <1>2, <1>3, <2>2, <2>4 DEF SerialInv, Deserted
    <2>6. Followed'
      <3>1. \A q \in Players : On(q)' = On(q)
        BY <1>2, <1>3, <2>2 DEF On
      <3> QED
        BY <2>2, <3>1 DEF SerialInv, Followed
    <2>7. ToArm'
      BY <1>2, <1>3, <2>2, <2>4 DEF SerialInv, ToArm
    <2> QED
      BY <1>4, <2>4, <2>5, <2>6, <2>7 DEF SerialInv
  <1>8. CASE DiscArm(p)
    <2>1. /\ disc'[p] = NoDisc /\ \A q \in Players \ {p} : disc'[q] = disc[q]
          /\ UNCHANGED tracked /\ disc[p].pc = "arm"
      BY <1>0, <1>8 DEF DiscArm
    <2>2. /\ disc[p].server \in Servers
          /\ stopTimers[disc[p].server] = None /\ tracked[disc[p].server] = {}
      BY <1>1, <2>1 DEF HandlerSteps, SerialInv, ToArm
    <2>3. /\ Reachable'
          /\ \A t \in Timers : timer'[t].pc # "free" =>
               timer'[t] = timer[t] \/ timer'[t] = [pc |-> "armed", server |-> disc[p].server]
      BY <1>8, <2>2, ArmSerial DEF SerialInv, DiscArm
    <2>4. Deserted'
      BY <1>2, <1>3, <2>1, <2>2, <2>3 DEF SerialInv, Deserted
    <2>5. Followed'
      <3>1. \A q \in Players : On(q)' = On(q)
        BY <1>2, <1>3, <2>1 DEF On, NoDisc
      <3> QED
        BY <2>1, <3>1 DEF SerialInv, Followed
    <2>6. ToArm'
      BY <1>2, <1>3, <2>1 DEF ToArm, NoDisc
    <2> QED
      BY <1>4, <2>3, <2>4, <2>5, <2>6 DEF SerialInv
  <1> QED
    BY <1>5, <1>6, <1>7, <1>8 DEF OnPlayerDisconnect

\* The tasks, the eviction, and servers that start again.
LEMMA TaskSerial ==
  ASSUME IInv, SerialInv, Sole', AutoStopAssumption,
         \/ \E t \in Timers : Task(t)
         \/ Evict
         \/ \E s \in Servers : EvictStop(s) \/ Start(s)
  PROVE  SerialInv'
  <1>0. UNCHANGED <<online, at, tracked, conn, disc>>
    BY DEF Task, Fire, StopServer, Forget, Evict, EvictStop, Start
  <1>1. Followed'
    <2>1. \A q \in Players : On(q)' = On(q)
      BY <1>0 DEF On
    <2> QED
      BY <1>0, <2>1 DEF SerialInv, Followed
  <1>2. Between'
    BY <1>0 DEF SerialInv, Between, Connecting, Leaving
  <1>3. /\ timer \in [Timers -> GoodTasks] /\ stopTimers \in [Servers -> Timers \cup {None}]
        /\ None \notin Timers
    BY DEF IInv, TimersOK, AutoStopAssumption
  <1>4. ASSUME NEW t \in Timers, NEW step \in {"stop", "forget"}, timer[t].pc # "free",
               timer' = [timer EXCEPT ![t].pc = step], UNCHANGED stopTimers,
               step = "stop" => timer[t].pc = "armed"
        PROVE  SerialInv'
    <2>1. /\ timer'[t].pc = step /\ timer'[t].server = timer[t].server
          /\ \A u \in Timers \ {t} : timer'[u] = timer[u]
      <3>1. timer[t] \in GoodTasks
        BY <1>3
      <3> QED
        BY <1>3, <1>4, <3>1 DEF GoodTasks
    <2>2. Reachable'
      BY <1>4, <2>1 DEF SerialInv, Reachable
    <2>3. Deserted'
      BY <1>0, <1>4, <2>1 DEF SerialInv, Deserted
    <2>4. ToArm'
      BY <1>0, <1>4 DEF SerialInv, ToArm
    <2> QED
      BY <1>1, <1>2, <2>2, <2>3, <2>4 DEF SerialInv
  <1>5. ASSUME NEW t \in Timers, Fire(t) PROVE SerialInv'
    BY <1>4, <1>5 DEF Fire
  <1>6. ASSUME NEW t \in Timers, StopServer(t) PROVE SerialInv'
    BY <1>4, <1>6 DEF StopServer
  <1>7. ASSUME NEW t \in Timers, Forget(t) PROVE SerialInv'
    <2>1. /\ timer'[t] = NoTimer /\ \A u \in Timers \ {t} : timer'[u] = timer[u]
          /\ timer[t].pc = "forget"
      BY <1>3, <1>7 DEF Forget
    <2>2. timer[t].server \in Servers
      BY <2>1 DEF SerialInv, Reachable
    <2>3. /\ stopTimers'[timer[t].server] = None
          /\ \A r \in Servers \ {timer[t].server} : stopTimers'[r] = stopTimers[r]
      BY <1>3, <1>7, <2>2 DEF Forget
    <2>4. \A u \in Timers \ {t} : timer[u].pc # "free" => timer[u].server # timer[t].server
      BY <2>1 DEF SerialInv, Reachable
    <2>5. Reachable'
      BY <2>1, <2>3, <2>4 DEF SerialInv, Reachable, NoTimer
    <2>6. Deserted'
      BY <1>0, <2>1 DEF SerialInv, Deserted, NoTimer
    <2>7. \A p \in Players : conn[p].pc = "idle" /\ disc[p].pc = "idle"
      BY <2>1 DEF SerialInv, Sole, Runs, Connecting, Leaving
    <2>8. ToArm'
      BY <1>0, <2>7 DEF ToArm
    <2> QED
      BY <1>1, <1>2, <2>5, <2>6, <2>8 DEF SerialInv
  <1>8. CASE UNCHANGED <<stopTimers, timer>>
    <2>1. Reachable' /\ Deserted'
      BY <1>0, <1>8, TimersFrame
    <2>2. ToArm'
      BY <1>0, <1>8 DEF SerialInv, ToArm
    <2> QED
      BY <1>1, <1>2, <2>1, <2>2 DEF SerialInv
  <1> QED
    BY <1>5, <1>6, <1>7, <1>8 DEF Task, Evict, EvictStop, Start

LEMMA SerialStep ==
  AutoStopAssumption /\ IInv /\ (serial => SerialInv) /\ [MCNext]_MCVars
    => (serial => SerialInv)'
  <1> SUFFICES ASSUME AutoStopAssumption, IInv, serial', serial => SerialInv, [MCNext]_MCVars
               PROVE  SerialInv'
    OBVIOUS
  <1>1. CASE UNCHANGED MCVars
    BY <1>1 DEF MCVars, vars, SerialInv, Sole, Followed, On, Between, Reachable, Deserted, ToArm,
         Connecting, Leaving, Runs
  <1>2. CASE MCNext
    <2>1. SerialInv /\ Next /\ \A a, b \in Busy' : a = b
      BY <1>2 DEF MCNext
    <2>2. Sole'
      <3>1. (\A a, b \in Busy : a = b)'
        BY <2>1
      <3> QED
        BY <3>1, SoleBusy, PTL
    <2> QED
      BY <2>1, <2>2, SessionSerial, ConnectedSerial, DisconnectedSerial, TaskSerial DEF Next
  <1> QED
    BY <1>1, <1>2

\* The serial behaviours of MCAutoStop.
THEOREM SerialInvariance == MCSpec => [](IInv /\ (serial => SerialInv))
  <1>1. AutoStopAssumption /\ MCInit => IInv /\ (serial => SerialInv)
    BY InitInv, SerialInit DEF MCInit
  <1>2. [MCNext]_MCVars => [Next]_vars
    BY DEF MCNext, MCVars
  <1> QED
    BY <1>1, <1>2, StepInv, SerialStep, AutoStopAssumption, PTL DEF MCSpec

\* One event at a time, whenever no handler is at work serverPlayers is where
\* the players are, and a pending task is one that cancelStopTimer finds, for a
\* server nobody is on.
THEOREM SerialReportsHolds == MCSpec => []SerialReports
  <1>1. IInv /\ (serial => SerialInv) => SerialReports
    <2> SUFFICES ASSUME IInv, SerialInv, Busy = {} PROVE TrackedIsActual /\ TimersInReach
      BY DEF SerialReports, SerialTrackedIsActual, SerialTimersInReach
    <2>1. \A p \in Players : conn[p].pc = "idle" /\ disc[p].pc = "idle"
      BY DEF Busy
    <2>2. \A p \in Players, s \in Servers : p \in tracked[s] <=> at[p] = s
      BY <2>1 DEF SerialInv, Followed, On
    <2>3. TrackedIsActual
      BY <2>2 DEF TrackedIsActual, IInv, PlacesOK
    <2>4. TimersInReach
      BY <2>1, <2>2 DEF TimersInReach, SerialInv, Reachable, Deserted
    <2> QED
      BY <2>3, <2>4
  <1> QED
    BY <1>1, SerialInvariance, PTL

\* One event at a time, a stop task that has found its server empty stops it
\* empty.
THEOREM SerialStopsIdleOnlyHolds == MCSpec => SerialStopsIdleOnly
  <1>1. IInv /\ (serial => SerialInv) => (serial => \A t \in Timers : ~StopsOccupied(t))
    <2> SUFFICES ASSUME SerialInv, NEW t \in Timers, StopsOccupied(t) PROVE FALSE
      OBVIOUS
    <2>1. PICK p \in Players : at[p] = timer[t].server /\ timer[t].pc = "stop"
      BY DEF StopsOccupied
    <2>2. conn[p].pc = "idle" /\ disc[p].pc = "idle" /\ timer[t].server \in Servers
      BY <2>1 DEF SerialInv, Sole, Runs, Connecting, Leaving, Reachable
    <2>3. p \in tracked[timer[t].server]
      BY <2>1, <2>2 DEF SerialInv, Followed, On
    <2> QED
      BY <2>1, <2>2, <2>3 DEF SerialInv, Deserted
  <1> QED
    BY <1>1, SerialInvariance, PTL DEF SerialStopsIdleOnly

=============================================================================
