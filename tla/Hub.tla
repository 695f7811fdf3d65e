--------------------------------- MODULE Hub ---------------------------------
(***************************************************************************)
(* The manager's WebSocket hub: one goroutine (Hub.Run) owns the client    *)
(* map and serves three channels; every client has a handler goroutine, a  *)
(* read pump, a write pump and goroutines that run its commands.           *)
(*                                                                         *)
(* Broadcasts are numbered.  sync.RWMutex is modelled with Go's rules: a   *)
(* pending writer holds off new readers, and an RUnlock that matches no    *)
(* RLock ends the process, unless a blocked reader hides the mistake.      *)
(***************************************************************************)
EXTENDS Naturals, Sequences

CONSTANTS Clients,       (* WebSocket connections                          *)
          SendCap,       (* capacity of Client.send (256 in the code)      *)
          BroadcastCap,  (* capacity of Hub.broadcast (256 in the code)    *)
          MaxMessages,   (* bound: broadcasts ever published               *)
          None           (* no client                                      *)

ASSUME HubAssumption ==
  /\ SendCap \in Nat \ {0}
  /\ BroadcastCap \in Nat \ {0}
  /\ MaxMessages \in Nat
  /\ None \notin Clients

VARIABLES
  hub,        (* Run: its place, client, message and clients still to serve *)
  clients,    (* Hub.clients                                               *)
  broadcast,  (* Hub.broadcast                                             *)
  published,  (* broadcasts published so far                               *)
  send,       (* client -> Client.send                                     *)
  closed,     (* clients whose send channel is closed                      *)
  handler,    (* client -> progress of HandleWebSocket and its ClientCount *)
  reader,     (* client -> RunReadPump                                     *)
  writer,     (* client -> RunWritePump                                    *)
  command,    (* client -> a handleCommand goroutine                       *)
  netUp,      (* clients whose TCP connection is up                        *)
  got,        (* client -> last broadcast written to its connection        *)
  fate        (* of the process: "runs", or how it ended                   *)

vars == <<hub, clients, broadcast, published, send, closed, handler, reader,
          writer, command, netUp, got, fate>>

HubSteps == {"select", "register", "unregister", "fanout", "evictClose",
             "evictLock", "evictUnlock", "frozen"}

Error == 0   (* a message of SendError; broadcasts are numbered from 1 *)

TypeOK ==
  /\ hub \in [pc : HubSteps, client : Clients \cup {None},
              msg : 0..MaxMessages, todo : SUBSET Clients]
  /\ clients \subseteq Clients
  /\ broadcast \in Seq(1..MaxMessages) /\ Len(broadcast) <= BroadcastCap
  /\ published \in 0..MaxMessages
  /\ send \in [Clients -> Seq(0..MaxMessages)]
  /\ \A c \in Clients : Len(send[c]) <= SendCap
  /\ closed \subseteq Clients
  /\ handler \in [Clients -> {"new", "register", "count", "blocked", "counting", "done"}]
  /\ reader \in [Clients -> {"off", "reading", "leaving", "done"}]
  /\ writer \in [Clients -> {"off", "writing", "done"}]
  /\ command \in [Clients -> {"none", "running", "failed"}]
  /\ netUp \subseteq Clients
  /\ got \in [Clients -> 0..MaxMessages]
  /\ fate \in {"runs", "fatal unlock", "send on closed channel"}

HubIdle == [pc |-> "select", client |-> None, msg |-> 0, todo |-> {}]

Init ==
  /\ hub = HubIdle
  /\ clients = {}
  /\ broadcast = <<>>
  /\ published = 0
  /\ send = [c \in Clients |-> <<>>]
  /\ closed = {}
  /\ handler = [c \in Clients |-> "new"]
  /\ reader = [c \in Clients |-> "off"]
  /\ writer = [c \in Clients |-> "off"]
  /\ command = [c \in Clients |-> "none"]
  /\ netUp = {}
  /\ got = [c \in Clients |-> 0]
  /\ fate = "runs"

(***************************************************************************)
(* The mutex.  Readers are the callers of ClientCount; Run is the only     *)
(* writer, and pending while it waits for them.                            *)
(***************************************************************************)
Readers == {c \in Clients : handler[c] = "counting"}

WritePending == hub.pc \in {"register", "unregister", "evictLock"}
WriteHeld    == hub.pc \in {"evictUnlock", "frozen"}

HubTo(pc, c) == hub' = [hub EXCEPT !.pc = pc, !.client = c]

Full(c) == Len(send[c]) = SendCap

Push(c, m) == send' = [send EXCEPT ![c] = Append(@, m)]

(***************************************************************************)
(* Hub.Run                                                                 *)
(***************************************************************************)
\* case client := <-h.register
TakeRegister(c) ==
  /\ hub.pc = "select"
  /\ handler[c] = "register"
  /\ HubTo("register", c)
  /\ handler' = [handler EXCEPT ![c] = "count"]
  /\ UNCHANGED <<clients, broadcast, published, send, closed, reader, writer, command, netUp, got, fate>>

\* Lock ... Unlock around the map.
Register ==
  /\ hub.pc = "register"
  /\ Readers = {}
  /\ clients' = clients \cup {hub.client}
  /\ hub' = HubIdle
  /\ UNCHANGED <<broadcast, published, send, closed, handler, reader, writer, command, netUp, got, fate>>

\* case client := <-h.unregister; the read pump then closes the connection.
TakeUnregister(c) ==
  /\ hub.pc = "select"
  /\ reader[c] = "leaving"
  /\ HubTo("unregister", c)
  /\ reader' = [reader EXCEPT ![c] = "done"]
  /\ netUp' = netUp \ {c}
  /\ UNCHANGED <<clients, broadcast, published, send, closed, handler, writer, command, got, fate>>

\* Mutant: the client is not deleted from the map.
UnregisterKeeps ==
  /\ hub.pc = "unregister"
  /\ Readers = {}
  /\ closed' = closed \cup {hub.client}
  /\ hub' = HubIdle
  /\ UNCHANGED <<clients, broadcast, published, send, handler, reader, writer, command, netUp, got, fate>>

Unregister ==
  /\ hub.pc = "unregister"
  /\ Readers = {}
  /\ closed' = closed \cup (clients \cap {hub.client})
  /\ clients' = clients \ {hub.client}
  /\ hub' = HubIdle
  /\ UNCHANGED <<broadcast, published, send, handler, reader, writer, command, netUp, got, fate>>

\* case message := <-h.broadcast, and RLock: Run is no pending writer here.
TakeBroadcast ==
  /\ hub.pc = "select"
  /\ broadcast # <<>>
  /\ hub' = [pc |-> "fanout", client |-> None, msg |-> Head(broadcast), todo |-> clients]
  /\ broadcast' = Tail(broadcast)
  /\ UNCHANGED <<clients, published, send, closed, handler, reader, writer, command, netUp, got, fate>>

\* Mutant: a client whose channel is full misses the message.
FanOutSkips(c) ==
  /\ hub.pc = "fanout"
  /\ c \in hub.todo
  /\ IF Full(c) THEN UNCHANGED send ELSE Push(c, hub.msg)
  /\ hub' = [hub EXCEPT !.todo = @ \ {c}]
  /\ UNCHANGED <<clients, broadcast, published, closed, handler, reader, writer, command, netUp, got, fate>>

\* The select in the loop: the message is queued for the client, or the read
\* lock is released to get rid of a client whose channel is full. A send on a
\* closed channel would panic.
FanOut(c) ==
  /\ hub.pc = "fanout"
  /\ c \in hub.todo
  /\ \/ /\ c \in closed
        /\ fate' = "send on closed channel"
        /\ UNCHANGED <<hub, send>>
     \/ /\ c \notin closed /\ ~Full(c)
        /\ Push(c, hub.msg)
        /\ hub' = [hub EXCEPT !.todo = @ \ {c}]
        /\ UNCHANGED fate
     \/ /\ c \notin closed /\ Full(c)
        /\ HubTo("evictClose", c)
        /\ UNCHANGED <<send, fate>>
  /\ UNCHANGED <<clients, broadcast, published, closed, handler, reader, writer, command, netUp, got>>

FanOutEnds ==
  /\ hub.pc = "fanout"
  /\ hub.todo = {}
  /\ hub' = HubIdle
  /\ UNCHANGED <<clients, broadcast, published, send, closed, handler, reader, writer, command, netUp, got, fate>>

\* The eviction: close, Lock, delete, then RUnlock of the lock held for writing.
EvictClose ==
  /\ hub.pc = "evictClose"
  /\ closed' = closed \cup {hub.client}
  /\ HubTo("evictLock", hub.client)
  /\ UNCHANGED <<clients, broadcast, published, send, handler, reader, writer, command, netUp, got, fate>>

EvictDelete ==
  /\ hub.pc = "evictLock"
  /\ Readers = {}
  /\ clients' = clients \ {hub.client}
  /\ HubTo("evictUnlock", hub.client)
  /\ UNCHANGED <<broadcast, published, send, closed, handler, reader, writer, command, netUp, got, fate>>

\* With nobody waiting the runtime notices; with a reader waiting it does not,
\* and the RLock that follows waits for ever.
EvictUnlock ==
  /\ hub.pc = "evictUnlock"
  /\ \/ /\ \A c \in Clients : handler[c] # "blocked"
        /\ fate' = "fatal unlock"
        /\ UNCHANGED hub
     \/ /\ \E c \in Clients : handler[c] = "blocked"
        /\ HubTo("frozen", hub.client)
        /\ UNCHANGED fate
  /\ UNCHANGED <<clients, broadcast, published, send, closed, handler, reader, writer, command, netUp, got>>

Run ==
  \/ \E c \in Clients : TakeRegister(c) \/ TakeUnregister(c) \/ FanOut(c)
  \/ Register \/ Unregister \/ TakeBroadcast \/ FanOutEnds
  \/ EvictClose \/ EvictDelete \/ EvictUnlock

(***************************************************************************)
(* HandleWebSocket                                                         *)
(***************************************************************************)
Connect(c) ==
  /\ handler[c] = "new"
  /\ handler' = [handler EXCEPT ![c] = "register"]
  /\ netUp' = netUp \cup {c}
  /\ UNCHANGED <<hub, clients, broadcast, published, send, closed, reader, writer, command, got, fate>>

\* ClientCount's RLock: held off by a writer that is pending or holds the lock.
CountLock(c) ==
  /\ \/ /\ handler[c] = "count" /\ (WritePending \/ WriteHeld)
        /\ handler' = [handler EXCEPT ![c] = "blocked"]
     \/ /\ handler[c] \in {"count", "blocked"} /\ ~WritePending /\ ~WriteHeld
        /\ handler' = [handler EXCEPT ![c] = "counting"]
  /\ UNCHANGED <<hub, clients, broadcast, published, send, closed, reader, writer, command, netUp, got, fate>>

\* Mutant: ClientCount returns without RUnlock.
CountUnlockForgotten(c) ==
  /\ handler[c] = "counting"
  /\ reader[c] = "off"
  /\ reader' = [reader EXCEPT ![c] = "reading"]
  /\ writer' = [writer EXCEPT ![c] = "writing"]
  /\ UNCHANGED <<hub, clients, broadcast, published, send, closed, handler, command, netUp, got, fate>>

\* RUnlock; then the pumps are started. The handler itself never returns.
CountUnlock(c) ==
  /\ handler[c] = "counting"
  /\ handler' = [handler EXCEPT ![c] = "done"]
  /\ reader' = [reader EXCEPT ![c] = "reading"]
  /\ writer' = [writer EXCEPT ![c] = "writing"]
  /\ UNCHANGED <<hub, clients, broadcast, published, send, closed, command, netUp, got, fate>>

(***************************************************************************)
(* The pumps and the commands                                              *)
(***************************************************************************)
\* A command message starts a goroutine. Bound: one at a time per client.
ReadCommand(c) ==
  /\ reader[c] = "reading"
  /\ c \in netUp
  /\ command[c] = "none"
  /\ command' = [command EXCEPT ![c] = "running"]
  /\ UNCHANGED <<hub, clients, broadcast, published, send, closed, handler, reader, writer, netUp, got, fate>>

ReadFails(c) ==
  /\ reader[c] = "reading"
  /\ c \notin netUp
  /\ reader' = [reader EXCEPT ![c] = "leaving"]
  /\ UNCHANGED <<hub, clients, broadcast, published, send, closed, handler, writer, command, netUp, got, fate>>

\* A closed and drained channel, or a failed write, ends the pump, which closes
\* the connection.
Write(c) ==
  /\ writer[c] = "writing"
  /\ \/ /\ send[c] # <<>>
        /\ send' = [send EXCEPT ![c] = Tail(@)]
        /\ \/ /\ c \in netUp
              /\ got' = [got EXCEPT ![c] = IF Head(send[c]) = Error THEN @ ELSE Head(send[c])]
              /\ UNCHANGED <<writer, netUp>>
           \/ /\ c \notin netUp
              /\ writer' = [writer EXCEPT ![c] = "done"]
              /\ UNCHANGED <<got, netUp>>
     \/ /\ send[c] = <<>> /\ c \in closed
        /\ writer' = [writer EXCEPT ![c] = "done"]
        /\ netUp' = netUp \ {c}
        /\ UNCHANGED <<send, got>>
  /\ UNCHANGED <<hub, clients, broadcast, published, closed, handler, reader, command, fate>>

CommandEnds(c) ==
  /\ command[c] = "running"
  /\ \E step \in {"none", "failed"} : command' = [command EXCEPT ![c] = step]
  /\ UNCHANGED <<hub, clients, broadcast, published, send, closed, handler, reader, writer, netUp, got, fate>>

\* SendError: waits for room in the channel, panics when it is closed.
SendError(c) ==
  /\ command[c] = "failed"
  /\ \/ /\ c \in closed
        /\ fate' = "send on closed channel"
        /\ UNCHANGED <<send, command>>
     \/ /\ c \notin closed /\ ~Full(c)
        /\ Push(c, Error)
        /\ command' = [command EXCEPT ![c] = "none"]
        /\ UNCHANGED fate
  /\ UNCHANGED <<hub, clients, broadcast, published, closed, handler, reader, writer, netUp, got>>

(***************************************************************************)
(* Outside the hub                                                          *)
(***************************************************************************)
\* Hub.Broadcast, called by the log streams, the event monitor and backups.
Broadcast ==
  /\ published < MaxMessages
  /\ Len(broadcast) < BroadcastCap
  /\ published' = published + 1
  /\ broadcast' = Append(broadcast, published + 1)
  /\ UNCHANGED <<hub, clients, send, closed, handler, reader, writer, command, netUp, got, fate>>

NetFails(c) ==
  /\ c \in netUp
  /\ netUp' = netUp \ {c}
  /\ UNCHANGED <<hub, clients, broadcast, published, send, closed, handler, reader, writer, command, got, fate>>

-------------------------------------------------------------------------------
Client(c) ==
  \/ Connect(c) \/ CountLock(c) \/ CountUnlock(c) \/ ReadCommand(c) \/ ReadFails(c)
  \/ Write(c) \/ CommandEnds(c) \/ SendError(c) \/ NetFails(c)

\* A process that has ended takes no step.
Next == fate = "runs" /\ (Run \/ Broadcast \/ \E c \in Clients : Client(c))

\* The goroutines are scheduled; clients may be slow or silent, so writes to
\* their connections and their messages are owed nothing.
Fairness ==
  /\ WF_vars(fate = "runs" /\ Run)
  /\ \A c \in Clients :
       /\ WF_vars(fate = "runs" /\ (CountLock(c) \/ CountUnlock(c)))
       /\ WF_vars(fate = "runs" /\ ReadFails(c))

Spec == Init /\ [][Next]_vars
FairSpec == Spec /\ Fairness

(***************************************************************************)
(* Properties                                                              *)
(***************************************************************************)
\* What Hub.Run sends on is open: only the client it is about to delete is
\* registered with a closed channel (unregister's presence test, the eviction).
RegisteredIsOpen ==
  \A c \in clients \cap closed : hub.pc = "evictLock" /\ hub.client = c

\* The channels the hub sends on, with the types of the variables.
HubInv == TypeOK /\ RegisteredIsOpen

\* What is on its way to client c, after the last broadcast written to it.
InFlight(c) == [i \in 0..Len(send[c]) |-> IF i = 0 THEN got[c] ELSE send[c][i]]

\* Broadcasts i and j of line f, between which there are errors only.
Consecutive(f, i, j) ==
  /\ i < j /\ f[i] # Error /\ f[j] # Error
  /\ \A k \in DOMAIN f : i < k /\ k < j => f[k] = Error

Gapless(f) == \A i, j \in DOMAIN f : Consecutive(f, i, j) => f[j] = f[i] + 1

\* A client whose write pump runs gets every broadcast from its first one on, in
\* order: Hub.Run drops a slow client, it never leaves out a message for it.
NoGaps == \A c \in Clients : writer[c] # "done" => Gapless(InFlight(c))

\* The hub has lost its lock for ever.
Dead == fate # "runs" \/ hub.pc = "frozen"

\* Broadcasts are handed on and clients that leave are let go for as long as
\* the hub lives: no order of registrations, counts and messages blocks it.
HubServes ==
  /\ broadcast # <<>> ~> broadcast = <<>> \/ Dead
  /\ \A c \in Clients : reader[c] = "leaving" ~> reader[c] = "done" \/ Dead

\* PROGRESS.md: "WebSocket integration for real-time updates". No client makes
\* the manager end or its hub stop.
HubSurvives == ~Dead

===============================================================================
