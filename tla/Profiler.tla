------------------------------ MODULE Profiler ------------------------------
(***************************************************************************)
(* Spark's profiler, started and stopped over RCON (spark/service.go,      *)
(* rcon/).  A stop waits for the address of the report, which the game     *)
(* prints into its log and the reader of that log (logmanager.go) hands    *)
(* over a channel.  One server and one proxy, which have the same number.  *)
(***************************************************************************)
EXTENDS Naturals, Sequences, FiniteSets

CONSTANTS
    MaxRequests,    \* bound: requests ever made, one goroutine each
    ProfUsers,      \* what happens in one behaviour: requests made, whether
                    \* they overlap, restarts of games, other reports in the log
    ProfNone

ProfRequests == 1 .. MaxRequests

ASSUME ProfAssumption ==
    /\ MaxRequests \in Nat /\ ProfNone \notin ProfRequests
    /\ ProfNone \notin [url : 0 .. MaxRequests, chan : ProfRequests]
    /\ ProfUsers \subseteq [most : 0 .. MaxRequests, overlap : BOOLEAN,
                            restarts : Nat, others : Nat]

VARIABLES
    pc,           \* by request
    kind, target, \* what it asks: "start" or "stop", of "server" or "proxy"
    urlChan,      \* by stop request, the channel it waits on
    result,       \* by request, the address it answers with
    pendingURLs,  \* pendingProfilerURLs: whose channel waits under the number
    poolLock, clientLock,
    connections,  \* by target, the run of the game the pooled connection is to
    game,         \* by target: its run, whether it is up, whether it profiles
    uploads,      \* by target, reports on their way to the log
    logLines,     \* the server's log: addresses nobody read yet
    reader,       \* address and channel the log's reader holds
    panicked,     \* a send on a closed channel took the manager down
    profUsers,
    stopped,      \* history: requests that stopped a running profile
    mixed         \* history: requests overlapped, an answer came after the
                  \* wait, or the log held another report

chanVars == <<urlChan, pendingURLs>>
rconVars == <<poolLock, clientLock, connections>>
gameVars == <<game, uploads, logLines>>
askVars == <<kind, target>>
profVars == <<pc, askVars, chanVars, rconVars, gameVars, result, reader, panicked,
              profUsers, stopped, mixed>>

Targets == {"server", "proxy"}

Other == 0   \* the address of a report no request asked for

(* Requests whose report is still to be read. *)
OnTheWay ==
    uploads["server"] \cup {logLines[i] : i \in DOMAIN logLines}
    \cup (IF reader = ProfNone THEN {} ELSE {reader.url})
    \cup {urlChan[r].buffer : r \in ProfRequests}

Active(r) == pc[r] \notin {"new", "done"}

Asked == {r \in ProfRequests : pc[r] # "new"}

Goto(r, l) == pc' = [pc EXCEPT ![r] = l]

Answer(r, url) == result' = [result EXCEPT ![r] = url]

(* A stop defers CancelProfilerURLWait. *)
Leaving(r) == IF kind[r] = "stop" THEN "cancel" ELSE "done"

-----------------------------------------------------------------------------
(* WaitForProfilerURL, CancelProfilerURLWait and the log's reader *)

(* Start- and StopServerProfiler, Start- and StopProxyProfiler. *)
Ask(r, k, t) ==
    /\ Asked = 1 .. r - 1 /\ r <= profUsers.most
    /\ profUsers.overlap \/ \A q \in Asked : pc[q] = "done"
    /\ kind' = [kind EXCEPT ![r] = k] /\ target' = [target EXCEPT ![r] = t]
    /\ Goto(r, IF k = "stop" THEN "wait" ELSE "pool")
    /\ mixed' = (mixed \/ \E q \in ProfRequests : Active(q))
    /\ UNCHANGED <<chanVars, rconVars, gameVars, result, reader, panicked, profUsers, stopped>>

WaitForProfilerURL(r) ==
    /\ pc[r] = "wait"
    /\ pendingURLs' = r
    /\ Goto(r, "pool")
    /\ UNCHANGED <<askVars, urlChan, rconVars, gameVars, result, reader, panicked, profUsers,
                   stopped, mixed>>

CancelProfilerURLWait(r) ==
    /\ pc[r] = "cancel"
    /\ IF pendingURLs = ProfNone THEN UNCHANGED chanVars
       ELSE /\ urlChan' = [urlChan EXCEPT ![pendingURLs].closed = TRUE]
            /\ pendingURLs' = ProfNone
    /\ Goto(r, "done")
    /\ UNCHANGED <<askVars, rconVars, gameVars, result, reader, panicked, profUsers, stopped,
                   mixed>>

(* BroadcastLog up to the lookup in broadcastProfilerURL: the channel found *)
(* is used after the lock is released.                                      *)
ReadLine ==
    /\ reader = ProfNone /\ logLines # <<>>
    /\ logLines' = Tail(logLines)
    /\ reader' = IF pendingURLs = ProfNone THEN ProfNone
                 ELSE [url |-> Head(logLines), chan |-> pendingURLs]
    /\ UNCHANGED <<pc, askVars, chanVars, rconVars, game, uploads, result, panicked,
                   profUsers, stopped, mixed>>

(* Mutant: the channel has no buffer. *)
DeliverUnbuffered ==
    /\ reader # ProfNone /\ reader' = ProfNone
    /\ panicked' = urlChan[reader.chan].closed
    /\ IF urlChan[reader.chan].buffer = ProfNone /\ ~panicked' /\ pc[reader.chan] = "select"
       THEN urlChan' = [urlChan EXCEPT ![reader.chan].buffer = reader.url]
       ELSE UNCHANGED urlChan
    /\ UNCHANGED <<pc, askVars, pendingURLs, rconVars, gameVars, result, profUsers, stopped, mixed>>

Deliver ==
    /\ reader # ProfNone /\ reader' = ProfNone
    /\ panicked' = urlChan[reader.chan].closed
    /\ IF urlChan[reader.chan].buffer = ProfNone /\ ~panicked'
       THEN urlChan' = [urlChan EXCEPT ![reader.chan].buffer = reader.url]
       ELSE UNCHANGED urlChan
    /\ UNCHANGED <<pc, askVars, pendingURLs, rconVars, gameVars, result, profUsers, stopped, mixed>>

-----------------------------------------------------------------------------
(* Pool.GetConnection and Client.SendCommand *)

LockPool(r) ==
    /\ pc[r] = "pool" /\ poolLock = ProfNone
    /\ poolLock' = r
    /\ Goto(r, "look")
    /\ UNCHANGED <<askVars, chanVars, clientLock, connections, gameVars, result, reader,
                   panicked, profUsers, stopped, mixed>>

(* IsConnected takes the client's lock and tells of no connection it was   *)
(* not told to close; without a client the pool connects one.              *)
GetConnection(r) ==
    LET t == target[r] IN
    /\ pc[r] = "look" /\ poolLock' = ProfNone
    /\ \/ /\ connections[t] # ProfNone /\ clientLock[t] = ProfNone
          /\ Goto(r, "send") /\ UNCHANGED connections
       \/ /\ connections[t] = ProfNone /\ game[t].up
          /\ connections' = [connections EXCEPT ![t] = game[t].run]
          /\ Goto(r, "send")
       \/ /\ connections[t] = ProfNone
          /\ Goto(r, Leaving(r)) /\ UNCHANGED connections
    /\ UNCHANGED <<askVars, chanVars, clientLock, gameVars, result, reader, panicked,
                   profUsers, stopped, mixed>>

LockClient(r) ==
    /\ pc[r] = "send" /\ clientLock[target[r]] = ProfNone
    /\ clientLock' = [clientLock EXCEPT ![target[r]] = r]
    /\ Goto(r, "command")
    /\ UNCHANGED <<askVars, chanVars, poolLock, connections, gameVars, result, reader,
                   panicked, profUsers, stopped, mixed>>

(* The game carries a command out; stopping starts an upload. *)
Obeys(r) ==
    LET t == target[r] IN
    /\ game' = [game EXCEPT ![t].profiles = kind[r] = "start"]
    /\ IF kind[r] = "stop" /\ game[t].profiles
       THEN /\ uploads' = [uploads EXCEPT ![t] = @ \cup {r}]
            /\ stopped' = stopped \cup {r}
       ELSE UNCHANGED <<uploads, stopped>>
    /\ UNCHANGED logLines

Reached(r) ==
    /\ game[target[r]].up /\ connections[target[r]] = game[target[r]].run

(* The command is written; a dead connection loses it, a game that hangs    *)
(* carries it out or not.                                                   *)
SendCommand(r) ==
    /\ pc[r] = "command"
    /\ \/ Reached(r) /\ Obeys(r)
       \/ UNCHANGED <<gameVars, stopped>>
    /\ Goto(r, "reply")
    /\ UNCHANGED <<askVars, chanVars, rconVars, result, reader, panicked, profUsers, mixed>>

(* Mutant: a command that fails keeps the client's lock. *)
ReadReplyKeepsLock(r) ==
    /\ pc[r] = "reply"
    /\ clientLock' = [clientLock EXCEPT ![target[r]] = IF Reached(r) THEN ProfNone ELSE @]
    /\ Goto(r, IF kind[r] = "stop" THEN "select" ELSE "done")
    /\ UNCHANGED <<askVars, chanVars, poolLock, connections, gameVars, result, reader,
                   panicked, profUsers, stopped, mixed>>

(* The answer, or the deadline; a stop ignores which.  A connection that    *)
(* failed stays with its client, the client in the pool.                    *)
ReadReply(r) ==
    /\ pc[r] = "reply"
    /\ clientLock' = [clientLock EXCEPT ![target[r]] = ProfNone]
    /\ Goto(r, IF kind[r] = "stop" THEN "select" ELSE "done")
    /\ UNCHANGED <<askVars, chanVars, poolLock, connections, gameVars, result, reader,
                   panicked, profUsers, stopped, mixed>>

(* StopProfiler's select: an address, a channel closed under it, ten       *)
(* seconds.                                                                 *)
Receive(r) ==
    /\ pc[r] = "select"
    /\ urlChan[r].buffer # ProfNone \/ urlChan[r].closed
    /\ Answer(r, urlChan[r].buffer)
    /\ urlChan' = [urlChan EXCEPT ![r].buffer = ProfNone]
    /\ Goto(r, "cancel")
    /\ UNCHANGED <<askVars, pendingURLs, rconVars, gameVars, reader, panicked, profUsers, stopped, mixed>>

Timeout(r) ==
    /\ pc[r] = "select"
    /\ Goto(r, "cancel")
    /\ mixed' = (mixed \/ r \in OnTheWay)
    /\ UNCHANGED <<askVars, chanVars, rconVars, gameVars, result, reader, panicked, profUsers, stopped>>

-----------------------------------------------------------------------------
(* The games *)

(* A proxy's log is not searched for addresses. *)
Upload(t) ==
    /\ \E r \in uploads[t] :
        /\ uploads' = [uploads EXCEPT ![t] = @ \ {r}]
        /\ logLines' = IF t = "server" THEN Append(logLines, r) ELSE logLines
    /\ UNCHANGED <<pc, askVars, chanVars, rconVars, game, result, reader, panicked,
                   profUsers, stopped, mixed>>

OtherReport ==
    /\ profUsers.others > 0 /\ game["server"].up
    /\ profUsers' = [profUsers EXCEPT !.others = @ - 1]
    /\ logLines' = Append(logLines, Other) /\ mixed' = TRUE
    /\ UNCHANGED <<pc, askVars, chanVars, rconVars, game, uploads, result, reader,
                   panicked, stopped>>

Restart(t) ==
    /\ \/ /\ game[t].up /\ game' = [game EXCEPT ![t].up = FALSE, ![t].profiles = FALSE]
          /\ UNCHANGED profUsers
       \/ /\ ~game[t].up /\ profUsers.restarts > 0
          /\ game' = [game EXCEPT ![t].up = TRUE, ![t].run = @ + 1]
          /\ profUsers' = [profUsers EXCEPT !.restarts = @ - 1]
    /\ stopped' = stopped \ uploads[t]
    /\ uploads' = [uploads EXCEPT ![t] = {}]
    /\ UNCHANGED <<pc, askVars, chanVars, rconVars, logLines, result, reader, panicked, mixed>>

-----------------------------------------------------------------------------

ProfInit ==
    /\ pc = [r \in ProfRequests |-> "new"]
    /\ kind = [r \in ProfRequests |-> "start"] /\ target = [r \in ProfRequests |-> "server"]
    /\ urlChan = [r \in ProfRequests |-> [buffer |-> ProfNone, closed |-> FALSE]]
    /\ result = [r \in ProfRequests |-> ProfNone]
    /\ pendingURLs = ProfNone /\ poolLock = ProfNone
    /\ clientLock = [t \in Targets |-> ProfNone]
    /\ connections = [t \in Targets |-> ProfNone]
    /\ game = [t \in Targets |-> [run |-> 0, up |-> TRUE, profiles |-> FALSE]]
    /\ uploads = [t \in Targets |-> {}] /\ logLines = <<>> /\ reader = ProfNone
    /\ panicked = FALSE /\ profUsers \in ProfUsers /\ stopped = {} /\ mixed = FALSE

(* One request's goroutine *)
Serves(r) ==
    \/ WaitForProfilerURL(r) \/ LockPool(r) \/ GetConnection(r) \/ LockClient(r)
    \/ SendCommand(r) \/ ReadReply(r) \/ Receive(r) \/ Timeout(r) \/ CancelProfilerURLWait(r)

ProfNext ==
    /\ ~panicked
    /\ \/ \E r \in ProfRequests : Serves(r)
       \/ \E r \in ProfRequests, k \in {"start", "stop"}, t \in Targets : Ask(r, k, t)
       \/ ReadLine \/ Deliver
       \/ profUsers.most > 0 /\ \E t \in Targets : Upload(t) \/ Restart(t)
       \/ OtherReport

(* The scheduler runs every goroutine, dials, reads and the wait end.       *)
ProfFairness == \A r \in ProfRequests : WF_profVars(~panicked /\ Serves(r))

ProfSpec == ProfInit /\ [][ProfNext]_profVars /\ ProfFairness

-----------------------------------------------------------------------------
(* Properties *)

ProfTypeOK ==
    LET Url == ProfRequests \cup {Other, ProfNone} IN
    /\ pc \in [ProfRequests -> {"new", "wait", "pool", "look", "send", "command", "reply",
                                "select", "cancel", "done"}]
    /\ kind \in [ProfRequests -> {"start", "stop"}] /\ target \in [ProfRequests -> Targets]
    /\ urlChan \in [ProfRequests -> [buffer : Url, closed : BOOLEAN]]
    /\ result \in [ProfRequests -> Url]
    /\ {pendingURLs, poolLock} \cup {clientLock[t] : t \in Targets}
            \subseteq ProfRequests \cup {ProfNone}
    /\ reader = ProfNone \/ reader \in [url : Url, chan : ProfRequests]
    /\ panicked \in BOOLEAN /\ mixed \in BOOLEAN
    /\ \A t \in Targets : uploads[t] \subseteq ProfRequests

(* With one request at a time and reports that come within the wait, a stop *)
(* of a server's profile answers with the report of that very profile,      *)
(* wherever the line arrives between its steps, and the channel the reader  *)
(* found is never closed under it.                                          *)
SerialProfileFound ==
    /\ ProfTypeOK
    /\ ~mixed =>
        /\ ~panicked
        /\ \A r \in stopped :
              pc[r] \in {"cancel", "done"} /\ target[r] = "server" => result[r] = r

(* Every request is answered, however the pool's lock, a client's and the   *)
(* games that hang or restart hold it up.                                   *)
ProfilerEnds == \A r \in ProfRequests : Active(r) ~> (pc[r] = "done" \/ panicked)

=============================================================================
