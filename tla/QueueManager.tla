----------------------------- MODULE QueueManager -----------------------------
(***************************************************************************)
(* DemiDynamic's QueueManager, one ConcurrentHashMap operation per step.   *)
(* playerQueues says which server a player waits for; waitingPlayers is    *)
(* the reverse index, a map from a server to a concurrent set of players.  *)
(* The set is an object of its own: a thread that has fetched it keeps     *)
(* using it after the map has dropped it, so sets have identities here.    *)
(*                                                                         *)
(* Threads are the Velocity event and scheduler threads that call          *)
(* addToQueue, removeFromQueue and, through /cancel, isQueueEmpty and      *)
(* clearQueue.                                                             *)
(***************************************************************************)
EXTENDS FiniteSets

CONSTANTS Players,   (* proxy players                                      *)
          Servers,   (* servers a player can wait for                      *)
          Threads,   (* threads of the proxy                               *)
          SetIds,    (* identities of the concurrent sets                  *)
          None       (* Java's null                                        *)

ASSUME NoneIsFresh == None \notin Servers \cup SetIds \cup Players

VARIABLES
  playerQueues,    (* player -> target server of the QueueEntry, or None   *)
  waitingPlayers,  (* server -> identity of its set, or None               *)
  members,         (* identity -> players in that set                      *)
  pc,              (* thread -> next step                                  *)
  op,              (* thread -> the operation it runs                      *)
  who,             (* thread -> the player it works for                    *)
  srv,             (* thread -> the server it works on                     *)
  aim,             (* thread -> the target /cancel has read                *)
  ref,             (* thread -> the set it has fetched                     *)
  todo             (* thread -> players clearQueue's iteration must meet   *)

vars == <<playerQueues, waitingPlayers, members, pc, op, who, srv, aim, ref,
          todo>>

Steps == {"idle", "putEntry", "fetchSet", "addMember",
          "readTarget", "dropEntry", "getSet", "dropMember", "testEmpty",
          "dropSet", "emptyGet", "emptyTest", "clearDrop", "clearEach"}

TypeOK ==
  /\ playerQueues \in [Players -> Servers \cup {None}]
  /\ waitingPlayers \in [Servers -> SetIds \cup {None}]
  /\ members \in [SetIds -> SUBSET Players]
  /\ pc \in [Threads -> Steps]
  /\ op \in [Threads -> {"add", "remove", "cancel", None}]
  /\ who \in [Threads -> Players \cup {None}]
  /\ srv \in [Threads -> Servers \cup {None}]
  /\ aim \in [Threads -> Servers \cup {None}]
  /\ ref \in [Threads -> SetIds \cup {None}]
  /\ todo \in [Threads -> SUBSET Players]

Init ==
  /\ playerQueues = [p \in Players |-> None]
  /\ waitingPlayers = [s \in Servers |-> None]
  /\ members = [i \in SetIds |-> {}]
  /\ pc = [t \in Threads |-> "idle"]
  /\ op = [t \in Threads |-> None]
  /\ who = [t \in Threads |-> None]
  /\ srv = [t \in Threads |-> None]
  /\ aim = [t \in Threads |-> None]
  /\ ref = [t \in Threads |-> None]
  /\ todo = [t \in Threads |-> {}]

(***************************************************************************)
(* Helpers                                                                 *)
(***************************************************************************)
Goto(t, step) == pc' = [pc EXCEPT ![t] = step]

\* A thread that returns drops its locals.
Return(t) ==
  /\ Goto(t, "idle")
  /\ op' = [op EXCEPT ![t] = None]
  /\ who' = [who EXCEPT ![t] = None]
  /\ srv' = [srv EXCEPT ![t] = None]
  /\ aim' = [aim EXCEPT ![t] = None]
  /\ ref' = [ref EXCEPT ![t] = None]
  /\ todo' = [todo EXCEPT ![t] = {}]

KeepLocals == UNCHANGED <<op, who, srv, aim, ref, todo>>

\* removeFromQueue returns to its caller: /cancel goes on to isQueueEmpty, for
\* the target it has read itself.
AfterRemove(t) ==
  IF op[t] = "cancel"
  THEN /\ Goto(t, "emptyGet")
       /\ srv' = [srv EXCEPT ![t] = aim[t]]
       /\ UNCHANGED <<op, who, aim, ref, todo>>
  ELSE Return(t)

Registered(i) == \E s \in Servers : waitingPlayers[s] = i

\* An identity nobody can reach stands for a set that is not allocated.
Free(i) == ~Registered(i) /\ \A t \in Threads : ref[t] # i

(***************************************************************************)
(* addToQueue                                                               *)
(***************************************************************************)
CallAdd(t, p, s) ==
  /\ pc[t] = "idle"
  /\ Goto(t, "putEntry")
  /\ op' = [op EXCEPT ![t] = "add"]
  /\ who' = [who EXCEPT ![t] = p]
  /\ srv' = [srv EXCEPT ![t] = s]
  /\ UNCHANGED <<playerQueues, waitingPlayers, members, aim, ref, todo>>

\* Mutant: put instead of putIfAbsent.
PutEntryOverwrites(t) ==
  /\ pc[t] = "putEntry"
  /\ playerQueues' = [playerQueues EXCEPT ![who[t]] = srv[t]]
  /\ Goto(t, "fetchSet")
  /\ KeepLocals
  /\ UNCHANGED <<waitingPlayers, members>>

\* putIfAbsent: a player who already waits is refused.
PutEntry(t) ==
  /\ pc[t] = "putEntry"
  /\ \/ /\ playerQueues[who[t]] # None
        /\ Return(t)
        /\ UNCHANGED playerQueues
     \/ /\ playerQueues[who[t]] = None
        /\ playerQueues' = [playerQueues EXCEPT ![who[t]] = srv[t]]
        /\ Goto(t, "fetchSet")
        /\ KeepLocals
  /\ UNCHANGED <<waitingPlayers, members>>

\* computeIfAbsent: the registered set, or a new empty one.
FetchSet(t) ==
  /\ pc[t] = "fetchSet"
  /\ \/ /\ waitingPlayers[srv[t]] # None
        /\ ref' = [ref EXCEPT ![t] = waitingPlayers[srv[t]]]
        /\ UNCHANGED <<waitingPlayers, members>>
     \/ /\ waitingPlayers[srv[t]] = None
        /\ \E i \in SetIds :
             /\ Free(i)
             /\ ref' = [ref EXCEPT ![t] = i]
             /\ waitingPlayers' = [waitingPlayers EXCEPT ![srv[t]] = i]
             /\ members' = [members EXCEPT ![i] = {}]
  /\ Goto(t, "addMember")
  /\ UNCHANGED <<playerQueues, op, who, srv, aim, todo>>

AddMember(t) ==
  /\ pc[t] = "addMember"
  /\ members' = [members EXCEPT ![ref[t]] = @ \cup {who[t]}]
  /\ Return(t)
  /\ UNCHANGED <<playerQueues, waitingPlayers>>

(***************************************************************************)
(* removeFromQueue                                                         *)
(***************************************************************************)
CallRemove(t, p) ==
  /\ pc[t] = "idle"
  /\ Goto(t, "dropEntry")
  /\ op' = [op EXCEPT ![t] = "remove"]
  /\ who' = [who EXCEPT ![t] = p]
  /\ UNCHANGED <<playerQueues, waitingPlayers, members, srv, aim, ref, todo>>

\* removeFromQueue works on the entry's own target, whatever its caller read.
DropEntry(t) ==
  /\ pc[t] = "dropEntry"
  /\ \/ /\ playerQueues[who[t]] = None
        /\ AfterRemove(t)
        /\ UNCHANGED playerQueues
     \/ /\ playerQueues[who[t]] # None
        /\ playerQueues' = [playerQueues EXCEPT ![who[t]] = None]
        /\ Goto(t, "getSet")
        /\ srv' = [srv EXCEPT ![t] = playerQueues[who[t]]]
        /\ UNCHANGED <<op, who, aim, ref, todo>>
  /\ UNCHANGED <<waitingPlayers, members>>

GetSet(t) ==
  /\ pc[t] = "getSet"
  /\ \/ /\ waitingPlayers[srv[t]] = None
        /\ AfterRemove(t)
     \/ /\ waitingPlayers[srv[t]] # None
        /\ ref' = [ref EXCEPT ![t] = waitingPlayers[srv[t]]]
        /\ Goto(t, "dropMember")
        /\ UNCHANGED <<op, who, srv, aim, todo>>
  /\ UNCHANGED <<playerQueues, waitingPlayers, members>>

\* Mutant: the player stays in the set.
DropMemberForgotten(t) ==
  /\ pc[t] = "dropMember"
  /\ Goto(t, "testEmpty")
  /\ KeepLocals
  /\ UNCHANGED <<playerQueues, waitingPlayers, members>>

DropMember(t) ==
  /\ pc[t] = "dropMember"
  /\ members' = [members EXCEPT ![ref[t]] = @ \ {who[t]}]
  /\ Goto(t, "testEmpty")
  /\ KeepLocals
  /\ UNCHANGED <<playerQueues, waitingPlayers>>

\* Mutant: an emptied set stays registered.
TestEmptyLeaks(t) ==
  /\ pc[t] = "testEmpty"
  /\ AfterRemove(t)
  /\ UNCHANGED <<playerQueues, waitingPlayers, members>>

TestEmpty(t) ==
  /\ pc[t] = "testEmpty"
  /\ \/ /\ members[ref[t]] = {}
        /\ Goto(t, "dropSet")
        /\ KeepLocals
     \/ /\ members[ref[t]] # {}
        /\ AfterRemove(t)
  /\ UNCHANGED <<playerQueues, waitingPlayers, members>>

\* remove(key): whatever set is registered by now is unregistered.
DropSet(t) ==
  /\ pc[t] = "dropSet"
  /\ waitingPlayers' = [waitingPlayers EXCEPT ![srv[t]] = None]
  /\ AfterRemove(t)
  /\ UNCHANGED <<playerQueues, members>>

(***************************************************************************)
(* /cancel: read the target, removeFromQueue, isQueueEmpty, clearQueue.    *)
(* Only a player who is in some queue gets past the command's first test.  *)
(***************************************************************************)
CallCancel(t, p) ==
  /\ pc[t] = "idle"
  /\ playerQueues[p] # None
  /\ Goto(t, "readTarget")
  /\ op' = [op EXCEPT ![t] = "cancel"]
  /\ who' = [who EXCEPT ![t] = p]
  /\ UNCHANGED <<playerQueues, waitingPlayers, members, srv, aim, ref, todo>>

ReadTarget(t) ==
  /\ pc[t] = "readTarget"
  /\ aim' = [aim EXCEPT ![t] = playerQueues[who[t]]]
  /\ Goto(t, "dropEntry")
  /\ UNCHANGED <<playerQueues, waitingPlayers, members, op, who, srv, ref, todo>>

\* isQueueEmpty, first half: fetch the set. Without a set the queue is empty;
\* without a target (the entry went first) the lookup of null throws.
EmptyGet(t) ==
  /\ pc[t] = "emptyGet"
  /\ \/ srv[t] = None /\ Return(t)
     \/ /\ srv[t] # None
        /\ waitingPlayers[srv[t]] = None
        /\ Goto(t, "clearDrop")
        /\ KeepLocals
     \/ /\ srv[t] # None
        /\ waitingPlayers[srv[t]] # None
        /\ ref' = [ref EXCEPT ![t] = waitingPlayers[srv[t]]]
        /\ Goto(t, "emptyTest")
        /\ UNCHANGED <<op, who, srv, aim, todo>>
  /\ UNCHANGED <<playerQueues, waitingPlayers, members>>

\* isQueueEmpty, second half.
EmptyTest(t) ==
  /\ pc[t] = "emptyTest"
  /\ \/ members[ref[t]] = {} /\ Goto(t, "clearDrop") /\ KeepLocals
     \/ members[ref[t]] # {} /\ Return(t)
  /\ UNCHANGED <<playerQueues, waitingPlayers, members>>

\* clearQueue: unregister the set, then drop the entries of its players.
ClearDrop(t) ==
  /\ pc[t] = "clearDrop"
  /\ waitingPlayers' = [waitingPlayers EXCEPT ![srv[t]] = None]
  /\ \/ /\ waitingPlayers[srv[t]] = None
        /\ Return(t)
     \/ /\ waitingPlayers[srv[t]] # None
        /\ ref' = [ref EXCEPT ![t] = waitingPlayers[srv[t]]]
        /\ todo' = [todo EXCEPT ![t] = members[waitingPlayers[srv[t]]]]
        /\ Goto(t, "clearEach")
        /\ UNCHANGED <<op, who, srv, aim>>
  /\ UNCHANGED <<playerQueues, members>>

\* The iteration is weakly consistent: it meets the players who were in the set
\* from the start, and those who joined meanwhile or not.
ClearEach(t) ==
  /\ pc[t] = "clearEach"
  /\ \/ \E p \in members[ref[t]] \cup todo[t] :
          /\ playerQueues' = [playerQueues EXCEPT ![p] = None]
          /\ todo' = [todo EXCEPT ![t] = @ \ {p}]
          /\ UNCHANGED <<pc, op, who, srv, aim, ref>>
     \/ /\ todo[t] \cap members[ref[t]] = {}
        /\ Return(t)
        /\ UNCHANGED playerQueues
  /\ UNCHANGED <<waitingPlayers, members>>

Next ==
  \E t \in Threads :
    \/ \E p \in Players, s \in Servers : CallAdd(t, p, s)
    \/ PutEntry(t) \/ FetchSet(t) \/ AddMember(t)
    \/ \E p \in Players : CallRemove(t, p)
    \/ DropEntry(t) \/ GetSet(t) \/ DropMember(t) \/ TestEmpty(t) \/ DropSet(t)
    \/ \E p \in Players : CallCancel(t, p)
    \/ ReadTarget(t) \/ EmptyGet(t) \/ EmptyTest(t)
    \/ ClearDrop(t) \/ ClearEach(t)

Spec == Init /\ [][Next]_vars

(***************************************************************************)
(* Properties                                                              *)
(***************************************************************************)
Waiting(s) == IF waitingPlayers[s] = None THEN {} ELSE members[waitingPlayers[s]]

EntriesFor(s) == {p \in Players : playerQueues[p] = s}

Quiet == \A t \in Threads : pc[t] = "idle"

\* playerQueues alone is a waiting queue: whatever the threads do to it, each
\* step lets one player in who waited nowhere or lets one player out
\* (QueueManager.addToQueue's putIfAbsent, removeFromQueue's remove).
Map == INSTANCE WaitQueue WITH queue <- playerQueues
EntriesAreAQueue == Map!Spec

\* When nothing is running, the two maps of QueueManager describe the same
\* queues.
MapsAgree == Quiet => \A s \in Servers : Waiting(s) = EntriesFor(s)

\* No empty set stays registered once every call has returned: the threads
\* that can leave one behind are about to fill or to unregister it
\* (removeFromQueue's "if (queue.isEmpty()) waitingPlayers.remove").
NoEmptySetLeft ==
  Quiet => \A s \in Servers : waitingPlayers[s] # None => Waiting(s) # {}

\* What holds of the queues under every interleaving (NoEmptySetLeft), with the
\* types of the variables.
QueueInv == TypeOK /\ NoEmptySetLeft

\* A player whose addToQueue has returned.
Settled(p) ==
  /\ playerQueues[p] # None
  /\ \A t \in Threads : who[t] = p => pc[t] \notin {"fetchSet", "addMember"}

SomebodyWaits(s) == \E p \in EntriesFor(s) : Settled(p)

\* isQueueEmpty answers TRUE to /cancel.
BelievesEmpty(t) == pc[t] # "clearDrop" /\ pc'[t] = "clearDrop"

===============================================================================
