-------------------------- MODULE QueueManagerProofs --------------------------
(***************************************************************************)
(* Proofs about QueueManager, for any players, servers and threads.        *)
(*                                                                         *)
(* NoEmptySetLeft is not inductive: it says nothing while calls run.  The  *)
(* invariant names, for every empty registered set, the thread that is     *)
(* about to fill or to unregister it; to know that a thread which emptied  *)
(* a set unregisters that same set it also says that a set is registered   *)
(* for one server only, and for the server its holders fetched it from.    *)
(*                                                                         *)
(* For serial behaviours (MCQueueManager) a second invariant, SerialInv,   *)
(* says by how much the two maps differ while the one thread inside works. *)
(***************************************************************************)
EXTENDS MCQueueManager, TLAPS

\* What a thread's locals hold at each step.
LocalsOK ==
  \A t \in Threads :
    /\ pc[t] \in {"putEntry", "fetchSet", "addMember", "readTarget", "dropEntry",
                  "getSet", "dropMember", "testEmpty", "dropSet"}
         => who[t] \in Players
    /\ pc[t] \in {"putEntry", "fetchSet", "addMember", "getSet", "dropMember",
                  "testEmpty", "dropSet", "emptyTest", "clearDrop", "clearEach"}
         => srv[t] \in Servers
    /\ pc[t] \in {"addMember", "dropMember", "testEmpty", "dropSet",
                  "emptyTest", "clearEach"}
         => ref[t] \in SetIds

\* A set is registered for one server.
OneServerPerSet ==
  \A s, r \in Servers :
    waitingPlayers[s] # None /\ waitingPlayers[s] = waitingPlayers[r] => s = r

\* A thread that removes its player from a set works on the set's server.
HolderKnowsServer ==
  \A t \in Threads, s \in Servers :
    /\ pc[t] \in {"dropMember", "testEmpty", "dropSet"}
    /\ waitingPlayers[s] = ref[t]
    => srv[t] = s

\* The thread that will fill, or unregister, an empty registered set.
Caretaker(t, s) ==
  /\ ref[t] = waitingPlayers[s]
  /\ \/ pc[t] = "addMember"
     \/ pc[t] \in {"testEmpty", "dropSet"} /\ srv[t] = s

EmptySetHasCaretaker ==
  \A s \in Servers :
    waitingPlayers[s] # None /\ members[waitingPlayers[s]] = {}
      => \E t \in Threads : Caretaker(t, s)

IInv ==
  /\ TypeOK
  /\ LocalsOK
  /\ OneServerPerSet
  /\ HolderKnowsServer
  /\ EmptySetHasCaretaker

USE DEF Steps

-------------------------------------------------------------------------------
(***************************************************************************)
(* Type correctness and the locals.                                        *)
(***************************************************************************)
LEMMA TypeStep == ASSUME TypeOK, LocalsOK, [Next]_vars PROVE TypeOK' /\ LocalsOK'
<1> USE DEF TypeOK, LocalsOK, Goto, Return, KeepLocals, AfterRemove
<1>1. ASSUME NEW t \in Threads, NEW p \in Players, NEW s \in Servers, CallAdd(t, p, s)
      PROVE  TypeOK' /\ LocalsOK'
  BY <1>1, SMT DEF CallAdd
<1>2. ASSUME NEW t \in Threads, PutEntry(t) PROVE TypeOK' /\ LocalsOK'
  BY <1>2, SMT DEF PutEntry
<1>3. ASSUME NEW t \in Threads, FetchSet(t) PROVE TypeOK' /\ LocalsOK'
  BY <1>3, NoneIsFresh, SMT DEF FetchSet
<1>4. ASSUME NEW t \in Threads, AddMember(t) PROVE TypeOK' /\ LocalsOK'
  BY <1>4, SMT DEF AddMember
<1>5. ASSUME NEW t \in Threads, NEW p \in Players, CallRemove(t, p)
      PROVE  TypeOK' /\ LocalsOK'
  BY <1>5, SMT DEF CallRemove
<1>6. ASSUME NEW t \in Threads, DropEntry(t) PROVE TypeOK' /\ LocalsOK'
  BY <1>6, SMT DEF DropEntry
<1>7. ASSUME NEW t \in Threads, GetSet(t) PROVE TypeOK' /\ LocalsOK'
  BY <1>7, SMT DEF GetSet
<1>8. ASSUME NEW t \in Threads, DropMember(t) PROVE TypeOK' /\ LocalsOK'
  BY <1>8, SMT DEF DropMember
<1>9. ASSUME NEW t \in Threads, TestEmpty(t) PROVE TypeOK' /\ LocalsOK'
  BY <1>9, SMT DEF TestEmpty
<1>10. ASSUME NEW t \in Threads, DropSet(t) PROVE TypeOK' /\ LocalsOK'
  BY <1>10, SMT DEF DropSet
<1>11. ASSUME NEW t \in Threads, NEW p \in Players, CallCancel(t, p)
       PROVE  TypeOK' /\ LocalsOK'
  BY <1>11, SMT DEF CallCancel
<1>12. ASSUME NEW t \in Threads, ReadTarget(t) PROVE TypeOK' /\ LocalsOK'
  BY <1>12, SMT DEF ReadTarget
<1>13. ASSUME NEW t \in Threads, EmptyGet(t) PROVE TypeOK' /\ LocalsOK'
  BY <1>13, SMT DEF EmptyGet
<1>14. ASSUME NEW t \in Threads, EmptyTest(t) PROVE TypeOK' /\ LocalsOK'
  BY <1>14, SMT DEF EmptyTest
<1>15. ASSUME NEW t \in Threads, ClearDrop(t) PROVE TypeOK' /\ LocalsOK'
  BY <1>15, SMT DEF ClearDrop
<1>16. ASSUME NEW t \in Threads, ClearEach(t) PROVE TypeOK' /\ LocalsOK'
  BY <1>16, SMT DEF ClearEach
<1>17. CASE UNCHANGED vars
  BY <1>17 DEF vars
<1>18. QED
  BY <1>1, <1>2, <1>3, <1>4, <1>5, <1>6, <1>7, <1>8, <1>9, <1>10, <1>11, <1>12,
     <1>13, <1>14, <1>15, <1>16, <1>17 DEF Next

(***************************************************************************)
(* Registration: which set is registered where, and who holds it.          *)
(***************************************************************************)
LEMMA RegistrationStep ==
  ASSUME TypeOK, LocalsOK, OneServerPerSet, HolderKnowsServer, [Next]_vars
  PROVE  OneServerPerSet' /\ HolderKnowsServer'
<1> USE DEF TypeOK, LocalsOK, OneServerPerSet, HolderKnowsServer,
            Goto, Return, KeepLocals, AfterRemove
<1>1. ASSUME NEW t \in Threads, FetchSet(t)
      PROVE  OneServerPerSet' /\ HolderKnowsServer'
  <2>1. CASE waitingPlayers[srv[t]] # None
    BY <1>1, <2>1, SMT DEF FetchSet
  <2>2. CASE waitingPlayers[srv[t]] = None
    <3>1. PICK i \in SetIds :
            /\ Free(i)
            /\ ref' = [ref EXCEPT ![t] = i]
            /\ waitingPlayers' = [waitingPlayers EXCEPT ![srv[t]] = i]
      BY <1>1, <2>2, SMT DEF FetchSet
    <3>2. i # None /\ \A s \in Servers : waitingPlayers[s] # i
      BY <3>1, NoneIsFresh DEF Free, Registered
    <3>3. OneServerPerSet'
      BY <1>1, <3>1, <3>2, SMT DEF FetchSet
    <3>4. \A u \in Threads : u # t => ref'[u] = ref[u] /\ ref[u] # i
      BY <3>1 DEF Free
    <3>5. pc' = [pc EXCEPT ![t] = "addMember"] /\ srv' = srv
      BY <1>1 DEF FetchSet
    <3>6. HolderKnowsServer'
      BY <3>1, <3>4, <3>5, SMT
    <3>7. QED
      BY <3>3, <3>6
  <2>3. QED
    BY <2>1, <2>2
<1>2. ASSUME NEW t \in Threads, GetSet(t)
      PROVE  OneServerPerSet' /\ HolderKnowsServer'
  BY <1>2, SMT DEF GetSet
<1>3. ASSUME NEW t \in Threads, DropSet(t) \/ ClearDrop(t)
      PROVE  OneServerPerSet' /\ HolderKnowsServer'
  BY <1>3, NoneIsFresh, SMT DEF DropSet, ClearDrop
<1>4. ASSUME NEW t \in Threads,
             \/ \E p \in Players, s \in Servers : CallAdd(t, p, s)
             \/ PutEntry(t) \/ AddMember(t)
             \/ \E p \in Players : CallRemove(t, p)
             \/ DropEntry(t)
      PROVE  OneServerPerSet' /\ HolderKnowsServer'
  BY <1>4, SMT DEF CallAdd, PutEntry, AddMember, CallRemove, DropEntry
<1>5. ASSUME NEW t \in Threads,
             \/ DropMember(t) \/ TestEmpty(t)
             \/ \E p \in Players : CallCancel(t, p)
             \/ ReadTarget(t) \/ EmptyGet(t) \/ EmptyTest(t) \/ ClearEach(t)
      PROVE  OneServerPerSet' /\ HolderKnowsServer'
  BY <1>5, SMT DEF DropMember, TestEmpty, CallCancel, ReadTarget, EmptyGet,
                   EmptyTest, ClearEach
<1>6. CASE UNCHANGED vars
  BY <1>6 DEF vars
<1>7. QED
  BY <1>1, <1>2, <1>3, <1>4, <1>5, <1>6 DEF Next

(***************************************************************************)
(* Every empty registered set keeps a caretaker.                           *)
(***************************************************************************)
LEMMA CaretakerStep ==
  ASSUME IInv, [Next]_vars
  PROVE  EmptySetHasCaretaker'
<1> USE DEF IInv, TypeOK, LocalsOK, EmptySetHasCaretaker, Caretaker,
            Goto, Return, KeepLocals, AfterRemove
<1>1. ASSUME NEW t \in Threads, FetchSet(t) PROVE EmptySetHasCaretaker'
  <2> SUFFICES ASSUME NEW s \in Servers, waitingPlayers'[s] # None,
                      members'[waitingPlayers'[s]] = {}
               PROVE  \E u \in Threads : Caretaker(u, s)'
    BY DEF EmptySetHasCaretaker
  <2>1. CASE s = srv[t]
    <3>1. ref'[t] = waitingPlayers'[s] /\ pc'[t] = "addMember"
      BY <1>1, <2>1, SMT DEF FetchSet
    <3>2. QED
      BY <3>1
  <2>2. CASE s # srv[t]
    <3>1. waitingPlayers'[s] = waitingPlayers[s]
      BY <1>1, <2>2, SMT DEF FetchSet
    <3>2. members'[waitingPlayers[s]] = members[waitingPlayers[s]]
      BY <1>1, <2>2, <3>1, SMT DEF FetchSet, Free, Registered
    <3>3. PICK u \in Threads : Caretaker(u, s)
      BY <3>1, <3>2
    <3>4. u # t
      BY <1>1, <3>3 DEF FetchSet
    <3>5. Caretaker(u, s)'
      BY <1>1, <3>1, <3>3, <3>4, SMT DEF FetchSet
    <3>6. QED
      BY <3>5
  <2>3. QED
    BY <2>1, <2>2
<1>2. ASSUME NEW t \in Threads, DropMember(t) PROVE EmptySetHasCaretaker'
  <2> SUFFICES ASSUME NEW s \in Servers, waitingPlayers'[s] # None,
                      members'[waitingPlayers'[s]] = {}
               PROVE  \E u \in Threads : Caretaker(u, s)'
    BY DEF EmptySetHasCaretaker
  <2>1. waitingPlayers' = waitingPlayers /\ ref' = ref /\ srv' = srv
    BY <1>2 DEF DropMember
  <2>2. CASE waitingPlayers[s] = ref[t]
    <3>1. srv[t] = s
      BY <1>2, <2>2 DEF DropMember, HolderKnowsServer
    <3>2. pc'[t] = "testEmpty"
      BY <1>2 DEF DropMember
    <3>3. Caretaker(t, s)'
      BY <2>1, <2>2, <3>1, <3>2
    <3>4. QED
      BY <3>3
  <2>3. CASE waitingPlayers[s] # ref[t]
    <3>1. members[waitingPlayers[s]] = {}
      BY <1>2, <2>1, <2>3, SMT DEF DropMember
    <3>2. PICK u \in Threads : Caretaker(u, s)
      BY <2>1, <3>1
    <3>3. u # t
      BY <2>3, <3>2
    <3>4. Caretaker(u, s)'
      BY <1>2, <2>1, <3>2, <3>3, SMT DEF DropMember
    <3>5. QED
      BY <3>4
  <2>4. QED
    BY <2>2, <2>3
<1>3. ASSUME NEW t \in Threads,
             \/ \E p \in Players, s \in Servers : CallAdd(t, p, s)
             \/ \E p \in Players : CallRemove(t, p)
             \/ PutEntry(t) \/ DropEntry(t) \/ GetSet(t)
      PROVE  EmptySetHasCaretaker'
  BY <1>3, SMT DEF CallAdd, PutEntry, CallRemove, DropEntry, GetSet
<1>8. ASSUME NEW t \in Threads, AddMember(t) PROVE EmptySetHasCaretaker'
  <2> SUFFICES ASSUME NEW s \in Servers, waitingPlayers'[s] # None,
                      members'[waitingPlayers'[s]] = {}
               PROVE  \E u \in Threads : Caretaker(u, s)'
    BY DEF EmptySetHasCaretaker
  <2>1. waitingPlayers' = waitingPlayers /\ waitingPlayers[s] \in SetIds
    BY <1>8 DEF AddMember
  <2>2. /\ ref[t] \in SetIds
        /\ members' = [members EXCEPT ![ref[t]] = @ \cup {who[t]}]
    BY <1>8 DEF AddMember
  <2>3. waitingPlayers[s] # ref[t]
    BY <2>1, <2>2, SMT
  <2>4. members[waitingPlayers[s]] = {}
    BY <2>1, <2>2, <2>3, SMT
  <2>5. PICK u \in Threads : Caretaker(u, s)
    BY <2>1, <2>4, SMT
  <2>6. u # t
    BY <2>3, <2>5
  <2>7. Caretaker(u, s)'
    BY <1>8, <2>1, <2>5, <2>6 DEF AddMember
  <2>8. QED
    BY <2>7
<1>4. ASSUME NEW t \in Threads, TestEmpty(t) PROVE EmptySetHasCaretaker'
  BY <1>4, SMT DEF TestEmpty
<1>5. ASSUME NEW t \in Threads, DropSet(t) \/ ClearDrop(t)
      PROVE  EmptySetHasCaretaker'
  BY <1>5, NoneIsFresh, SMT DEF DropSet, ClearDrop
<1>6. ASSUME NEW t \in Threads,
             \/ \E p \in Players : CallCancel(t, p)
             \/ ReadTarget(t) \/ EmptyGet(t) \/ EmptyTest(t) \/ ClearEach(t)
      PROVE  EmptySetHasCaretaker'
  BY <1>6, SMT DEF CallCancel, ReadTarget, EmptyGet, EmptyTest, ClearEach
<1>7. CASE UNCHANGED vars
  BY <1>7 DEF vars
<1>9. QED
  BY <1>1, <1>2, <1>3, <1>4, <1>5, <1>6, <1>7, <1>8 DEF Next

-------------------------------------------------------------------------------
\* IInv holds in every reachable state of QueueManager.
THEOREM Invariance == Spec => []IInv
<1>1. Init => IInv
  BY NoneIsFresh, SMT
     DEF Init, IInv, TypeOK, LocalsOK, OneServerPerSet, HolderKnowsServer,
         EmptySetHasCaretaker
<1>2. IInv /\ [Next]_vars => IInv'
  BY TypeStep, RegistrationStep, CaretakerStep DEF IInv
<1>3. QED
  BY <1>1, <1>2, PTL DEF Spec

\* Every variable of QueueManager keeps its type.
THEOREM TypeCorrect == Spec => []TypeOK
<1>1. IInv => TypeOK
  BY DEF IInv
<1>2. QED
  BY <1>1, Invariance, PTL

\* removeFromQueue and clearQueue leave no empty set in waitingPlayers once
\* every call has returned, however the calls interleave.
THEOREM NoLeak == Spec => []NoEmptySetLeft
<1>1. IInv => NoEmptySetLeft
  BY DEF IInv, EmptySetHasCaretaker, Caretaker, NoEmptySetLeft, Quiet, Waiting
<1>2. QED
  BY <1>1, Invariance, PTL

\* Both, as the run on a small instance checks them.
THEOREM QueueInvHolds == Spec => []QueueInv
<1>1. TypeOK /\ NoEmptySetLeft => QueueInv
  BY DEF QueueInv
<1>2. QED
  BY <1>1, TypeCorrect, NoLeak, PTL

\* Every other step leaves playerQueues as it is: only three of them write to it.
LEMMA EntryWriters ==
  ASSUME [Next]_vars, playerQueues' # playerQueues
  PROVE  \E t \in Threads : PutEntry(t) \/ DropEntry(t) \/ ClearEach(t)
<1>1. ASSUME NEW t \in Threads,
             \/ \E p \in Players, s \in Servers : CallAdd(t, p, s)
             \/ FetchSet(t) \/ AddMember(t)
             \/ \E p \in Players : CallRemove(t, p)
             \/ GetSet(t) \/ DropMember(t) \/ TestEmpty(t) \/ DropSet(t)
             \/ \E p \in Players : CallCancel(t, p)
             \/ ReadTarget(t) \/ EmptyGet(t) \/ EmptyTest(t) \/ ClearDrop(t)
      PROVE  FALSE
  BY <1>1 DEF CallAdd, FetchSet, AddMember, CallRemove, GetSet, DropMember,
              TestEmpty, DropSet, CallCancel, ReadTarget, EmptyGet, EmptyTest,
              ClearDrop
<1>2. Next
  BY DEF vars
<1>3. QED
  BY <1>1, <1>2 DEF Next

\* An entry that is there may be removed, one that is not stays as it is.
LEMMA EntryRemoved ==
  ASSUME NEW p \in Players, TypeOK, playerQueues' = [playerQueues EXCEPT ![p] = None]
  PROVE  Map!Next \/ UNCHANGED playerQueues
<1>1. CASE playerQueues[p] = None
  BY <1>1 DEF TypeOK
<1>2. CASE playerQueues[p] # None
  BY <1>2 DEF Map!Next, Map!Dequeue
<1>3. QED
  BY <1>1, <1>2

\* playerQueues implements WaitQueue under any interleaving: an entry is set
\* only for a player who has none, and changes only by being removed.
THEOREM EntriesImplementQueue == Spec => EntriesAreAQueue
<1>1. Init => Map!Init
  BY DEF Init, Map!Init
<1>2. IInv /\ [Next]_vars => [Map!Next]_playerQueues
  <2> SUFFICES ASSUME IInv, [Next]_vars, playerQueues' # playerQueues
               PROVE  Map!Next
    OBVIOUS
  <2>1. PICK t \in Threads : PutEntry(t) \/ DropEntry(t) \/ ClearEach(t)
    BY EntryWriters
  <2>2. TypeOK /\ LocalsOK
    BY DEF IInv
  <2>3. PutEntry(t) => Map!Next
    BY <2>2 DEF PutEntry, Map!Next, Map!Enqueue, TypeOK, LocalsOK
  <2>4. DropEntry(t) => Map!Next
    BY <2>2 DEF DropEntry, Map!Next, Map!Dequeue, TypeOK, LocalsOK
  <2>5. ASSUME ClearEach(t) PROVE Map!Next
    <3>1. ref[t] \in SetIds
      BY <2>2, <2>5 DEF ClearEach, LocalsOK
    <3>2. members[ref[t]] \cup todo[t] \subseteq Players
      BY <2>2, <3>1 DEF TypeOK
    <3>3. \E p \in Players : playerQueues' = [playerQueues EXCEPT ![p] = None]
      BY <2>5, <3>2 DEF ClearEach
    <3>4. QED
      BY <2>2, <3>3, EntryRemoved
  <2> QED
    BY <2>1, <2>3, <2>4, <2>5
<1>3. QED
  BY <1>1, <1>2, Invariance, PTL DEF Spec, EntriesAreAQueue, Map!Spec

-------------------------------------------------------------------------------
(***************************************************************************)
(* One caller at a time.  The maps differ only by the player the thread    *)
(* inside is adding or removing.                                           *)
(***************************************************************************)
Sole == \A t, u \in Threads : pc[t] # "idle" /\ pc[u] # "idle" => t = u

\* In playerQueues already and not yet in the set, or the reverse.
Entering(p, s) ==
  \E t \in Threads : pc[t] \in {"fetchSet", "addMember"} /\ who[t] = p /\ srv[t] = s

Leaving(p, s) ==
  \E t \in Threads : pc[t] \in {"getSet", "dropMember"} /\ who[t] = p /\ srv[t] = s

Member(p, s) ==
  \/ playerQueues[p] = s /\ ~Entering(p, s)
  \/ Leaving(p, s)

\* What the thread inside has seen is still so.
SeenOK(t) ==
  /\ pc[t] \in {"fetchSet", "addMember"} => playerQueues[who[t]] = srv[t]
  /\ pc[t] \in {"getSet", "dropMember"} => playerQueues[who[t]] = None
  /\ pc[t] \in {"addMember", "dropMember", "testEmpty", "dropSet", "emptyTest"}
       => ref[t] = waitingPlayers[srv[t]]
  /\ pc[t] = "dropSet" => members[ref[t]] = {}
  /\ pc[t] = "clearDrop" => Waiting(srv[t]) = {}
  /\ pc[t] = "clearEach" => members[ref[t]] = {} /\ todo[t] = {}

Agreed == \A p \in Players, s \in Servers : p \in Waiting(s) <=> Member(p, s)

SerialInv ==
  /\ Sole
  /\ Agreed
  /\ \A t \in Threads : SeenOK(t)

\* Alone, the thread inside is the only one that enters or leaves a player.
LEMMA OnlyInside ==
  ASSUME NEW t \in Threads, \A u \in Threads \ {t} : pc[u] = "idle"
  PROVE  \A p, s :
           Member(p, s) <=>
             \/ /\ playerQueues[p] = s
                /\ ~(pc[t] \in {"fetchSet", "addMember"} /\ who[t] = p /\ srv[t] = s)
             \/ pc[t] \in {"getSet", "dropMember"} /\ who[t] = p /\ srv[t] = s
  BY DEF Member, Entering, Leaving

LEMMA OnlyInsideNext ==
  ASSUME NEW t \in Threads, \A u \in Threads \ {t} : pc'[u] = "idle"
  PROVE  \A p, s :
           Member(p, s)' <=>
             \/ /\ playerQueues'[p] = s
                /\ ~(pc'[t] \in {"fetchSet", "addMember"} /\ who'[t] = p /\ srv'[t] = s)
             \/ pc'[t] \in {"getSet", "dropMember"} /\ who'[t] = p /\ srv'[t] = s
  BY DEF Member, Entering, Leaving

\* It is enough to look at the thread that moves.
LEMMA OneMoves ==
  ASSUME SerialInv, NEW t \in Threads, \A u \in Threads \ {t} : pc'[u] = "idle",
         SeenOK(t)',
         \A p \in Players, s \in Servers : p \in Waiting(s)' <=> Member(p, s)'
  PROVE  SerialInv'
  BY DEF SerialInv, Sole, Agreed, SeenOK

\* In a queue's set, as functions have it.
LEMMA SetMembers ==
  ASSUME TypeOK, NEW s \in Servers
  PROVE  /\ waitingPlayers[s] = None => Waiting(s) = {}
         /\ waitingPlayers[s] # None =>
              waitingPlayers[s] \in SetIds /\ Waiting(s) = members[waitingPlayers[s]]
  BY NoneIsFresh DEF TypeOK, Waiting

\* Neither map changes, and the thread goes on where nobody enters or leaves.
LEMMA MapsStay ==
  ASSUME SerialInv, NEW t \in Threads,
         \A u \in Threads \ {t} : pc[u] = "idle" /\ pc'[u] = "idle",
         UNCHANGED <<playerQueues, waitingPlayers, members>>,
         pc[t] \notin {"fetchSet", "addMember", "getSet", "dropMember"},
         pc'[t] \notin {"fetchSet", "addMember", "getSet", "dropMember"},
         SeenOK(t)'
  PROVE  SerialInv'
<1>1. \A p \in Players, s \in Servers : p \in Waiting(s)' <=> p \in Waiting(s)
  BY DEF Waiting
<1>2. \A p \in Players, s \in Servers : Member(p, s)' <=> Member(p, s)
  BY OnlyInside, OnlyInsideNext
<1>3. QED
  BY <1>1, <1>2, OneMoves DEF SerialInv, Agreed

\* The sets are the same for every server, and the thread goes on where nobody
\* enters or leaves.
LEMMA WaitingStays ==
  ASSUME SerialInv, NEW t \in Threads,
         \A u \in Threads \ {t} : pc[u] = "idle" /\ pc'[u] = "idle",
         playerQueues' = playerQueues,
         \A s \in Servers : Waiting(s)' = Waiting(s),
         pc[t] \notin {"fetchSet", "addMember", "getSet", "dropMember"},
         pc'[t] \notin {"fetchSet", "addMember", "getSet", "dropMember"},
         SeenOK(t)'
  PROVE  SerialInv'
<1>1. \A p \in Players, s \in Servers : Member(p, s)' <=> Member(p, s)
  BY OnlyInside, OnlyInsideNext
<1>2. QED
  BY <1>1, OneMoves DEF SerialInv, Agreed

LEMMA SerialInit == ASSUME Init PROVE SerialInv
<1>1. \A p \in Players, s \in Servers : ~Member(p, s) /\ p \notin Waiting(s)
  BY NoneIsFresh DEF Init, Member, Entering, Leaving, Waiting
<1>2. \A t \in Threads : SeenOK(t)
  BY DEF Init, SeenOK
<1>3. QED
  BY <1>1, <1>2 DEF SerialInv, Sole, Agreed, Init

\* Where a call goes on with AfterRemove nothing it has seen matters any more.
LEMMA SeenAfterRemove ==
  ASSUME TypeOK, NEW t \in Threads, AfterRemove(t)
  PROVE  /\ pc'[t] \in {"emptyGet", "idle"}
         /\ SeenOK(t)'
<1>1. pc'[t] \in {"emptyGet", "idle"}
  BY DEF TypeOK, AfterRemove, Goto, Return
<1>2. QED
  BY <1>1 DEF SeenOK

\* addToQueue
LEMMA SerialAdds ==
  ASSUME IInv, SerialInv, NEW t \in Threads,
         \A u \in Threads \ {t} : pc[u] = "idle" /\ pc'[u] = "idle",
         \/ \E p \in Players, s \in Servers : CallAdd(t, p, s)
         \/ PutEntry(t) \/ FetchSet(t) \/ AddMember(t)
  PROVE  SerialInv'
<1> USE DEF IInv
<1>1. ASSUME NEW p \in Players, NEW s \in Servers, CallAdd(t, p, s)
      PROVE  SerialInv'
  <2>1. pc[t] = "idle" /\ pc'[t] = "putEntry" /\ UNCHANGED <<playerQueues, waitingPlayers, members>>
    BY <1>1 DEF CallAdd, Goto, TypeOK
  <2>2. SeenOK(t)'
    BY <2>1 DEF SeenOK
  <2>3. QED
    BY <2>1, <2>2, MapsStay
<1>2. CASE PutEntry(t)
  <2>1. pc[t] = "putEntry" /\ UNCHANGED <<waitingPlayers, members>>
    BY <1>2 DEF PutEntry
  <2>2. CASE playerQueues[who[t]] # None
    <3>1. pc'[t] = "idle" /\ UNCHANGED playerQueues
      BY <1>2, <2>2 DEF PutEntry, Return, Goto, TypeOK
    <3>2. SeenOK(t)'
      BY <3>1 DEF SeenOK
    <3>3. QED
      BY <2>1, <3>1, <3>2, MapsStay
  <2>3. CASE playerQueues[who[t]] = None
    <3>1. /\ who[t] \in Players /\ srv[t] \in Servers
          /\ pc'[t] = "fetchSet" /\ who' = who /\ srv' = srv
          /\ playerQueues' = [playerQueues EXCEPT ![who[t]] = srv[t]]
      BY <1>2, <2>1, <2>3 DEF PutEntry, KeepLocals, Goto, TypeOK, LocalsOK
    <3>2. SeenOK(t)'
      BY <3>1 DEF SeenOK, TypeOK
    <3>3. \A p \in Players, s \in Servers : p \in Waiting(s)' <=> p \in Waiting(s)
      BY <2>1 DEF Waiting
    <3>4. \A p \in Players, s \in Servers : Member(p, s) <=> playerQueues[p] = s
      BY <2>1, OnlyInside
    <3>5. \A p \in Players, s \in Servers :
            Member(p, s)' <=> playerQueues'[p] = s /\ ~(who[t] = p /\ srv[t] = s)
      BY <3>1, OnlyInsideNext
    <3>6. \A p \in Players, s \in Servers : Member(p, s)' <=> Member(p, s)
      BY <2>3, <3>1, <3>4, <3>5, NoneIsFresh DEF TypeOK
    <3>7. QED
      BY <3>2, <3>3, <3>6, OneMoves DEF SerialInv, Agreed
  <2>4. QED
    BY <2>2, <2>3
<1>3. CASE FetchSet(t)
  <2>1. /\ pc[t] = "fetchSet" /\ pc'[t] = "addMember"
        /\ UNCHANGED <<playerQueues, who, srv>>
        /\ who[t] \in Players /\ srv[t] \in Servers
    BY <1>3 DEF FetchSet, Goto, TypeOK, LocalsOK
  <2>2. playerQueues[who[t]] = srv[t]
    BY <2>1 DEF SerialInv, SeenOK
  <2>3. ref'[t] = waitingPlayers'[srv[t]]
    BY <1>3, <2>1 DEF FetchSet, TypeOK
  <2>4. SeenOK(t)'
    BY <2>1, <2>2, <2>3 DEF SeenOK
  <2>5. \A s \in Servers : Waiting(s)' = Waiting(s)
    <3>1. CASE waitingPlayers[srv[t]] # None
      BY <1>3, <3>1 DEF FetchSet, Waiting
    <3>2. CASE waitingPlayers[srv[t]] = None
      <4>1. PICK i \in SetIds :
              /\ Free(i)
              /\ waitingPlayers' = [waitingPlayers EXCEPT ![srv[t]] = i]
              /\ members' = [members EXCEPT ![i] = {}]
        BY <1>3, <3>2 DEF FetchSet
      <4>2. i # None /\ \A s \in Servers : waitingPlayers[s] # i
        BY <4>1, NoneIsFresh DEF Free, Registered
      <4>3. QED
        BY <2>1, <3>2, <4>1, <4>2 DEF Waiting, TypeOK
    <3>3. QED
      BY <3>1, <3>2
  <2>6. \A p \in Players, s \in Servers : Member(p, s)' <=> Member(p, s)
    BY <2>1, OnlyInside, OnlyInsideNext
  <2>7. QED
    BY <2>4, <2>5, <2>6, OneMoves DEF SerialInv, Agreed
<1>4. CASE AddMember(t)
  <2>1. /\ pc[t] = "addMember" /\ pc'[t] = "idle"
        /\ UNCHANGED <<playerQueues, waitingPlayers>>
        /\ members' = [members EXCEPT ![ref[t]] = @ \cup {who[t]}]
        /\ who[t] \in Players /\ srv[t] \in Servers /\ ref[t] \in SetIds
    BY <1>4 DEF AddMember, Return, Goto, TypeOK, LocalsOK
  <2>2. playerQueues[who[t]] = srv[t] /\ ref[t] = waitingPlayers[srv[t]]
    BY <2>1 DEF SerialInv, SeenOK
  <2>3. SeenOK(t)'
    BY <2>1 DEF SeenOK
  <2>4. \A s \in Servers : s # srv[t] => Waiting(s)' = Waiting(s)
    BY <2>1, <2>2, NoneIsFresh DEF Waiting, TypeOK, OneServerPerSet
  <2>5. \A s \in Servers : s = srv[t] => Waiting(s)' = Waiting(s) \cup {who[t]}
    BY <2>1, <2>2, NoneIsFresh DEF Waiting, TypeOK
  <2>6. \A p \in Players, s \in Servers :
          Member(p, s) <=> playerQueues[p] = s /\ ~(who[t] = p /\ srv[t] = s)
    BY <2>1, OnlyInside
  <2>7. \A p \in Players, s \in Servers : Member(p, s)' <=> playerQueues[p] = s
    BY <2>1, OnlyInsideNext
  <2>8. \A p \in Players, s \in Servers : p \in Waiting(s) <=> Member(p, s)
    BY DEF SerialInv, Agreed
  <2>9. \A p \in Players, s \in Servers : p \in Waiting(s)' <=> Member(p, s)'
    BY <2>2, <2>4, <2>5, <2>6, <2>7, <2>8
  <2>10. QED
    BY <2>3, <2>9, OneMoves
<1>5. QED
  BY <1>1, <1>2, <1>3, <1>4

\* removeFromQueue
LEMMA SerialRemoves ==
  ASSUME IInv, SerialInv, NEW t \in Threads,
         \A u \in Threads \ {t} : pc[u] = "idle" /\ pc'[u] = "idle",
         \/ \E p \in Players : CallRemove(t, p)
         \/ DropEntry(t) \/ GetSet(t) \/ DropMember(t) \/ TestEmpty(t) \/ DropSet(t)
  PROVE  SerialInv'
<1> USE DEF IInv
<1>1. ASSUME NEW p \in Players, CallRemove(t, p)
      PROVE  SerialInv'
  <2>1. /\ pc[t] = "idle" /\ pc'[t] = "dropEntry"
        /\ UNCHANGED <<playerQueues, waitingPlayers, members>>
    BY <1>1 DEF CallRemove, Goto, TypeOK
  <2>2. SeenOK(t)'
    BY <2>1 DEF SeenOK
  <2>3. QED
    BY <2>1, <2>2, MapsStay
<1>2. CASE DropEntry(t)
  <2>1. /\ pc[t] = "dropEntry" /\ UNCHANGED <<waitingPlayers, members>>
        /\ who[t] \in Players
    BY <1>2 DEF DropEntry, TypeOK, LocalsOK
  <2>2. CASE playerQueues[who[t]] = None
    <3>1. AfterRemove(t) /\ UNCHANGED playerQueues
      BY <1>2, <2>2 DEF DropEntry
    <3>2. pc'[t] \in {"emptyGet", "idle"} /\ SeenOK(t)'
      BY <3>1, SeenAfterRemove
    <3>3. QED
      BY <2>1, <3>1, <3>2, MapsStay
  <2>3. CASE playerQueues[who[t]] # None
    <3>1. /\ pc'[t] = "getSet" /\ who' = who /\ srv'[t] = playerQueues[who[t]]
          /\ playerQueues' = [playerQueues EXCEPT ![who[t]] = None]
      BY <1>2, <2>3 DEF DropEntry, Goto, TypeOK
    <3>2. SeenOK(t)'
      BY <2>1, <3>1 DEF SeenOK, TypeOK
    <3>3. \A p \in Players, s \in Servers : p \in Waiting(s)' <=> p \in Waiting(s)
      BY <2>1 DEF Waiting
    <3>4. \A p \in Players, s \in Servers : Member(p, s) <=> playerQueues[p] = s
      BY <2>1, OnlyInside
    <3>5. \A p \in Players, s \in Servers :
            Member(p, s)' <=> playerQueues'[p] = s \/ (who[t] = p /\ srv'[t] = s)
      BY <3>1, OnlyInsideNext
    <3>6. \A p \in Players, s \in Servers : Member(p, s)' <=> Member(p, s)
      BY <2>1, <3>1, <3>4, <3>5, NoneIsFresh DEF TypeOK
    <3>7. QED
      BY <3>2, <3>3, <3>6, OneMoves DEF SerialInv, Agreed
  <2>4. QED
    BY <2>2, <2>3
<1>3. CASE GetSet(t)
  <2>1. /\ pc[t] = "getSet"
        /\ UNCHANGED <<playerQueues, waitingPlayers, members>>
        /\ who[t] \in Players /\ srv[t] \in Servers
    BY <1>3 DEF GetSet, TypeOK, LocalsOK
  <2>2. playerQueues[who[t]] = None
    BY <2>1 DEF SerialInv, SeenOK
  <2>3. Member(who[t], srv[t])
    BY <2>1, OnlyInside
  <2>4. who[t] \in Waiting(srv[t])
    BY <2>1, <2>3 DEF SerialInv, Agreed
  <2>5. waitingPlayers[srv[t]] # None
    BY <2>4 DEF Waiting
  <2>6. /\ pc'[t] = "dropMember" /\ UNCHANGED <<who, srv>>
        /\ ref'[t] = waitingPlayers[srv[t]]
    BY <1>3, <2>5 DEF GetSet, Goto, TypeOK
  <2>7. SeenOK(t)'
    BY <2>1, <2>2, <2>6 DEF SeenOK
  <2>8. \A p \in Players, s \in Servers : p \in Waiting(s)' <=> p \in Waiting(s)
    BY <2>1 DEF Waiting
  <2>9. \A p \in Players, s \in Servers : Member(p, s)' <=> Member(p, s)
    BY <2>1, <2>6, OnlyInside, OnlyInsideNext
  <2>10. QED
    BY <2>7, <2>8, <2>9, OneMoves DEF SerialInv, Agreed
<1>4. CASE DropMember(t)
  <2>1. /\ pc[t] = "dropMember" /\ pc'[t] = "testEmpty"
        /\ UNCHANGED <<playerQueues, waitingPlayers, who, srv, ref>>
        /\ members' = [members EXCEPT ![ref[t]] = @ \ {who[t]}]
        /\ who[t] \in Players /\ srv[t] \in Servers /\ ref[t] \in SetIds
    BY <1>4 DEF DropMember, KeepLocals, Goto, TypeOK, LocalsOK
  <2>2. playerQueues[who[t]] = None /\ ref[t] = waitingPlayers[srv[t]]
    BY <2>1 DEF SerialInv, SeenOK
  <2>3. SeenOK(t)'
    BY <2>1, <2>2 DEF SeenOK
  <2>4. \A s \in Servers : s # srv[t] => Waiting(s)' = Waiting(s)
    BY <2>1, <2>2, NoneIsFresh DEF Waiting, TypeOK, OneServerPerSet
  <2>5. \A s \in Servers : s = srv[t] => Waiting(s)' = Waiting(s) \ {who[t]}
    BY <2>1, <2>2, NoneIsFresh DEF Waiting, TypeOK
  <2>6. \A p \in Players, s \in Servers :
          Member(p, s) <=> playerQueues[p] = s \/ (who[t] = p /\ srv[t] = s)
    BY <2>1, OnlyInside
  <2>7. \A p \in Players, s \in Servers : Member(p, s)' <=> playerQueues[p] = s
    BY <2>1, OnlyInsideNext
  <2>8. \A p \in Players, s \in Servers : p \in Waiting(s) <=> Member(p, s)
    BY DEF SerialInv, Agreed
  <2>9. \A s \in Servers : playerQueues[who[t]] # s
    BY <2>2, NoneIsFresh
  <2>10. \A p \in Players, s \in Servers : p \in Waiting(s)' <=> Member(p, s)'
    BY <2>4, <2>5, <2>6, <2>7, <2>8, <2>9
  <2>11. QED
    BY <2>3, <2>10, OneMoves
<1>5. CASE TestEmpty(t)
  <2>1. pc[t] = "testEmpty" /\ UNCHANGED <<playerQueues, waitingPlayers, members>>
    BY <1>5 DEF TestEmpty
  <2>2. CASE members[ref[t]] = {} /\ Goto(t, "dropSet") /\ KeepLocals
    <3>1. pc'[t] = "dropSet" /\ UNCHANGED <<srv, ref>>
      BY <2>2 DEF Goto, KeepLocals, TypeOK
    <3>2. ref[t] = waitingPlayers[srv[t]]
      BY <2>1 DEF SerialInv, SeenOK
    <3>3. SeenOK(t)'
      BY <2>1, <2>2, <3>1, <3>2 DEF SeenOK
    <3>4. QED
      BY <2>1, <3>1, <3>3, MapsStay
  <2>3. CASE AfterRemove(t)
    <3>1. pc'[t] \in {"emptyGet", "idle"} /\ SeenOK(t)'
      BY <2>3, SeenAfterRemove
    <3>2. QED
      BY <2>1, <3>1, MapsStay
  <2>4. QED
    BY <1>5, <2>2, <2>3 DEF TestEmpty
<1>6. CASE DropSet(t)
  <2>1. /\ pc[t] = "dropSet" /\ UNCHANGED <<playerQueues, members>>
        /\ waitingPlayers' = [waitingPlayers EXCEPT ![srv[t]] = None]
        /\ AfterRemove(t)
        /\ srv[t] \in Servers
    BY <1>6 DEF DropSet, TypeOK, LocalsOK
  <2>2. ref[t] = waitingPlayers[srv[t]] /\ members[ref[t]] = {}
    BY <2>1 DEF SerialInv, SeenOK
  <2>3. \A s \in Servers : Waiting(s)' = Waiting(s)
    BY <2>1, <2>2 DEF Waiting, TypeOK
  <2>4. pc'[t] \in {"emptyGet", "idle"} /\ SeenOK(t)'
    BY <2>1, SeenAfterRemove
  <2>5. QED
    BY <2>1, <2>3, <2>4, WaitingStays
<1>7. QED
  BY <1>1, <1>2, <1>3, <1>4, <1>5, <1>6

\* /cancel
LEMMA SerialCancels ==
  ASSUME IInv, SerialInv, NEW t \in Threads,
         \A u \in Threads \ {t} : pc[u] = "idle" /\ pc'[u] = "idle",
         \/ \E p \in Players : CallCancel(t, p)
         \/ ReadTarget(t) \/ EmptyGet(t) \/ EmptyTest(t) \/ ClearDrop(t) \/ ClearEach(t)
  PROVE  SerialInv'
<1> USE DEF IInv
<1>1. CASE (\E p \in Players : CallCancel(t, p)) \/ ReadTarget(t)
  <2>1. /\ pc[t] \in {"idle", "readTarget"} /\ pc'[t] \in {"readTarget", "dropEntry"}
        /\ UNCHANGED <<playerQueues, waitingPlayers, members>>
    BY <1>1 DEF CallCancel, ReadTarget, Goto, TypeOK
  <2>2. SeenOK(t)'
    BY <2>1 DEF SeenOK
  <2>3. QED
    BY <2>1, <2>2, MapsStay
<1>2. CASE EmptyGet(t)
  <2>1. pc[t] = "emptyGet" /\ UNCHANGED <<playerQueues, waitingPlayers, members>>
    BY <1>2 DEF EmptyGet
  <2>2. pc'[t] \in {"idle", "clearDrop", "emptyTest"}
    BY <1>2 DEF EmptyGet, Return, Goto, TypeOK
  <2>3. SeenOK(t)'
    <3>1. CASE pc'[t] = "idle"
      BY <3>1 DEF SeenOK
    <3>2. CASE pc'[t] = "clearDrop"
      <4>1. srv' = srv /\ waitingPlayers[srv[t]] = None
        BY <1>2, <3>2 DEF EmptyGet, Return, Goto, KeepLocals, TypeOK
      <4>2. QED
        BY <2>1, <3>2, <4>1 DEF SeenOK, Waiting
    <3>3. CASE pc'[t] = "emptyTest"
      <4>1. srv' = srv /\ ref'[t] = waitingPlayers[srv[t]]
        BY <1>2, <3>3 DEF EmptyGet, Return, Goto, KeepLocals, TypeOK
      <4>2. QED
        BY <2>1, <3>3, <4>1 DEF SeenOK
    <3>4. QED
      BY <2>2, <3>1, <3>2, <3>3
  <2>4. QED
    BY <2>1, <2>2, <2>3, MapsStay
<1>3. CASE EmptyTest(t)
  <2>1. pc[t] = "emptyTest" /\ UNCHANGED <<playerQueues, waitingPlayers, members>>
    BY <1>3 DEF EmptyTest
  <2>2. pc'[t] \in {"idle", "clearDrop"}
    BY <1>3 DEF EmptyTest, Return, Goto, TypeOK
  <2>3. SeenOK(t)'
    <3>1. CASE pc'[t] = "idle"
      BY <3>1 DEF SeenOK
    <3>2. CASE pc'[t] = "clearDrop"
      <4>1. srv' = srv /\ members[ref[t]] = {}
        BY <1>3, <3>2 DEF EmptyTest, Return, Goto, KeepLocals, TypeOK
      <4>2. ref[t] = waitingPlayers[srv[t]]
        BY <2>1 DEF SerialInv, SeenOK
      <4>3. QED
        BY <2>1, <3>2, <4>1, <4>2 DEF SeenOK, Waiting
    <3>3. QED
      BY <2>2, <3>1, <3>2
  <2>4. QED
    BY <2>1, <2>2, <2>3, MapsStay
<1>4. CASE ClearDrop(t)
  <2>1. /\ pc[t] = "clearDrop" /\ UNCHANGED <<playerQueues, members>>
        /\ waitingPlayers' = [waitingPlayers EXCEPT ![srv[t]] = None]
        /\ srv[t] \in Servers
    BY <1>4 DEF ClearDrop, TypeOK, LocalsOK
  <2>2. Waiting(srv[t]) = {}
    BY <2>1 DEF SerialInv, SeenOK
  <2>3. \A s \in Servers : Waiting(s)' = Waiting(s)
    BY <2>1, <2>2 DEF Waiting, TypeOK
  <2>4. pc'[t] \in {"idle", "clearEach"}
    BY <1>4 DEF ClearDrop, Return, Goto, TypeOK
  <2>5. SeenOK(t)'
    <3>1. CASE pc'[t] = "idle"
      BY <3>1 DEF SeenOK
    <3>2. CASE pc'[t] = "clearEach"
      <4>1. /\ waitingPlayers[srv[t]] # None
            /\ ref'[t] = waitingPlayers[srv[t]]
            /\ todo'[t] = members[waitingPlayers[srv[t]]]
        BY <1>4, <3>2 DEF ClearDrop, Return, Goto, TypeOK
      <4>2. members'[ref'[t]] = {} /\ todo'[t] = {}
        BY <2>1, <2>2, <4>1 DEF Waiting
      <4>3. QED
        BY <3>2, <4>2 DEF SeenOK
    <3>3. QED
      BY <2>4, <3>1, <3>2
  <2>6. QED
    BY <2>1, <2>3, <2>4, <2>5, WaitingStays
<1>5. CASE ClearEach(t)
  <2>1. pc[t] = "clearEach" /\ UNCHANGED <<waitingPlayers, members>>
    BY <1>5 DEF ClearEach
  <2>2. members[ref[t]] = {} /\ todo[t] = {}
    BY <2>1 DEF SerialInv, SeenOK
  <2>3. Return(t) /\ UNCHANGED playerQueues
    BY <1>5, <2>2 DEF ClearEach
  <2>4. pc'[t] = "idle"
    BY <2>3 DEF Return, Goto, TypeOK
  <2>5. SeenOK(t)'
    BY <2>4 DEF SeenOK
  <2>6. QED
    BY <2>1, <2>3, <2>4, <2>5, MapsStay
<1>6. QED
  BY <1>1, <1>2, <1>3, <1>4, <1>5

\* A step is one thread's, and touches no other thread's place.
LEMMA OthersStay ==
  ASSUME TypeOK, NEW t \in Threads,
         \/ \E p \in Players, s \in Servers : CallAdd(t, p, s)
         \/ PutEntry(t) \/ FetchSet(t) \/ AddMember(t)
         \/ \E p \in Players : CallRemove(t, p)
         \/ DropEntry(t) \/ GetSet(t) \/ DropMember(t) \/ TestEmpty(t) \/ DropSet(t)
         \/ \E p \in Players : CallCancel(t, p)
         \/ ReadTarget(t) \/ EmptyGet(t) \/ EmptyTest(t)
         \/ ClearDrop(t) \/ ClearEach(t)
  PROVE  /\ \A u \in Threads \ {t} : pc'[u] = pc[u]
         /\ pc[t] # "idle" \/ pc'[t] # "idle"
<1>1. CASE \/ \E p \in Players, s \in Servers : CallAdd(t, p, s)
           \/ \E p \in Players : CallRemove(t, p)
           \/ \E p \in Players : CallCancel(t, p)
  BY <1>1 DEF TypeOK, CallAdd, CallRemove, CallCancel, Goto
<1>2. CASE PutEntry(t) \/ FetchSet(t) \/ AddMember(t)
  BY <1>2 DEF TypeOK, PutEntry, FetchSet, AddMember, Return, Goto
<1>3. CASE DropEntry(t) \/ GetSet(t) \/ DropMember(t) \/ TestEmpty(t) \/ DropSet(t)
  BY <1>3 DEF TypeOK, DropEntry, GetSet, DropMember, TestEmpty, DropSet, AfterRemove,
              Return, Goto
<1>4. CASE ReadTarget(t) \/ EmptyGet(t) \/ EmptyTest(t) \/ ClearDrop(t) \/ ClearEach(t)
  BY <1>4 DEF TypeOK, ReadTarget, EmptyGet, EmptyTest, ClearDrop, ClearEach, Return, Goto
<1>5. QED
  BY <1>1, <1>2, <1>3, <1>4

LEMMA SerialStep ==
  ASSUME IInv, SerialInv, [Next]_vars, Sole'
  PROVE  SerialInv'
<1>1. ASSUME NEW t \in Threads,
             \/ \E p \in Players, s \in Servers : CallAdd(t, p, s)
             \/ PutEntry(t) \/ FetchSet(t) \/ AddMember(t)
             \/ \E p \in Players : CallRemove(t, p)
             \/ DropEntry(t) \/ GetSet(t) \/ DropMember(t) \/ TestEmpty(t) \/ DropSet(t)
             \/ \E p \in Players : CallCancel(t, p)
             \/ ReadTarget(t) \/ EmptyGet(t) \/ EmptyTest(t)
             \/ ClearDrop(t) \/ ClearEach(t)
      PROVE  SerialInv'
  <2>1. /\ \A u \in Threads \ {t} : pc'[u] = pc[u]
        /\ pc[t] # "idle" \/ pc'[t] # "idle"
    BY <1>1, OthersStay DEF IInv
  <2>2. \A u \in Threads \ {t} : pc[u] = "idle" /\ pc'[u] = "idle"
    BY <2>1 DEF SerialInv, Sole
  <2>3. QED
    BY <1>1, <2>2, SerialAdds, SerialRemoves, SerialCancels
<1>2. CASE UNCHANGED vars
  BY <1>2 DEF vars, SerialInv, Sole, Agreed, SeenOK, Member, Entering, Leaving, Waiting
<1>3. QED
  BY <1>1, <1>2 DEF Next

\* Nothing runs, so nobody enters or leaves: a set holds the players whose entry
\* names its server.
LEMMA AgreedWhenQuiet == ASSUME TypeOK, SerialInv PROVE MapsAgree
<1> SUFFICES ASSUME Quiet, NEW s \in Servers PROVE Waiting(s) = EntriesFor(s)
  BY DEF MapsAgree
<1>1. \A p \in Players : p \in Waiting(s) <=> playerQueues[p] = s
  BY DEF SerialInv, Agreed, Member, Entering, Leaving, Quiet
<1>2. Waiting(s) \subseteq Players
  BY SetMembers DEF TypeOK
<1>3. QED
  BY <1>1, <1>2 DEF EntriesFor

\* isQueueEmpty says that nobody waits only of an empty queue.
LEMMA BelievedIsEmpty ==
  ASSUME IInv, SerialInv, [Next]_vars, NEW t \in Threads, BelievesEmpty(t)
  PROVE  ~SomebodyWaits(srv[t])
<1> USE DEF IInv
<1> DEFINE CallsOrAdds(u) ==
             \/ \E p \in Players, s \in Servers : CallAdd(u, p, s)
             \/ PutEntry(u) \/ FetchSet(u) \/ AddMember(u)
             \/ \E p \in Players : CallRemove(u, p) \/ CallCancel(u, p)
           Removes(u) ==
             DropEntry(u) \/ GetSet(u) \/ DropMember(u) \/ TestEmpty(u) \/ DropSet(u)
<1>1. EmptyGet(t) \/ EmptyTest(t)
  <2>1. CASE UNCHANGED vars
    BY <2>1 DEF vars, BelievesEmpty
  <2>2. ASSUME NEW u \in Threads,
               \/ \E p \in Players, s \in Servers : CallAdd(u, p, s)
               \/ PutEntry(u) \/ FetchSet(u) \/ AddMember(u)
               \/ \E p \in Players : CallRemove(u, p)
               \/ DropEntry(u) \/ GetSet(u) \/ DropMember(u) \/ TestEmpty(u) \/ DropSet(u)
               \/ \E p \in Players : CallCancel(u, p)
               \/ ReadTarget(u) \/ EmptyGet(u) \/ EmptyTest(u)
               \/ ClearDrop(u) \/ ClearEach(u)
        PROVE  EmptyGet(t) \/ EmptyTest(t)
    <3>1. u = t
      BY <2>2, OthersStay DEF BelievesEmpty
    <3>2. ~CallsOrAdds(t)
      BY DEF BelievesEmpty, TypeOK, CallAdd, PutEntry, FetchSet, AddMember,
             CallRemove, CallCancel, Return, Goto
    <3>3. ~Removes(t)
      BY DEF BelievesEmpty, TypeOK, DropEntry, GetSet, DropMember, TestEmpty,
             DropSet, AfterRemove, Return, Goto
    <3>4. ~(ReadTarget(t) \/ ClearDrop(t) \/ ClearEach(t))
      BY DEF BelievesEmpty, TypeOK, ReadTarget, ClearDrop, ClearEach, Return, Goto
    <3>5. QED
      BY <2>2, <3>1, <3>2, <3>3, <3>4
  <2>3. QED
    BY <2>1, <2>2 DEF Next
<1>2. pc[t] \in {"emptyGet", "emptyTest"} /\ srv[t] \in Servers
  BY <1>1 DEF EmptyGet, EmptyTest, BelievesEmpty, Return, Goto, TypeOK, LocalsOK
<1>3. Waiting(srv[t]) = {}
  <2>1. CASE EmptyGet(t)
    BY <2>1 DEF EmptyGet, BelievesEmpty, Return, Goto, Waiting, TypeOK
  <2>2. CASE EmptyTest(t)
    <3>1. pc[t] = "emptyTest" /\ members[ref[t]] = {}
      BY <2>2 DEF EmptyTest, BelievesEmpty, Return, Goto, TypeOK
    <3>2. ref[t] = waitingPlayers[srv[t]]
      BY <3>1 DEF SerialInv, SeenOK
    <3>3. QED
      BY <3>1, <3>2 DEF Waiting
  <2>3. QED
    BY <1>1, <2>1, <2>2
<1>4. \A u \in Threads \ {t} : pc[u] = "idle"
  BY <1>2 DEF SerialInv, Sole
<1>5. \A p \in Players : playerQueues[p] # srv[t]
  <2>1. \A p \in Players : playerQueues[p] = srv[t] => Member(p, srv[t])
    BY <1>2, <1>4, OnlyInside
  <2>2. QED
    BY <1>2, <1>3, <2>1 DEF SerialInv, Agreed
<1>6. QED
  BY <1>5 DEF SomebodyWaits, EntriesFor

\* With one caller at a time the two maps of QueueManager describe the same queues
\* whenever no call is running, and isQueueEmpty tells /cancel the truth.
THEOREM SerialMapsAgreeHolds == MCSpec => SerialMapsAgree
<1> DEFINE Inv == IInv /\ (serial => SerialInv)
           Truth == serial => \A t \in Threads : BelievesEmpty(t) => ~SomebodyWaits(srv[t])
<1>1. MCInit => Inv
  BY NoneIsFresh, SerialInit, SMT
     DEF MCInit, Init, IInv, TypeOK, LocalsOK, OneServerPerSet, HolderKnowsServer,
         EmptySetHasCaretaker
<1>2. Inv /\ [MCNext]_MCVars => Inv'
  <2> SUFFICES ASSUME Inv, [MCNext]_MCVars PROVE Inv'
    OBVIOUS
  <2>1. [Next]_vars /\ serial' = serial
    BY DEF MCNext, MCVars
  <2>2. IInv'
    BY <2>1, TypeStep, RegistrationStep, CaretakerStep DEF IInv
  <2>3. serial /\ SerialInv => Sole'
    <3>1. CASE MCNext
      BY <3>1 DEF MCNext, Inside, Sole
    <3>2. CASE UNCHANGED MCVars
      BY <3>2 DEF MCVars, vars, SerialInv, Sole
    <3>3. QED
      BY <3>1, <3>2
  <2>4. QED
    BY <2>1, <2>2, <2>3, SerialStep
<1>3. Inv => (serial => MapsAgree)
  BY AgreedWhenQuiet DEF IInv
<1>4. Inv /\ [MCNext]_MCVars => [Truth]_MCVars
  <2> SUFFICES ASSUME Inv, [MCNext]_MCVars PROVE Truth
    OBVIOUS
  <2>1. [Next]_vars
    BY DEF MCNext, MCVars
  <2>2. QED
    BY <2>1, BelievedIsEmpty
<1> HIDE DEF Inv
<1>5. MCSpec => []Inv
  BY <1>1, <1>2, PTL DEF MCSpec
<1>6. MCSpec => [](serial => MapsAgree)
  BY <1>3, <1>5, PTL
<1>7. MCSpec => [][Truth]_MCVars
  BY <1>4, <1>5, PTL DEF MCSpec
<1>8. QED
  BY <1>6, <1>7 DEF SerialMapsAgree

=============================================================================
