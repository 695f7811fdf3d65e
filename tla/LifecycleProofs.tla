---------------------------- MODULE LifecycleProofs ----------------------------
(***************************************************************************)
(* Proofs about ServerLifecycle, for any servers, requests, budget and     *)
(* number of boots.                                                        *)
(***************************************************************************)
EXTENDS MCServerLifecycle, FiniteSetTheorems, SequenceTheorems, TLAPS

Records == [pc : Steps \ {"idle"}, op : Ops, server : Servers]
States  == {"none", "created", "running", "stopping", "exited"}

-------------------------------------------------------------------------------
(***************************************************************************)
(* Types                                                                   *)
(***************************************************************************)
\* What the helpers do to a task, a container and its events.
LEMMA Busy ==
  ASSUME TypeOK, NEW t \in Tasks, ~Idle(t)
  PROVE  task[t] \in Records
BY DEF TypeOK, Idle, At, NoTask, Records

LEMMA GotoType ==
  ASSUME TypeOK, NEW t \in Tasks, ~Idle(t), NEW step \in Steps \ {"idle"}, Goto(t, step)
  PROVE  /\ task' \in [Tasks -> {NoTask} \cup Records]
         /\ task' = [task EXCEPT ![t] = [pc |-> step, op |-> task[t].op, server |-> task[t].server]]
<1>1. task[t] \in Records
  BY Busy
<1>2. [task[t] EXCEPT !.pc = step] = [pc |-> step, op |-> task[t].op, server |-> task[t].server]
  BY <1>1 DEF Records
<1>3. task' = [task EXCEPT ![t] = [task[t] EXCEPT !.pc = step]]
  BY DEF Goto
<1>4. [pc |-> step, op |-> task[t].op, server |-> task[t].server] \in Records
  BY <1>1 DEF Records
<1>5. QED
  BY <1>2, <1>3, <1>4 DEF TypeOK, Records

LEMMA EndsType ==
  ASSUME TypeOK, NEW t \in Tasks, Ends(t)
  PROVE  task' \in [Tasks -> {NoTask} \cup Records]
BY DEF TypeOK, Ends, Records

LEMMA ContinueType ==
  ASSUME TypeOK, NEW t \in Tasks, ~Idle(t), NEW step \in Steps, Continue(t, step)
  PROVE  task' \in [Tasks -> {NoTask} \cup Records]
BY GotoType, EndsType DEF Continue

LEMMA EmitType ==
  ASSUME TypeOK, NEW s \in Servers, NEW event \in {"up", "down"}, Emit(s, event)
  PROVE  events' \in [Servers -> Seq({"up", "down"})]
<1>1. events[s] \in Seq({"up", "down"})
  BY DEF TypeOK
<1>2. Append(events[s], event) \in Seq({"up", "down"})
  BY <1>1
<1>3. CASE events' = [events EXCEPT ![s] = Append(events[s], event)]
  BY <1>2, <1>3 DEF TypeOK
<1>4. CASE events' = events
  BY <1>4 DEF TypeOK
<1>5. QED
  BY <1>3, <1>4 DEF Emit

LEMMA BecomesType ==
  ASSUME TypeOK, NEW s \in Servers, NEW state \in States, Becomes(s, state)
  PROVE  container' \in [Servers -> States]
BY DEF TypeOK, Becomes, States

LEMMA MarkType ==
  ASSUME TypeOK, NEW s \in Servers, NEW value \in {"running", "stopped"}, Mark(s, value)
  PROVE  status' \in [Servers -> {"running", "stopped"}]
BY DEF TypeOK, Mark

LEMMA ForceRemoveType ==
  ASSUME TypeOK, NEW s \in Servers, ForceRemove(s)
  PROVE  /\ container' \in [Servers -> States]
         /\ events' \in [Servers -> Seq({"up", "down"})]
<1>1. CASE UNCHANGED <<container, events>>
  BY <1>1 DEF TypeOK, States
<1>2. CASE Becomes(s, "none") /\ Emit(s, "down")
  BY <1>2, BecomesType, EmitType DEF States
<1>3. QED
  BY <1>1, <1>2 DEF ForceRemove

LEMMA TypeStep ==
  ASSUME TypeOK, NEW t \in Tasks, Step(t)
  PROVE  TypeOK'
<1> DEFINE s == task[t].server
<1>1. ~Idle(t)
  BY DEF Step, CheckBudget, Exists, Replace, Create, RunContainer, MarkUp, Signal, WaitExit,
         MarkDown, WaitGone, Remove, Drop, At, Idle
<1>2. task[t] \in Records /\ s \in Servers /\ task[t].op \in Ops
  BY <1>1, Busy DEF Records
<1>3. ASSUME UNCHANGED <<rows, status, players, container, events, manager, boot, boots>>,
             task' \in [Tasks -> {NoTask} \cup Records]
      PROVE  TypeOK'
  BY <1>3 DEF TypeOK, Records
<1>4. CASE CheckBudget(t)
  BY <1>1, <1>3, <1>4, GotoType, EndsType DEF CheckBudget, Steps
<1>5. CASE Exists(t)
  BY <1>1, <1>3, <1>5, GotoType DEF Exists, Steps
<1>6. CASE Replace(t)
  <2>1. task' \in [Tasks -> {NoTask} \cup Records]
    BY <1>1, <1>6, GotoType DEF Replace, Steps
  <2>2. QED
    BY <1>2, <1>6, <2>1, ForceRemoveType DEF Replace, TypeOK, Records, States
<1>7. CASE Create(t)
  <2>1. task' \in [Tasks -> {NoTask} \cup Records]
    BY <1>1, <1>7, GotoType, EndsType DEF Create, Steps
  <2>2. container' \in [Servers -> States]
    BY <1>2, <1>7, BecomesType DEF Create, States, TypeOK
  <2>3. QED
    BY <1>7, <2>1, <2>2 DEF Create, TypeOK, Records, States
<1>8. CASE RunContainer(t)
  <2>1. task' \in [Tasks -> {NoTask} \cup Records]
    BY <1>1, <1>8, GotoType, EndsType DEF RunContainer, Steps
  <2>2. container' \in [Servers -> States]
    BY <1>2, <1>8, BecomesType DEF RunContainer, States, TypeOK
  <2>3. events' \in [Servers -> Seq({"up", "down"})]
    BY <1>2, <1>8, EmitType DEF RunContainer, TypeOK
  <2>4. QED
    BY <1>8, <2>1, <2>2, <2>3 DEF RunContainer, TypeOK, Records, States
<1>9. CASE MarkUp(t)
  <2>1. task' \in [Tasks -> {NoTask} \cup Records]
    BY <1>9, EndsType DEF MarkUp
  <2>2. status' \in [Servers -> {"running", "stopped"}]
    BY <1>2, <1>9, MarkType DEF MarkUp
  <2>3. QED
    BY <1>9, <2>1, <2>2 DEF MarkUp, TypeOK, Records
<1>10. CASE Signal(t)
  <2>1. AfterMissing(task[t].op) \in Steps /\ AfterStop(task[t].op) \in Steps \ {"idle"}
        /\ AfterFault(task[t].op) \in Steps
    BY DEF AfterMissing, AfterStop, AfterFault, Steps
  <2>2. task' \in [Tasks -> {NoTask} \cup Records]
    BY <1>1, <1>10, <2>1, GotoType, ContinueType DEF Signal, Steps
  <2>3. container' \in [Servers -> States]
    BY <1>2, <1>10, BecomesType DEF Signal, States, TypeOK
  <2>4. events' \in [Servers -> Seq({"up", "down"})]
    BY <1>2, <1>10, EmitType DEF Signal, TypeOK
  <2>5. QED
    BY <1>10, <2>2, <2>3, <2>4 DEF Signal, TypeOK, Records, States
<1>11. CASE WaitExit(t)
  <2>1. AfterStop(task[t].op) \in Steps \ {"idle"}
    BY DEF AfterStop, Steps
  <2>2. QED
    BY <1>1, <1>3, <1>11, <2>1, GotoType DEF WaitExit
<1>12. CASE MarkDown(t)
  <2>1. task' \in [Tasks -> {NoTask} \cup Records]
    BY <1>1, <1>12, ContinueType DEF MarkDown, Steps
  <2>2. status' \in [Servers -> {"running", "stopped"}]
    BY <1>2, <1>12, MarkType DEF MarkDown
  <2>3. QED
    BY <1>12, <2>1, <2>2 DEF MarkDown, TypeOK, Records
<1>13. CASE WaitGone(t)
  BY <1>1, <1>3, <1>13, GotoType, EndsType DEF WaitGone, Steps
<1>14. CASE Remove(t)
  <2>1. task' \in [Tasks -> {NoTask} \cup Records]
    BY <1>1, <1>14, GotoType DEF Remove, Steps
  <2>2. QED
    BY <1>2, <1>14, <2>1, ForceRemoveType DEF Remove, TypeOK, Records, States
<1>15. CASE Drop(t)
  <2>1. task' \in [Tasks -> {NoTask} \cup Records]
    BY <1>15, EndsType DEF Drop
  <2>2. QED
    BY <1>15, <2>1 DEF Drop, TypeOK, Records
<1>16. QED
  BY <1>4, <1>5, <1>6, <1>7, <1>8, <1>9, <1>10, <1>11, <1>12, <1>13, <1>14, <1>15 DEF Step

LEMMA TypeArrive ==
  ASSUME TypeOK, NEW t \in Requests, NEW s \in Servers, NEW op \in Ops \ {"boot", "close"},
         Arrive(t, op, s)
  PROVE  TypeOK'
<1>1. FirstStep(op, s) \in Steps \ {"idle"}
  <2>1. op \in {"start", "auto", "stop", "restart", "delete"}
    BY DEF Ops
  <2>2. QED
    BY <2>1 DEF FirstStep, Steps
<1>2. [pc |-> FirstStep(op, s), op |-> op, server |-> s] \in Records
  BY <1>1 DEF Records
<1>3. QED
  BY <1>2 DEF Arrive, TypeOK, Tasks, Records

LEMMA TypeServer ==
  ASSUME TypeOK, NEW s \in Servers,
         Docker(s) \/ Crash(s) \/ Join(s) \/ Leave(s) \/ ProcessEvent(s) \/ BootGate(s)
  PROVE  TypeOK'
<1>1. CASE Exit(s)
  BY <1>1, BecomesType, EmitType DEF Exit, TypeOK, States
<1>2. CASE Vanish(s)
  BY <1>2, BecomesType, EmitType DEF Vanish, TypeOK, States
<1>3. CASE Crash(s)
  BY <1>3, BecomesType, EmitType DEF Crash, TypeOK, States
<1>4. CASE Join(s)
  BY <1>4 DEF Join, TypeOK
<1>5. CASE Leave(s)
  BY <1>5 DEF Leave, TypeOK
<1>6. CASE ProcessEvent(s)
  <2>1. events[s] \in Seq({"up", "down"}) /\ events[s] # <<>>
    BY <1>6 DEF ProcessEvent, TypeOK
  <2>2. Tail(events[s]) \in Seq({"up", "down"})
    BY <2>1
  <2>3. events' = [events EXCEPT ![s] = Tail(events[s])]
    BY <1>6 DEF ProcessEvent
  <2>4. events' \in [Servers -> Seq({"up", "down"})]
    BY <2>2, <2>3 DEF TypeOK
  <2>5. status' \in [Servers -> {"running", "stopped"}]
    BY <1>6, MarkType DEF ProcessEvent
  <2>6. players' \subseteq Servers
    BY <1>6 DEF ProcessEvent, TypeOK
  <2>7. QED
    BY <1>6, <2>4, <2>5, <2>6 DEF ProcessEvent, TypeOK
<1>7. CASE BootGate(s)
  <2>1. boot.todo \subseteq Flagged /\ boot.chosen \subseteq Flagged /\ s \in boot.todo
    BY <1>7 DEF BootGate, TypeOK
  <2>2. CASE boot' = [todo |-> boot.todo \ {s}, chosen |-> boot.chosen \cup {s}] /\ BootTask(s)
    <3>1. [pc |-> "exists", op |-> "boot", server |-> s] \in Records
      BY DEF Records, Steps, Ops
    <3>2. QED
      BY <1>7, <2>1, <2>2, <3>1 DEF BootGate, BootTask, TypeOK, Tasks, Records
  <2>3. CASE boot' = [boot EXCEPT !.todo = @ \ {s}] /\ UNCHANGED task
    BY <1>7, <2>1, <2>3 DEF BootGate, TypeOK
  <2>4. QED
    BY <1>7, <2>2, <2>3 DEF BootGate
<1>8. QED
  BY <1>1, <1>2, <1>3, <1>4, <1>5, <1>6, <1>7 DEF Docker

LEMMA TypeManager ==
  ASSUME TypeOK, Boot \/ Ready \/ Terminate \/ PowerOff \/ Killed
  PROVE  TypeOK'
<1>1. CASE Boot
  <2>1. boots' \in 0..MaxBoots
    BY <1>1, LifecycleAssumption DEF Boot, TypeOK
  <2>2. status' \in [Servers -> {"running", "stopped"}]
    BY <1>1 DEF Boot, TypeOK
  <2>3. boot' \in [todo : SUBSET Flagged, chosen : SUBSET Flagged]
    BY <1>1 DEF Boot
  <2>4. players' \subseteq Servers
    BY <1>1 DEF Boot, TypeOK
  <2>5. QED
    BY <1>1, <2>1, <2>2, <2>3, <2>4 DEF Boot, TypeOK
<1>2. CASE Ready
  BY <1>2 DEF Ready, TypeOK
<1>3. CASE Terminate
  <2>1. \A t \in rows : [pc |-> "signal", op |-> "close", server |-> t] \in Records
    BY DEF TypeOK, Records, Steps, Ops
  <2>2. task' \in [Tasks -> {NoTask} \cup Records]
    BY <1>3, <2>1 DEF Terminate, TypeOK, Records
  <2>3. QED
    BY <1>3, <2>2 DEF Terminate, TypeOK, Records
<1>4. ASSUME ProcessEnds PROVE TypeOK'
  <2>1. events' \in [Servers -> Seq({"up", "down"})]
    BY <1>4 DEF ProcessEnds
  <2>2. QED
    BY <1>4, <2>1 DEF ProcessEnds, TypeOK, Records
<1>5. QED
  BY <1>1, <1>2, <1>3, <1>4 DEF PowerOff, Killed

LEMMA TypeInit == Init => TypeOK
<1> SUFFICES ASSUME Init PROVE TypeOK
  OBVIOUS
<1>1. events \in [Servers -> Seq({"up", "down"})]
  BY DEF Init
<1>2. boots \in 0..MaxBoots
  BY LifecycleAssumption DEF Init
<1>3. QED
  BY <1>1, <1>2 DEF Init, TypeOK

LEMMA TypeNext == TypeOK /\ [Next]_vars => TypeOK'
<1>1. CASE UNCHANGED vars
  BY <1>1 DEF vars, TypeOK
<1>2. QED
  BY <1>1, TypeStep, TypeArrive, TypeServer, TypeManager DEF Next

\* The variables keep their types: no goroutine is left at a step that does not
\* exist, whatever the order of requests, faults, events, boots and ends.
THEOREM TypeCorrect == Spec => []TypeOK
BY TypeInit, TypeNext, PTL DEF Spec

-------------------------------------------------------------------------------
(***************************************************************************)
(* The budget of a boot                                                    *)
(***************************************************************************)
LEMMA BudgetNext ==
  ASSUME TypeOK, BootWithinBudget, [Next]_vars
  PROVE  BootWithinBudget'
<1>1. IsFiniteSet(boot.chosen)
  BY FS_Subset, LifecycleAssumption DEF TypeOK
<1>2. ASSUME NEW s \in Servers, BootGate(s)
      PROVE  BootWithinBudget'
  <2>1. CASE boot'.chosen = boot.chosen
    BY <2>1 DEF BootWithinBudget
  <2>2. CASE WithinBudget(Cardinality(boot.chosen)) /\ boot'.chosen = boot.chosen \cup {s}
    <3>1. Cardinality(boot.chosen) \in Nat
      BY <1>1, FS_CardinalityType
    <3>2. Cardinality(boot.chosen) + 1 <= Budget
      BY <2>2, <3>1, LifecycleAssumption DEF WithinBudget
    <3>3. \/ Cardinality(boot.chosen \cup {s}) = Cardinality(boot.chosen)
          \/ Cardinality(boot.chosen \cup {s}) = Cardinality(boot.chosen) + 1
      BY <1>1, FS_AddElement, Zenon
    <3>4. \/ Cardinality(boot'.chosen) = Cardinality(boot.chosen)
          \/ Cardinality(boot'.chosen) = Cardinality(boot.chosen) + 1
      BY <2>2, <3>3, Zenon
    <3>5. QED
      BY <3>1, <3>2, <3>4, LifecycleAssumption DEF BootWithinBudget
  <2>3. QED
    BY <1>2, <2>1, <2>2 DEF BootGate, TypeOK
<1>3. CASE boot' = boot
  BY <1>3 DEF BootWithinBudget
<1>4. CASE boot'.chosen = {}
  BY <1>4, FS_EmptySet, LifecycleAssumption DEF BootWithinBudget
<1>5. ASSUME NEW t \in Tasks, Step(t)
      PROVE  boot' = boot
  BY <1>5 DEF Step, CheckBudget, Exists, Replace, Create, RunContainer, MarkUp, Signal, WaitExit,
         MarkDown, WaitGone, Remove, Drop
<1>6. ASSUME NEW s \in Servers, Docker(s) \/ Crash(s) \/ Join(s) \/ Leave(s) \/ ProcessEvent(s)
      PROVE  boot' = boot
  BY <1>6 DEF Docker, Exit, Vanish, Crash, Join, Leave, ProcessEvent
<1>7. QED
  BY <1>2, <1>3, <1>4, <1>5, <1>6
     DEF Next, vars, Arrive, Boot, Ready, Terminate, PowerOff, Killed, ProcessEnds

\* startOnBoot lets start no more than fits in the budget, however late the
\* memory of what it starts shows up in Docker's figures (committedMB).
THEOREM BootWithinBudgetHolds == Spec => []BootWithinBudget
<1>1. Init => BootWithinBudget
  BY FS_EmptySet, LifecycleAssumption DEF Init, BootWithinBudget
<1>2. QED
  BY <1>1, BudgetNext, TypeCorrect, PTL DEF Spec

-------------------------------------------------------------------------------
(***************************************************************************)
(* Players of servers without a container                                  *)
(***************************************************************************)
\* NoGhosts speaks of settled states and is not inductive.  While the manager
\* serves, a server whose container has gone from under its players has a "down"
\* among its unread events; while it boots, there is no such server.
Heard(s) == Serving /\ \E i \in 1..Len(events[s]) : events[s][i] = "down"

GhostsHeard ==
  manager # "off" => \A s \in players \cap rows : container[s] = "none" => Heard(s)

\* An event that comes is heard as long as it waits behind another.
LEMMA EmitHeard ==
  ASSUME TypeOK, NEW s \in Servers, NEW event \in {"up", "down"}, Emit(s, event), UNCHANGED manager
  PROVE  /\ \A r \in Servers : Heard(r) => Heard(r)'
         /\ event = "down" /\ Serving => Heard(s)'
<1> DEFINE e == Append(events[s], event)
<1>1. events[s] \in Seq({"up", "down"})
  BY DEF TypeOK
<1>2. /\ Len(e) = Len(events[s]) + 1
      /\ \A i \in 1..Len(events[s]) : e[i] = events[s][i]
      /\ e[Len(events[s]) + 1] = event
      /\ Len(events[s]) \in Nat
  BY <1>1
<1>3. CASE Serving /\ events' = [events EXCEPT ![s] = e]
  <2>1. events'[s] = e /\ \A r \in Servers \ {s} : events'[r] = events[r]
    BY <1>3 DEF TypeOK
  <2>2. \A r \in Servers \ {s} : Heard(r) => Heard(r)'
    BY <2>1 DEF Heard, Serving
  <2>3. Heard(s) => Heard(s)'
    BY <1>2, <2>1 DEF Heard, Serving
  <2>4. event = "down" /\ Serving => Heard(s)'
    BY <1>2, <2>1 DEF Heard, Serving
  <2>5. QED
    BY <2>2, <2>3, <2>4
<1>4. CASE ~Serving /\ events' = events
  BY <1>4 DEF Heard, Serving
<1>5. QED
  BY <1>3, <1>4 DEF Emit

\* What leaves the players, the rows and the manager alone keeps GhostsHeard when
\* no container goes unheard and no event is forgotten.
LEMMA SameGhosts ==
  ASSUME GhostsHeard, UNCHANGED <<rows, players, manager>>, rows \subseteq Servers,
         \A s \in Servers : Heard(s) => Heard(s)',
         \A s \in Servers : manager # "off" /\ container'[s] = "none"
                             => container[s] = "none" \/ Heard(s)'
  PROVE  GhostsHeard'
BY DEF GhostsHeard

\* Without events: no container goes.
LEMMA QuietGhosts ==
  ASSUME GhostsHeard, UNCHANGED <<events, manager>>, players' \subseteq players,
         rows' \subseteq rows, rows \subseteq Servers,
         \A s \in Servers : container'[s] = "none" => container[s] = "none"
  PROVE  GhostsHeard'
BY DEF GhostsHeard, Heard, Serving

\* A container that goes is heard, or nobody has to: the manager is off.
LEMMA GoneHeard ==
  ASSUME TypeOK, GhostsHeard, NoneGoesAtBoot, NEW s \in Servers, NEW state \in States,
         Becomes(s, state), Emit(s, "down"), UNCHANGED <<rows, players, manager>>
  PROVE  GhostsHeard'
<1>1. \A r \in Servers : Heard(r) => Heard(r)'
  BY EmitHeard
<1>2. Serving => Heard(s)'
  BY EmitHeard
<1>3. \A r \in Servers \ {s} : container'[r] = container[r]
  BY DEF Becomes, TypeOK
<1>4. manager \in {"off", "boot"} \/ Serving
  BY DEF TypeOK, Serving
<1>5. \A r \in Servers : manager # "off" /\ container'[r] = "none"
                         => container[r] = "none" \/ Heard(r)'
  BY <1>2, <1>3, <1>4 DEF NoneGoesAtBoot
<1>6. QED
  BY <1>1, <1>5, SameGhosts DEF TypeOK

LEMMA GhostsStep ==
  ASSUME TypeOK, GhostsHeard, NoneGoesAtBoot, NEW t \in Tasks, Step(t)
  PROVE  GhostsHeard'
<1> DEFINE s == task[t].server
<1>1. ~Idle(t)
  BY DEF Step, CheckBudget, Exists, Replace, Create, RunContainer, MarkUp, Signal, WaitExit,
         MarkDown, WaitGone, Remove, Drop, At, Idle
<1>2. s \in Servers
  BY <1>1, Busy DEF Records
<1>3. CASE UNCHANGED <<players, container, events, manager>> /\ rows' \subseteq rows
  BY <1>3, QuietGhosts DEF TypeOK
<1>4. ASSUME UNCHANGED <<rows, players, manager>>, ForceRemove(s)
      PROVE  GhostsHeard'
  BY <1>2, <1>3, <1>4, GoneHeard DEF ForceRemove, States
<1>5. CASE Create(t)
  <2>1. CASE UNCHANGED container
    BY <1>3, <1>5, <2>1 DEF Create
  <2>2. CASE Becomes(s, "created")
    BY <1>5, <2>2, QuietGhosts DEF Create, Becomes, TypeOK
  <2>3. QED
    BY <1>5, <2>1, <2>2 DEF Create
<1>6. CASE RunContainer(t)
  <2>1. CASE UNCHANGED <<container, events>>
    BY <1>3, <1>6, <2>1 DEF RunContainer
  <2>2. CASE container[s] = "created" /\ Becomes(s, "running") /\ Emit(s, "up")
    <3>1. \A r \in Servers : Heard(r) => Heard(r)'
      BY <1>2, <1>6, <2>2, EmitHeard DEF RunContainer
    <3>2. \A r \in Servers : container'[r] = "none" => container[r] = "none"
      BY <2>2 DEF Becomes, TypeOK
    <3>3. QED
      BY <1>6, <3>1, <3>2, SameGhosts DEF RunContainer, TypeOK
  <2>3. QED
    BY <1>6, <2>1, <2>2 DEF RunContainer
<1>7. CASE Signal(t)
  <2>1. CASE UNCHANGED <<container, events>>
    BY <1>3, <1>7, <2>1 DEF Signal
  <2>2. CASE Becomes(s, "stopping") /\ Emit(s, "down")
    BY <1>2, <1>7, <2>2, GoneHeard DEF Signal, States
  <2>3. QED
    BY <1>7, <2>1, <2>2 DEF Signal
<1>8. CASE Replace(t) \/ Remove(t)
  BY <1>4, <1>8 DEF Replace, Remove
<1>9. CASE CheckBudget(t) \/ Exists(t) \/ MarkUp(t) \/ WaitExit(t) \/ MarkDown(t) \/ WaitGone(t) \/ Drop(t)
  BY <1>3, <1>9 DEF CheckBudget, Exists, MarkUp, WaitExit, MarkDown, WaitGone, Drop
<1>10. QED
  BY <1>5, <1>6, <1>7, <1>8, <1>9 DEF Step

\* An event that is read has its players cleared, or leaves the others unread.
LEMMA GhostsRead ==
  ASSUME TypeOK, GhostsHeard, NEW s \in Servers, ProcessEvent(s)
  PROVE  GhostsHeard'
<1> SUFFICES ASSUME NEW r \in players' \cap rows', container'[r] = "none"
             PROVE  Heard(r)'
  BY DEF GhostsHeard
<1>1. r \in players \cap rows /\ r \in Servers /\ container[r] = "none" /\ Heard(r)
  BY DEF ProcessEvent, GhostsHeard, TypeOK, Serving
<1>2. CASE r # s
  BY <1>1, <1>2 DEF ProcessEvent, Heard, Serving, TypeOK
<1>3. CASE r = s
  <2>1. events[s] \in Seq({"up", "down"}) /\ events[s] # <<>>
    BY DEF ProcessEvent, TypeOK
  <2>2. Head(events[s]) # "down"
    BY <1>1, <1>3 DEF ProcessEvent
  <2>3. PICK i \in 1..Len(events[s]) : events[s][i] = "down"
    BY <1>1, <1>3 DEF Heard
  <2>4. i # 1
    BY <2>1, <2>2, <2>3
  <2>5. /\ Len(Tail(events[s])) = Len(events[s]) - 1
        /\ i - 1 \in 1..Len(Tail(events[s]))
        /\ Tail(events[s])[i - 1] = events[s][i]
    BY <2>1, <2>3, <2>4
  <2>6. events'[s] = Tail(events[s])
    BY DEF ProcessEvent, TypeOK
  <2>7. QED
    BY <1>3, <2>3, <2>5, <2>6 DEF ProcessEvent, Heard, Serving
<1>4. QED
  BY <1>2, <1>3

LEMMA GhostsNext ==
  ASSUME TypeOK, GhostsHeard, [Next /\ NoneGoesAtBoot]_vars
  PROVE  GhostsHeard'
<1>1. CASE UNCHANGED vars
  BY <1>1 DEF vars, GhostsHeard, Heard, Serving
<1>2. ASSUME NEW t \in Requests, NEW s \in Servers, NEW op \in Ops, Arrive(t, op, s)
      PROVE  GhostsHeard'
  BY <1>2, QuietGhosts DEF Arrive, TypeOK
<1>3. ASSUME NEW s \in Servers, NoneGoesAtBoot, Docker(s) \/ Crash(s)
      PROVE  GhostsHeard'
  BY <1>3, GoneHeard DEF Docker, Exit, Vanish, Crash, States
<1>4. ASSUME NEW s \in Servers, Join(s)
      PROVE  GhostsHeard'
  BY <1>4 DEF Join, GhostsHeard, Heard, Serving
<1>5. ASSUME NEW s \in Servers, Leave(s) \/ BootGate(s)
      PROVE  GhostsHeard'
  BY <1>5, QuietGhosts DEF Leave, BootGate, TypeOK
<1>6. CASE Boot
  BY <1>6 DEF Boot, GhostsHeard, TypeOK
<1>7. CASE Ready
  BY <1>7 DEF Ready, GhostsHeard, Heard, Serving
<1>8. CASE Terminate
  BY <1>8 DEF Terminate, GhostsHeard, Heard, Serving
<1>9. CASE PowerOff \/ Killed
  BY <1>9 DEF PowerOff, Killed, ProcessEnds, GhostsHeard
<1>10. QED
  BY <1>1, <1>2, <1>3, <1>4, <1>5, <1>6, <1>7, <1>8, <1>9, GhostsStep, GhostsRead DEF Next

\* When all has settled no server without a container has players
\* (broadcastStatusChange), whatever requests overlap and whatever events a
\* killed manager never read, as long as none goes in the gap at boot.
THEOREM NoGhostsHolds == WatchedSpec => []NoGhosts
<1>1. Init => GhostsHeard
  BY DEF Init, GhostsHeard
<1>2. TypeOK /\ [Next /\ NoneGoesAtBoot]_vars => TypeOK'
  BY TypeNext
<1>3. TypeOK /\ GhostsHeard => NoGhosts
  BY DEF TypeOK, GhostsHeard, NoGhosts, Settled, Heard
<1>4. TypeOK /\ GhostsHeard /\ [Next /\ NoneGoesAtBoot]_vars => GhostsHeard'
  BY GhostsNext
<1>5. QED
  BY <1>1, <1>2, <1>3, <1>4, TypeInit, PTL DEF WatchedSpec

\* All three, as the run on a small instance checks them.
THEOREM LifecycleInvHolds == WatchedSpec => []LifecycleInv
<1>1. [Next /\ NoneGoesAtBoot]_vars => [Next]_vars
  OBVIOUS
<1>2. TypeOK /\ NoGhosts /\ BootWithinBudget => LifecycleInv
  BY DEF LifecycleInv
<1>3. QED
  BY <1>1, <1>2, TypeCorrect, BootWithinBudgetHolds, NoGhostsHolds, PTL DEF WatchedSpec, Spec

-------------------------------------------------------------------------------
(***************************************************************************)
(* One request at a time                                                   *)
(***************************************************************************)
\* One request at a time: no two goroutines work on one server, and those of
\* the manager on their own; at boot there are no others.
Apart ==
  /\ \A t, u \in Tasks : ~Idle(t) /\ ~Idle(u) /\ task[t].server = task[u].server => t = u
  /\ \A s \in Servers : ~Idle(s) => task[s].server = s
  /\ manager = "off" => \A t \in Tasks : Idle(t)
  /\ manager = "boot" =>
       /\ \A t \in Tasks : ~Idle(t) => t \in Servers /\ task[t].op = "boot"
       /\ \A s \in boot.todo : Idle(s)

Starting == {"budget", "exists", "replace", "create", "run", "markUp"}

\* What a goroutine knows of the container it works on.
Known(t) ==
  LET state == container[task[t].server] IN
  /\ task[t].op \in {"start", "auto", "boot"} => task[t].pc \in Starting
  /\ task[t].pc \in {"replace", "create"} => state = "none"
  /\ task[t].pc = "markUp" => state = "running"
  /\ task[t].pc \in {"markDown", "waitGone", "remove"} => state \in {"none", "created", "exited"}
  /\ task[t].pc = "exit" => state \in {"stopping", "exited", "none"}
  /\ task[t].pc # "exit" => state # "stopping"

\* A container that stops has a goroutine that waits for it.
Awaited ==
  \A s \in Servers : container[s] = "stopping" =>
    \E t \in Tasks : ~Idle(t) /\ task[t].server = s

\* What the table will say once the unread events are read.
Final(s) ==
  IF events[s] = <<>> THEN status[s]
  ELSE IF events[s][Len(events[s])] = "up" THEN "running" ELSE "stopped"

\* While the manager serves, the table will say what Docker does; before that,
\* what it says is as good as the last boot left it.
WillAgree(s) ==
  /\ Serving => (Final(s) = "running" <=> container[s] = "running")
  /\ manager = "off" =>
       /\ container[s] = "running" => status[s] = "running"
       /\ status[s] = "running" => container[s] \in {"running", "exited", "none"}
  /\ manager = "boot" =>
       /\ container[s] = "running" =>
            status[s] = "running" \/ \E t \in Tasks : At(t, "markUp") /\ task[t].server = s
       /\ status[s] = "running" => container[s] \in {"running", "exited"}

OneByOne ==
  /\ Apart
  /\ \A t \in Tasks : ~Idle(t) => Known(t)
  /\ Awaited
  /\ ~Serving => \A s \in Servers : events[s] = <<>>
  /\ \A s \in rows : WillAgree(s)

SerialInv == serial => OneByOne

\* What MCNext demands of a serial behaviour.
InTurn ==
  /\ Next /\ NoneGoesAtBoot
  /\ (\E t \in Requests : Starts(t)) => Calm
  /\ (\E s \in Servers : container[s] = "running" /\ container'[s] = "exited") => Calm
  /\ manager' # manager => Calm

LEMMA FinalEmit ==
  ASSUME TypeOK, Serving, NEW s \in Servers, NEW event \in {"up", "down"}, Emit(s, event)
  PROVE  /\ Final(s)' = IF event = "up" THEN "running" ELSE "stopped"
         /\ \A r \in Servers \ {s} : events'[r] = events[r]
<1> DEFINE e == Append(events[s], event)
<1>1. events[s] \in Seq({"up", "down"})
  BY DEF TypeOK
<1>2. e # <<>> /\ e[Len(e)] = event
  BY <1>1
<1>3. events'[s] = e /\ \A r \in Servers \ {s} : events'[r] = events[r]
  BY DEF Emit, TypeOK
<1> HIDE DEF e
<1>4. QED
  BY <1>2, <1>3 DEF Final

\* Who is not idle when Calm is asked for: nobody.
LEMMA CalmFacts ==
  ASSUME TypeOK, OneByOne, Calm
  PROVE  /\ \A t \in Tasks : Idle(t)
         /\ \A s \in Servers : container[s] \in {"none", "created", "running"} /\ events[s] = <<>>
BY DEF TypeOK, Calm

\* A goroutine moves on: what is to be shown is about its own server.
LEMMA MoveOn ==
  ASSUME TypeOK, TypeOK', OneByOne, NEW t \in Tasks, ~Idle(t), NEW s, s = task[t].server,
         NEW x \in {NoTask} \cup Records, task' = [task EXCEPT ![t] = x],
         x # NoTask => x.server = s /\ x.op = task[t].op /\ Known(t)',
         \A r \in Servers \ {s} : /\ container'[r] = container[r]
                                 /\ events'[r] = events[r]
                                 /\ status'[r] = status[r],
         UNCHANGED <<manager, boot>>, rows' \subseteq rows,
         container'[s] = "stopping" => x # NoTask,
         ~Serving => events' = events,
         s \in rows' => WillAgree(s)'
  PROVE  OneByOne'
<1>1. s \in Servers /\ task[t] \in Records
  BY Busy DEF Records
<1>2. /\ task'[t] = x
      /\ \A u \in Tasks \ {t} : task'[u] = task[u]
      /\ (~Idle(t)' <=> x # NoTask)
  BY DEF TypeOK, Idle, At, NoTask, Records, Steps
<1>3. \A u \in Tasks \ {t} : ~Idle(u)' =>
        ~Idle(u) /\ task[u].server \in Servers \ {s} /\ task'[u] = task[u]
  BY <1>2, Busy DEF OneByOne, Apart, Idle, At, Records
<1>4. Apart'
  BY <1>1, <1>2, <1>3 DEF OneByOne, Apart, Idle, At, Tasks
<1>5. \A u \in Tasks : ~Idle(u)' => Known(u)'
  <2> SUFFICES ASSUME NEW u \in Tasks \ {t}, ~Idle(u)' PROVE Known(u)'
    BY <1>2
  <2>1. Known(u) /\ task'[u] = task[u] /\ container'[task[u].server] = container[task[u].server]
    BY <1>3 DEF OneByOne
  <2>2. QED
    BY <2>1 DEF Known
<1>6. Awaited'
  <2> SUFFICES ASSUME NEW r \in Servers, container'[r] = "stopping"
               PROVE  \E u \in Tasks : ~Idle(u)' /\ task'[u].server = r
    BY DEF Awaited
  <2>1. CASE r = s
    BY <1>2, <2>1
  <2>2. CASE r # s
    <3>1. PICK u \in Tasks : ~Idle(u) /\ task[u].server = r
      BY <2>2 DEF OneByOne, Awaited
    <3>2. u # t
      BY <2>2, <3>1
    <3>3. QED
      BY <1>2, <3>1, <3>2 DEF Idle, At
  <2>3. QED
    BY <2>1, <2>2
<1>7. ~Serving' => \A r \in Servers : events'[r] = <<>>
  BY DEF OneByOne, Serving
<1>8. ASSUME NEW r \in rows', r # s PROVE WillAgree(r)'
  <2>1. r \in rows /\ r \in Servers /\ WillAgree(r)
    BY <1>8 DEF OneByOne, TypeOK
  <2>2. Final(r)' = Final(r) /\ container'[r] = container[r] /\ status'[r] = status[r]
    BY <1>8, <2>1 DEF Final
  <2>3. ASSUME NEW u \in Tasks, At(u, "markUp"), task[u].server = r
        PROVE  At(u, "markUp")' /\ task'[u].server = r
    BY <1>2, <1>8, <2>3 DEF At
  <2>4. QED
    BY <2>1, <2>2, <2>3 DEF WillAgree, Serving
<1>9. QED
  BY <1>4, <1>5, <1>6, <1>7, <1>8 DEF OneByOne

\* Where nothing but the goroutine changes, the table goes on to agree, unless
\* it was about to write "running".
LEMMA Unmoved ==
  ASSUME TypeOK, OneByOne, NEW t \in Tasks, ~At(t, "markUp"), NEW s \in rows,
         \A u \in Tasks \ {t} : task'[u] = task[u],
         UNCHANGED <<container, events, status, manager>>
  PROVE  WillAgree(s)'
<1>1. Final(s)' = Final(s) /\ WillAgree(s)
  BY DEF Final, OneByOne
<1>2. ASSUME NEW u \in Tasks, At(u, "markUp"), task[u].server = s
      PROVE  At(u, "markUp")' /\ task'[u].server = s
  BY <1>2 DEF At
<1>3. QED
  BY <1>1, <1>2 DEF WillAgree, Serving

LEMMA SerialStep ==
  ASSUME TypeOK, TypeOK', OneByOne, NEW t \in Tasks, Step(t)
  PROVE  OneByOne'
<1>1. ~Idle(t)
  BY DEF Step, CheckBudget, Exists, Replace, Create, RunContainer, MarkUp, Signal, WaitExit,
         MarkDown, WaitGone, Remove, Drop, At, Idle
<1> SUFFICES ASSUME NEW s \in Servers, NEW op \in Ops, NEW pc \in Steps \ {"idle"},
                    task[t] = [pc |-> pc, op |-> op, server |-> s]
             PROVE  OneByOne'
  BY <1>1, Busy DEF Records
<1> DEFINE To(step) == [pc |-> step, op |-> op, server |-> s]
<1>2. task[t] \in Records /\ task[t].server = s /\ task[t].op = op /\ task[t].pc = pc
  BY DEF Records
<1>3. Known(t) /\ manager # "off"
  BY <1>1 DEF OneByOne, Apart
<1>4. manager = "boot" => op = "boot"
  BY <1>1 DEF OneByOne, Apart
<1>5. ASSUME NEW step \in Steps \ {"idle"}, Goto(t, step)
      PROVE  /\ task' = [task EXCEPT ![t] = To(step)]
             /\ To(step) \in Records /\ To(step) # NoTask
             /\ task'[t] = To(step)
             /\ \A u \in Tasks \ {t} : task'[u] = task[u]
  <2>1. To(step) \in Records /\ To(step) # NoTask
    BY <1>2 DEF Records, NoTask, Steps
  <2>2. QED
    BY <1>1, <1>5, <2>1, GotoType DEF TypeOK
<1>6. ASSUME Ends(t)
      PROVE  /\ task' = [task EXCEPT ![t] = NoTask]
             /\ \A u \in Tasks \ {t} : task'[u] = task[u]
  BY <1>6 DEF Ends, TypeOK
\* Nothing changes but the goroutine.
<1>7. ASSUME UNCHANGED <<container, events, status, manager, boot>>, rows' \subseteq rows,
             ~At(t, "markUp"), Ends(t), container[s] # "stopping"
      PROVE  OneByOne'
  <2>1. s \in rows' => WillAgree(s)'
    BY <1>6, <1>7, Unmoved DEF TypeOK
  <2>2. QED
    BY <1>1, <1>6, <1>7, <2>1, MoveOn
<1>8. ASSUME UNCHANGED <<container, events, status, manager, boot, rows>>,
             ~At(t, "markUp"), NEW step \in Steps \ {"idle"}, Goto(t, step), Known(t)'
      PROVE  OneByOne'
  <2>1. s \in rows' => WillAgree(s)'
    BY <1>5, <1>8, Unmoved DEF TypeOK
  <2>2. QED
    <3> HIDE DEF To
    <3>1. To(step).server = s /\ To(step).op = op
      BY DEF To
    <3>2. QED
      BY <1>1, <1>5, <1>8, <2>1, <3>1, MoveOn
<1>9. CASE CheckBudget(t)
  <2>1. pc = "budget" /\ container[s] # "stopping" /\ UNCHANGED container
    BY <1>3, <1>9 DEF CheckBudget, Known, At
  <2>2. CASE Goto(t, "exists")
    <3>1. task'[t] = To("exists")
      BY <1>5, <2>2 DEF Steps
    <3>2. Known(t)'
      BY <2>1, <3>1 DEF Known, Starting
    <3>3. QED
      BY <1>8, <1>9, <2>2, <3>2 DEF CheckBudget, Steps, At
  <2>3. QED
    BY <1>7, <1>9, <2>1, <2>2 DEF CheckBudget, At
<1>10. CASE Exists(t)
  <2>1. pc = "exists" /\ container[s] # "stopping" /\ UNCHANGED container
    BY <1>3, <1>10 DEF Exists, Known, At
  <2>2. PICK step \in {"replace", "run"} :
          Goto(t, step) /\ (step = "replace" => container[s] = "none")
    BY <1>10 DEF Exists
  <2>3. task'[t] = To(step)
    BY <1>5, <2>2 DEF Steps
  <2>4. Known(t)'
    BY <2>1, <2>2, <2>3 DEF Known, Starting
  <2>5. QED
    BY <1>8, <1>10, <2>2, <2>4 DEF Exists, Steps, At
<1>11. CASE Replace(t)
  <2>1. pc = "replace" /\ container[s] = "none" /\ UNCHANGED <<container, events>>
    BY <1>3, <1>11 DEF Replace, Known, At, ForceRemove
  <2>2. task'[t] = To("create")
    BY <1>5, <1>11 DEF Replace, Steps
  <2>3. Known(t)'
    BY <2>1, <2>2 DEF Known, Starting
  <2>4. QED
    BY <1>8, <1>11, <2>1, <2>3 DEF Replace, Steps, At
<1>12. CASE Create(t)
  <2>1. pc = "create" /\ container[s] = "none"
    BY <1>3, <1>12 DEF Create, Known, At
  <2>2. CASE Ends(t) /\ UNCHANGED container
    BY <1>7, <1>12, <2>1, <2>2 DEF Create, At
  <2>3. CASE Becomes(s, "created") /\ Goto(t, "run")
    <3>1. task'[t] = To("run") /\ \A u \in Tasks \ {t} : task'[u] = task[u]
      BY <1>5, <2>3 DEF Steps
    <3>2. container'[s] = "created" /\ \A r \in Servers \ {s} : container'[r] = container[r]
      BY <1>2, <2>3 DEF Becomes, TypeOK
    <3>3. Known(t)'
      BY <3>1, <3>2 DEF Known, Starting
    <3>4. ASSUME s \in rows PROVE WillAgree(s)'
      <4>1. WillAgree(s) /\ Final(s)' = Final(s) /\ status' = status /\ manager' = manager
        BY <1>12, <3>4 DEF OneByOne, Final, Create
      <4>2. QED
        BY <1>3, <2>1, <3>2, <4>1 DEF WillAgree, Serving
    <3>5. QED
      <4>1. To("run").server = s /\ To("run").op = op
        OBVIOUS
      <4>2. task' = [task EXCEPT ![t] = To("run")] /\ To("run") \in Records
        BY <1>5, <2>3 DEF Steps
      <4>3. UNCHANGED <<rows, status, events, manager, boot>>
        BY <1>12 DEF Create
      <4> HIDE DEF To
      <4>4. QED
        BY <1>1, <1>2, <3>2, <3>3, <3>4, <4>1, <4>2, <4>3, MoveOn
  <2>4. QED
    BY <1>12, <2>2, <2>3 DEF Create
<1>13. CASE RunContainer(t)
  <2>1. pc = "run" /\ container[s] # "stopping"
    BY <1>3, <1>13 DEF RunContainer, Known, At
  <2>2. CASE Ends(t) /\ UNCHANGED <<container, events>>
    BY <1>7, <1>13, <2>1, <2>2 DEF RunContainer, At
  <2>3. CASE Alive(s) /\ Goto(t, "markUp") /\ UNCHANGED <<container, events>>
    <3>1. task'[t] = To("markUp")
      BY <1>5, <2>3 DEF Steps
    <3>2. Known(t)'
      BY <2>1, <2>3, <3>1 DEF Known, Starting, Alive
    <3>3. QED
      BY <1>8, <1>13, <2>1, <2>3, <3>2 DEF RunContainer, Steps, At
  <2>4. CASE Becomes(s, "running") /\ Emit(s, "up") /\ Goto(t, "markUp")
    <3>1. task'[t] = To("markUp")
      BY <1>5, <2>4 DEF Steps
    <3>2. container'[s] = "running" /\ \A r \in Servers \ {s} : container'[r] = container[r]
      BY <1>2, <2>4 DEF Becomes, TypeOK
    <3>3. Known(t)'
      BY <3>1, <3>2 DEF Known, Starting
    <3>4. /\ Serving => Final(s)' = "running"
          /\ ~Serving => events' = events
          /\ \A r \in Servers \ {s} : events'[r] = events[r]
      BY <1>2, <2>4, FinalEmit DEF Emit
    <3>5. WillAgree(s)'
      BY <1>3, <1>13, <3>1, <3>2, <3>4 DEF WillAgree, Serving, RunContainer, At
    <3>6. QED
      <4>1. To("markUp").server = s /\ To("markUp").op = op
        OBVIOUS
      <4>2. task' = [task EXCEPT ![t] = To("markUp")] /\ To("markUp") \in Records
        BY <1>5, <2>4 DEF Steps
      <4>3. UNCHANGED <<rows, status, manager, boot>>
        BY <1>13 DEF RunContainer
      <4> HIDE DEF To
      <4>4. QED
        BY <1>1, <1>2, <3>2, <3>3, <3>4, <3>5, <4>1, <4>2, <4>3, MoveOn
  <2>5. QED
    BY <1>13, <2>2, <2>3, <2>4 DEF RunContainer
<1>14. CASE MarkUp(t)
  <2>1. pc = "markUp" /\ container[s] = "running"
    BY <1>3, <1>14 DEF MarkUp, Known, At
  <2>2. ASSUME s \in rows PROVE WillAgree(s)'
    <3>1. status'[s] = "running" /\ UNCHANGED <<container, events, manager>>
      BY <1>2, <1>14, <2>2 DEF MarkUp, Mark, TypeOK
    <3>2. WillAgree(s)
      BY <2>2 DEF OneByOne
    <3>3. Serving => Final(s)' = "running"
      BY <2>1, <3>1, <3>2 DEF Final, WillAgree
    <3>4. QED
      BY <1>3, <2>1, <3>1, <3>3 DEF WillAgree, Serving
  <2>3. /\ UNCHANGED <<container, events, manager, boot, rows>> /\ Ends(t)
        /\ \A r \in Servers \ {s} : status'[r] = status[r]
    BY <1>14 DEF MarkUp, Mark, TypeOK
  <2>4. QED
    BY <1>1, <1>6, <2>1, <2>2, <2>3, MoveOn
<1>15. CASE Signal(t)
  <2>1. pc = "signal" /\ op \notin {"start", "auto", "boot"} /\ container[s] # "stopping"
    BY <1>3, <1>15 DEF Signal, Known, At, Starting
  <2>2. ASSUME NEW step \in Steps, Continue(t, step), UNCHANGED <<container, events>>,
               step \in {"idle", "drop", "markDown"},
               step = "markDown" => container[s] \in {"none", "created", "exited"}
        PROVE  OneByOne'
    <3>1. CASE step = "idle"
      BY <1>7, <1>15, <2>1, <2>2, <3>1 DEF Continue, Signal, At
    <3>2. CASE step # "idle"
      <4>1. Goto(t, step) /\ task'[t] = To(step)
        BY <1>5, <2>2, <3>2 DEF Continue
      <4>2. Known(t)'
        BY <2>1, <2>2, <3>2, <4>1 DEF Known, Starting
      <4>3. QED
        BY <1>8, <1>15, <2>1, <2>2, <3>2, <4>1, <4>2 DEF Signal, At
    <3>3. QED
      BY <3>1, <3>2
  <2>3. CASE container[s] = "none" /\ Continue(t, AfterMissing(op)) /\ UNCHANGED <<container, events>>
    BY <2>2, <2>3 DEF AfterMissing, Steps
  <2>4. CASE container[s] \in {"created", "exited"} /\ Goto(t, AfterStop(op))
             /\ UNCHANGED <<container, events>>
    BY <2>2, <2>4 DEF AfterStop, Steps, Continue
  <2>5. CASE Continue(t, AfterFault(op)) /\ UNCHANGED <<container, events>>
    BY <2>2, <2>5 DEF AfterFault, Steps
  <2>6. CASE Becomes(s, "stopping") /\ Emit(s, "down") /\ Goto(t, "exit")
    <3>1. task'[t] = To("exit")
      BY <1>5, <2>6 DEF Steps
    <3>2. container'[s] = "stopping" /\ \A r \in Servers \ {s} : container'[r] = container[r]
      BY <1>2, <2>6 DEF Becomes, TypeOK
    <3>3. Known(t)'
      BY <2>1, <3>1, <3>2 DEF Known, Starting
    <3>4. Serving
      BY <1>3, <1>4, <2>1 DEF Serving, TypeOK
    <3>5. Final(s)' = "stopped" /\ \A r \in Servers \ {s} : events'[r] = events[r]
      BY <1>2, <2>6, <3>4, FinalEmit
    <3>6. WillAgree(s)'
      BY <1>15, <3>2, <3>4, <3>5 DEF WillAgree, Serving, Signal
    <3>7. QED
      <4>1. To("exit").server = s /\ To("exit").op = op
        OBVIOUS
      <4>2. task' = [task EXCEPT ![t] = To("exit")] /\ To("exit") \in Records /\ To("exit") # NoTask
        BY <1>5, <2>6 DEF Steps
      <4>3. UNCHANGED <<rows, status, manager, boot>>
        BY <1>15 DEF Signal
      <4> HIDE DEF To
      <4>4. QED
        BY <1>1, <1>2, <3>2, <3>3, <3>4, <3>5, <3>6, <4>1, <4>2, <4>3, MoveOn
  <2>7. QED
    BY <1>15, <2>1, <2>3, <2>4, <2>5, <2>6 DEF Signal
<1>16. CASE WaitExit(t)
  <2>1. /\ pc = "exit" /\ op \notin {"start", "auto", "boot"}
        /\ container[s] \in {"exited", "none"} /\ UNCHANGED container
    BY <1>2, <1>3, <1>16 DEF WaitExit, Known, At, Starting
  <2>2. PICK step \in {"drop", "markDown"} : Goto(t, step)
    BY <1>16 DEF WaitExit, AfterStop
  <2>3. task'[t] = To(step)
    BY <1>5, <2>2 DEF Steps
  <2>4. Known(t)'
    BY <2>1, <2>3 DEF Known, Starting
  <2>5. QED
    BY <1>2, <1>8, <1>16, <2>1, <2>2, <2>4 DEF WaitExit, Steps, At
<1>17. CASE MarkDown(t)
  <2>1. /\ pc = "markDown" /\ op \notin {"start", "auto", "boot"}
        /\ container[s] \in {"none", "created", "exited"}
    BY <1>2, <1>3, <1>17 DEF MarkDown, Known, At, Starting
  <2>2. Serving
    BY <1>3, <1>4, <2>1 DEF Serving, TypeOK
  <2>3. ASSUME s \in rows PROVE WillAgree(s)'
    <3>1. status'[s] = "stopped" /\ UNCHANGED <<container, events, manager>>
      BY <1>2, <1>17, <2>3 DEF MarkDown, Mark, TypeOK
    <3>2. WillAgree(s)
      BY <2>3 DEF OneByOne
    <3>3. Final(s)' # "running"
      BY <2>1, <2>2, <3>1, <3>2 DEF Final, WillAgree
    <3>4. QED
      BY <2>1, <2>2, <3>1, <3>3 DEF WillAgree, Serving
  <2>4. /\ UNCHANGED <<container, events, manager, boot, rows>>
        /\ \A r \in Servers \ {s} : status'[r] = status[r]
    BY <1>2, <1>17 DEF MarkDown, Mark, TypeOK
  <2>5. CASE Goto(t, "waitGone")
    <3>1. task'[t] = To("waitGone") /\ To("waitGone").server = s /\ To("waitGone").op = op
      BY <1>5, <2>5 DEF Steps
    <3>2. Known(t)'
      BY <2>1, <2>4, <3>1 DEF Known, Starting
    <3>3. task' = [task EXCEPT ![t] = To("waitGone")] /\ To("waitGone") \in Records
      BY <1>5, <2>5 DEF Steps
    <3> HIDE DEF To
    <3>4. QED
      BY <1>1, <1>2, <2>1, <2>3, <2>4, <3>1, <3>2, <3>3, MoveOn
  <2>6. CASE Ends(t)
    BY <1>1, <1>2, <1>6, <2>1, <2>3, <2>4, <2>6, MoveOn
  <2>7. QED
    BY <1>17, <2>5, <2>6 DEF MarkDown, Continue
<1>18. CASE WaitGone(t)
  <2>1. /\ pc = "waitGone" /\ op \notin {"start", "auto", "boot"}
        /\ container[s] \in {"none", "created", "exited"} /\ UNCHANGED container
    BY <1>2, <1>3, <1>18 DEF WaitGone, Known, At, Starting
  <2>2. CASE Goto(t, "remove")
    <3>1. task'[t] = To("remove")
      BY <1>5, <2>2 DEF Steps
    <3>2. Known(t)'
      BY <2>1, <3>1 DEF Known, Starting
    <3>3. QED
      BY <1>2, <1>8, <1>18, <2>1, <2>2, <3>2 DEF WaitGone, Steps, At
  <2>3. QED
    BY <1>2, <1>7, <1>18, <2>1, <2>2 DEF WaitGone, At
<1>19. CASE Remove(t)
  <2>1. /\ pc = "remove" /\ op \notin {"start", "auto", "boot"}
        /\ container[s] \in {"none", "created", "exited"}
    BY <1>2, <1>3, <1>19 DEF Remove, Known, At, Starting
  <2>2. Serving /\ ~At(t, "markUp")
    BY <1>2, <1>3, <1>4, <2>1 DEF Serving, TypeOK, At
  <2>3. Goto(t, "exists") /\ UNCHANGED <<rows, status, manager, boot>>
    BY <1>19 DEF Remove
  <2>4. task'[t] = To("exists") /\ To("exists").server = s /\ To("exists").op = op
    BY <1>5, <2>3 DEF Steps
  <2>5. CASE UNCHANGED <<container, events>>
    <3>1. Known(t)'
      BY <2>1, <2>4, <2>5 DEF Known, Starting
    <3>2. QED
      BY <1>8, <2>2, <2>3, <2>5, <3>1 DEF Steps
  <2>6. CASE Becomes(s, "none") /\ Emit(s, "down")
    <3>1. container'[s] = "none" /\ \A r \in Servers \ {s} : container'[r] = container[r]
      BY <1>2, <2>6 DEF Becomes, TypeOK
    <3>2. Known(t)'
      BY <2>1, <2>4, <3>1 DEF Known, Starting
    <3>3. Final(s)' = "stopped" /\ \A r \in Servers \ {s} : events'[r] = events[r]
      BY <2>2, <2>6, FinalEmit
    <3>4. WillAgree(s)'
      BY <2>2, <2>3, <3>1, <3>3 DEF WillAgree, Serving
    <3>5. task' = [task EXCEPT ![t] = To("exists")] /\ To("exists") \in Records
      BY <1>5, <2>3 DEF Steps
    <3> HIDE DEF To
    <3>6. QED
      BY <1>1, <1>2, <2>2, <2>3, <2>4, <3>1, <3>2, <3>3, <3>4, <3>5, MoveOn
  <2>7. QED
    BY <1>2, <1>19, <2>5, <2>6 DEF Remove, ForceRemove
<1>20. CASE Drop(t)
  <2>1. pc = "drop" /\ container[s] # "stopping"
    BY <1>2, <1>3, <1>20 DEF Drop, Known, At
  <2>2. QED
    BY <1>2, <1>7, <1>20, <2>1 DEF Drop, At
<1>21. QED
  BY <1>9, <1>10, <1>11, <1>12, <1>13, <1>14, <1>15, <1>16, <1>17, <1>18, <1>19, <1>20 DEF Step

\* Docker changes a container or an event is read, and no goroutine moves.
LEMMA DockerMoves ==
  ASSUME TypeOK, OneByOne, NEW s \in Servers, UNCHANGED <<rows, manager, task, boot>>,
         \A r \in Servers \ {s} : /\ container'[r] = container[r]
                                 /\ events'[r] = events[r]
                                 /\ (r \in rows => status'[r] = status[r]),
         \A t \in Tasks : ~Idle(t) /\ task[t].server = s => Known(t)',
         container'[s] = "stopping" => container[s] = "stopping",
         ~Serving => events' = events,
         s \in rows => WillAgree(s)'
  PROVE  OneByOne'
<1>1. Apart'
  BY DEF OneByOne, Apart, Idle, At
<1>2. ASSUME NEW t \in Tasks, ~Idle(t)' PROVE Known(t)'
  <2>1. ~Idle(t) /\ task[t].server \in Servers /\ Known(t)
    BY <1>2, Busy DEF Idle, At, Records, OneByOne
  <2>2. CASE task[t].server # s
    BY <2>1, <2>2 DEF Known
  <2>3. QED
    BY <2>1, <2>2
<1>3. Awaited'
  BY DEF OneByOne, Awaited, Idle, At
<1>4. ASSUME NEW r \in rows, r # s PROVE WillAgree(r)'
  <2>1. WillAgree(r) /\ r \in Servers
    BY <1>4 DEF OneByOne, TypeOK
  <2>2. Final(r)' = Final(r) /\ container'[r] = container[r] /\ status'[r] = status[r]
    BY <1>4, <2>1 DEF Final
  <2>3. QED
    BY <2>1, <2>2 DEF WillAgree, Serving, At
<1>5. QED
  BY <1>1, <1>2, <1>3, <1>4 DEF OneByOne, Serving

LEMMA SerialDocker ==
  ASSUME TypeOK, OneByOne, NoneGoesAtBoot, NEW s \in Servers,
         \/ Docker(s)
         \/ Crash(s) /\ Calm
  PROVE  OneByOne'
<1>1. PICK state \in {"exited", "none"} :
        /\ Becomes(s, state) /\ Emit(s, "down")
        /\ UNCHANGED <<rows, status, players, manager, task, boot, boots>>
        /\ \/ container[s] = "stopping" /\ state = "exited"
           \/ container[s] = "exited" /\ state = "none"
           \/ container[s] = "running" /\ state = "exited" /\ Calm
  BY DEF Docker, Exit, Vanish, Crash
<1>2. container'[s] = state /\ \A r \in Servers \ {s} : container'[r] = container[r]
  BY <1>1 DEF Becomes, TypeOK
<1>3. /\ \A r \in Servers \ {s} : events'[r] = events[r]
      /\ Serving => Final(s)' = "stopped"
      /\ ~Serving => events' = events
  BY <1>1, FinalEmit DEF Emit
<1>4. ASSUME NEW t \in Tasks, ~Idle(t), task[t].server = s PROVE Known(t)'
  <2>1. Known(t)
    BY <1>4 DEF OneByOne
  <2>2. QED
    BY <1>1, <1>2, <1>4, <2>1 DEF Known, Calm, Starting
<1>5. ASSUME s \in rows PROVE WillAgree(s)'
  <2>1. WillAgree(s)
    BY <1>5 DEF OneByOne
  <2>2. CASE Serving
    BY <1>1, <1>2, <1>3, <2>2 DEF WillAgree, Serving
  <2>3. CASE manager = "off"
    <3>1. container[s] # "stopping"
      BY <2>3 DEF OneByOne, Awaited, Apart
    <3>2. QED
      BY <1>1, <1>2, <2>1, <2>3, <3>1 DEF WillAgree, Serving
  <2>4. CASE manager = "boot"
    <3>1. state # "none"
      BY <1>1, <1>2, <2>4 DEF NoneGoesAtBoot
    <3>2. container[s] = "running"
      <4>1. ASSUME NEW t \in Tasks, ~Idle(t), task[t].server = s, container[s] = "stopping"
            PROVE  FALSE
        BY <2>4, <4>1 DEF OneByOne, Apart, Known, Starting
      <4>2. QED
        BY <1>1, <3>1, <4>1 DEF OneByOne, Awaited
    <3>3. status[s] = "running" \/ \E t \in Tasks : At(t, "markUp") /\ task[t].server = s
      BY <2>1, <2>4, <3>2 DEF WillAgree
    <3>4. QED
      BY <1>1, <1>2, <2>4, <3>1, <3>3 DEF WillAgree, Serving, At
  <2>5. QED
    BY <2>2, <2>3, <2>4 DEF TypeOK, Serving
<1>6. QED
  BY <1>1, <1>2, <1>3, <1>4, <1>5, DockerMoves

\* Reading an event takes nothing from what will be said at the end.
LEMMA SerialRead ==
  ASSUME TypeOK, OneByOne, NEW s \in Servers, ProcessEvent(s)
  PROVE  OneByOne'
<1>1. events[s] \in Seq({"up", "down"}) /\ events[s] # <<>>
  BY DEF ProcessEvent, TypeOK
<1>2. events' = [events EXCEPT ![s] = Tail(events[s])]
  BY DEF ProcessEvent
<1>3. /\ events'[s] = Tail(events[s]) /\ \A r \in Servers \ {s} : events'[r] = events[r]
      /\ \A r \in Servers \ {s} : status'[r] = status[r]
      /\ UNCHANGED <<rows, container, manager, task, boot>> /\ Serving
  BY <1>2 DEF TypeOK, ProcessEvent, Mark
<1>4. ASSUME s \in rows PROVE WillAgree(s)'
  <2>1. status'[s] = IF Head(events[s]) = "up" THEN "running" ELSE "stopped"
    BY <1>4 DEF ProcessEvent, Mark, TypeOK
  <2>2. CASE Tail(events[s]) = <<>>
    <3>1. Head(events[s]) = events[s][Len(events[s])]
      <4>1. Len(Tail(events[s])) = Len(events[s]) - 1 /\ Len(events[s]) \in Nat
        BY <1>1, HeadTailProperties
      <4>2. Len(Tail(events[s])) = 0
        BY <2>2, EmptySeq
      <4>3. QED
        BY <1>1, <4>1, <4>2
    <3>2. Final(s)' = Final(s)
      BY <1>1, <1>3, <2>1, <2>2, <3>1 DEF Final
    <3>3. QED
      BY <1>3, <1>4, <3>2 DEF OneByOne, WillAgree, Serving
  <2>3. CASE Tail(events[s]) # <<>>
    <3>1. Tail(events[s])[Len(Tail(events[s]))] = events[s][Len(events[s])]
      BY <1>1, <2>3
    <3>2. Final(s)' = Final(s)
      BY <1>1, <1>3, <2>3, <3>1 DEF Final
    <3>3. QED
      BY <1>3, <1>4, <3>2 DEF OneByOne, WillAgree, Serving
  <2>4. QED
    BY <2>2, <2>3
<1>5. ASSUME NEW t \in Tasks, ~Idle(t), task[t].server = s PROVE Known(t)'
  BY <1>3, <1>5 DEF OneByOne, Known
<1>6. QED
  BY <1>3, <1>4, <1>5, DockerMoves

\* Where only a goroutine starts, and where nothing the invariant speaks of changes.
LEMMA SerialBootGate ==
  ASSUME TypeOK, OneByOne, NEW s \in Servers, BootGate(s)
  PROVE  OneByOne'
<1> DEFINE x == [pc |-> "exists", op |-> "boot", server |-> s]
<1>1. /\ manager = "boot" /\ s \in boot.todo /\ Idle(s) /\ s \in Tasks
      /\ UNCHANGED <<rows, status, container, events, manager>>
      /\ boot'.todo = boot.todo \ {s}
  BY DEF BootGate, OneByOne, Apart, Tasks, TypeOK
<1>2. CASE UNCHANGED task
  <2>1. Apart'
    BY <1>1, <1>2 DEF OneByOne, Apart, Idle, At
  <2>2. QED
    BY <1>1, <1>2, <2>1 DEF OneByOne, Known, Awaited, WillAgree, Final, Serving, Idle, At
<1>3. CASE BootTask(s)
  <2>1. /\ task'[s] = x /\ \A t \in Tasks \ {s} : task'[t] = task[t]
        /\ ~Idle(s)' /\ \A t \in Tasks \ {s} : Idle(t)' = Idle(t)
    BY <1>1, <1>3 DEF BootTask, TypeOK, Idle, At
  <2>2. \A t \in Tasks \ {s} : ~Idle(t) => task[t].server # s
    BY <1>1 DEF OneByOne, Apart
  <2>3. Apart'
    <3>1. \A t, u \in Tasks :
            ~Idle(t)' /\ ~Idle(u)' /\ task'[t].server = task'[u].server => t = u
      <4> SUFFICES ASSUME NEW t \in Tasks, NEW u \in Tasks, ~Idle(t)', ~Idle(u)', t # u
                   PROVE  task'[t].server # task'[u].server
        OBVIOUS
      <4>1. CASE t = s
        BY <2>1, <2>2, <4>1
      <4>2. CASE u = s
        BY <2>1, <2>2, <4>2
      <4>3. CASE t # s /\ u # s
        BY <2>1, <4>3 DEF OneByOne, Apart
      <4>4. QED
        BY <4>1, <4>2, <4>3
    <3>2. \A r \in Servers : ~Idle(r)' => task'[r].server = r
      BY <2>1 DEF OneByOne, Apart, Tasks
    <3>3. \A t \in Tasks : ~Idle(t)' => t \in Servers /\ task'[t].op = "boot"
      BY <1>1, <2>1 DEF OneByOne, Apart
    <3>4. \A r \in boot'.todo : Idle(r)'
      BY <1>1, <2>1, LifecycleAssumption DEF OneByOne, Apart, Tasks, TypeOK
    <3>5. QED
      BY <1>1, <3>1, <3>2, <3>3, <3>4 DEF Apart
  <2>4. container[s] # "stopping"
    <3>1. \A t \in Tasks : ~Idle(t) => Known(t) /\ task[t].op = "boot"
      BY <1>1 DEF OneByOne, Apart
    <3>2. QED
      BY <3>1 DEF OneByOne, Awaited, Known, Starting
  <2>5. ASSUME NEW t \in Tasks, ~Idle(t)' PROVE Known(t)'
    <3>1. CASE t = s
      BY <1>1, <2>1, <2>4, <3>1 DEF Known, Starting
    <3>2. CASE t # s
      BY <1>1, <2>1, <2>5, <3>2 DEF OneByOne, Known
    <3>3. QED
      BY <3>1, <3>2
  <2>6. Awaited'
    BY <1>1, <2>1 DEF OneByOne, Awaited
  <2>7. ASSUME NEW r \in rows PROVE WillAgree(r)'
    <3>1. WillAgree(r) /\ Final(r)' = Final(r)
      BY <1>1 DEF OneByOne, Final
    <3>2. ASSUME NEW t \in Tasks, At(t, "markUp") PROVE task'[t] = task[t]
      BY <1>1, <2>1, <3>2 DEF Idle, At
    <3>3. QED
      BY <1>1, <3>1, <3>2 DEF WillAgree, Serving, At
  <2>8. QED
    BY <1>1, <2>3, <2>5, <2>6, <2>7 DEF OneByOne, Serving
<1>4. QED
  BY <1>2, <1>3 DEF BootGate

LEMMA SerialArrive ==
  ASSUME TypeOK, OneByOne, NEW t \in Requests, NEW s \in Servers, NEW op \in Ops \ {"boot", "close"},
         Arrive(t, op, s), Calm
  PROVE  OneByOne'
<1> DEFINE x == [pc |-> FirstStep(op, s), op |-> op, server |-> s]
<1>1. /\ Serving /\ t \in Tasks /\ t \notin Servers
      /\ UNCHANGED <<rows, status, container, events, manager, boot>>
  BY LifecycleAssumption DEF Arrive, Tasks
<1>2. /\ \A u \in Tasks : Idle(u)
      /\ \A r \in Servers : container[r] \in {"none", "created", "running"}
  BY CalmFacts
<1>3. /\ FirstStep(op, s) \in {"budget", "exists", "signal", "drop"}
      /\ op \in {"start", "auto"} => FirstStep(op, s) \in Starting
  <2>1. op \in {"start", "auto", "stop", "restart", "delete"}
    BY DEF Ops
  <2>2. QED
    BY <2>1 DEF FirstStep, Starting
<1>4. /\ task'[t] = x /\ \A u \in Tasks \ {t} : task'[u] = task[u]
      /\ \A u \in Tasks \ {t} : Idle(u)'
  BY <1>1, <1>2 DEF Arrive, TypeOK, Idle, At
<1>5. Apart'
  BY <1>1, <1>4 DEF Apart, Serving, Tasks
<1>6. Known(t)'
  BY <1>1, <1>2, <1>3, <1>4 DEF Known, Ops
<1>7. Awaited'
  BY <1>1, <1>2 DEF Awaited
<1>8. ASSUME NEW r \in rows PROVE WillAgree(r)'
  <2>1. WillAgree(r) /\ Final(r)' = Final(r)
    BY <1>1 DEF OneByOne, Final
  <2>2. QED
    BY <1>1, <2>1 DEF WillAgree, Serving
<1>9. QED
  BY <1>1, <1>4, <1>5, <1>6, <1>7, <1>8 DEF OneByOne, Serving

\* The manager moves on when all is calm.
LEMMA SerialManager ==
  ASSUME TypeOK, OneByOne, Calm, Boot \/ Ready \/ Terminate \/ PowerOff \/ Killed
  PROVE  OneByOne'
<1>1. /\ \A t \in Tasks : Idle(t)
      /\ \A s \in Servers : container[s] \in {"none", "created", "running"} /\ events[s] = <<>>
  BY CalmFacts
<1>2. \A s \in rows : s \in Servers /\ WillAgree(s) /\ Final(s) = status[s]
  BY <1>1 DEF OneByOne, TypeOK, Final
<1>3. \A t \in Tasks : ~At(t, "markUp")
  BY <1>1 DEF Idle, At
<1>4. CASE Boot
  <2>1. manager = "off" /\ manager' = "boot" /\ UNCHANGED <<rows, container, events, task>>
    BY <1>4 DEF Boot
  <2>2. \A s \in rows : status'[s] = IF container[s] = "none" THEN "stopped" ELSE status[s]
    BY <1>2, <1>4 DEF Boot
  <2>3. \A s \in rows : WillAgree(s)'
    BY <1>1, <1>2, <2>1, <2>2 DEF WillAgree, Serving
  <2>4. Apart'
    BY <1>1, <1>4, <2>1 DEF Apart, Idle, At, Boot, Tasks, TypeOK, LifecycleAssumption
  <2>5. QED
    BY <1>1, <2>1, <2>3, <2>4 DEF OneByOne, Known, Awaited, Idle, At
<1>5. CASE Ready
  <2>1. manager = "boot" /\ manager' = "up" /\ UNCHANGED <<rows, status, container, events, task>>
    BY <1>5 DEF Ready
  <2>2. \A s \in rows : WillAgree(s)'
    BY <1>1, <1>2, <1>3, <2>1 DEF WillAgree, Serving, Final
  <2>3. Apart'
    BY <1>1, <2>1 DEF Apart, Idle, At, Tasks
  <2>4. QED
    BY <1>1, <2>1, <2>2, <2>3 DEF OneByOne, Known, Awaited, Idle, At, Serving
<1>6. CASE Terminate
  <2>1. manager = "up" /\ manager' = "stopping" /\ UNCHANGED <<rows, status, container, events>>
    BY <1>6 DEF Terminate
  <2>2. \A t \in Tasks : ~Idle(t)' =>
          t \in rows /\ task'[t] = [pc |-> "signal", op |-> "close", server |-> t]
    BY <1>1, <1>6 DEF Terminate, Idle, At
  <2>3. \A s \in rows : WillAgree(s)'
    BY <1>2, <2>1 DEF WillAgree, Serving, Final
  <2>4. \A t \in Tasks : ~Idle(t)' =>
          t \in Servers /\ task'[t].pc = "signal" /\ task'[t].op = "close" /\ task'[t].server = t
    <3> SUFFICES ASSUME NEW t \in Tasks, ~Idle(t)'
                 PROVE  /\ t \in Servers
                        /\ task'[t].pc = "signal" /\ task'[t].op = "close" /\ task'[t].server = t
      OBVIOUS
    <3>1. t \in rows /\ task'[t] = [pc |-> "signal", op |-> "close", server |-> t]
      BY <2>2
    <3>2. QED
      BY <1>2, <3>1
  <2>5. Apart'
    BY <2>1, <2>4 DEF Apart, Tasks
  <2>6. \A t \in Tasks : ~Idle(t)' => Known(t)'
    BY <1>1, <2>1, <2>4 DEF Known
  <2>7. QED
    BY <1>1, <2>1, <2>3, <2>5, <2>6 DEF OneByOne, Awaited, Serving
<1>7. ASSUME manager # "off", ProcessEnds PROVE OneByOne'
  <2>1. manager' = "off" /\ UNCHANGED <<rows, status, container>>
    BY <1>7 DEF ProcessEnds
  <2>2. (\A s \in Servers : events'[s] = <<>>) /\ \A t \in Tasks : Idle(t)'
    BY <1>7 DEF ProcessEnds, Idle, At, NoTask
  <2>3. \A s \in rows : WillAgree(s)'
    BY <1>1, <1>2, <1>3, <1>7, <2>1 DEF WillAgree, Serving, TypeOK
  <2>4. Apart'
    BY <2>1, <2>2 DEF Apart, Tasks
  <2>5. QED
    BY <1>1, <2>1, <2>2, <2>3, <2>4 DEF OneByOne, Awaited, Serving
<1>8. QED
  BY <1>4, <1>5, <1>6, <1>7 DEF PowerOff, Killed

LEMMA SerialNext ==
  ASSUME TypeOK, TypeOK', OneByOne, InTurn
  PROVE  OneByOne'
<1>1. ASSUME NEW t \in Requests, NEW s \in Servers, NEW op \in Ops \ {"boot", "close"}, Arrive(t, op, s)
      PROVE  OneByOne'
  <2>1. FirstStep(op, s) # "idle"
    <3>1. op \in {"start", "auto", "stop", "restart", "delete"}
      BY DEF Ops
    <3>2. QED
      BY <3>1 DEF FirstStep
  <2>2. Starts(t)
    BY <1>1, <2>1 DEF Arrive, Starts, Idle, At, TypeOK, Tasks
  <2>3. Calm
    BY <2>2 DEF InTurn
  <2>4. QED
    BY <1>1, <2>3, SerialArrive
<1>2. ASSUME NEW s \in Servers, Docker(s)
      PROVE  OneByOne'
  BY <1>2, SerialDocker DEF InTurn
<1>3. ASSUME NEW s \in Servers, Crash(s)
      PROVE  OneByOne'
  <2>1. container[s] = "running" /\ container'[s] = "exited"
    BY <1>3 DEF Crash, Becomes, TypeOK
  <2>2. Calm /\ NoneGoesAtBoot
    BY <2>1 DEF InTurn
  <2>3. QED
    BY <1>3, <2>2, SerialDocker
<1>4. ASSUME NEW s \in Servers, Join(s) \/ Leave(s)
      PROVE  OneByOne'
  <2>1. UNCHANGED <<rows, status, container, events, manager, task, boot, boots>>
    BY <1>4 DEF Join, Leave
  <2>2. QED
    BY <2>1 DEF OneByOne, Apart, Known, Awaited, WillAgree, Final, Serving, Idle, At
<1>5. ASSUME Boot \/ Ready \/ Terminate \/ PowerOff \/ Killed
      PROVE  OneByOne'
  <2>1. manager' # manager
    BY <1>5 DEF Boot, Ready, Terminate, PowerOff, Killed, ProcessEnds
  <2>2. Calm
    BY <2>1 DEF InTurn
  <2>3. QED
    BY <1>5, <2>2, SerialManager
<1>6. QED
  BY <1>1, <1>2, <1>3, <1>4, <1>5, SerialStep, SerialRead, SerialBootGate DEF InTurn, Next

THEOREM SerialInvariance == MCSpec => [](TypeOK /\ SerialInv)
<1>1. MCInit => TypeOK
  BY TypeInit DEF MCInit
<1>2. MCInit => SerialInv
  <2> SUFFICES ASSUME Init PROVE OneByOne
    BY DEF MCInit, SerialInv
  <2>1. manager = "off" /\ (\A t \in Tasks : Idle(t)) /\ \A s \in Servers : events[s] = <<>>
    BY DEF Init, Idle, At, NoTask
  <2>2. Apart /\ Awaited
    BY <2>1 DEF Init, Apart, Awaited, Tasks
  <2>3. \A s \in rows : WillAgree(s)
    BY <2>1 DEF Init, WillAgree, Serving
  <2>4. QED
    BY <2>1, <2>2, <2>3 DEF OneByOne
<1>3. TypeOK /\ [MCNext]_MCVars => TypeOK'
  BY TypeNext DEF MCNext, MCVars
<1>4. TypeOK /\ TypeOK' /\ SerialInv /\ [MCNext]_MCVars => SerialInv'
  <2> SUFFICES ASSUME TypeOK, TypeOK', SerialInv, [MCNext]_MCVars, serial'
               PROVE  OneByOne'
    BY DEF SerialInv
  <2>1. CASE UNCHANGED MCVars
    BY <2>1 DEF MCVars, vars, SerialInv, OneByOne, Apart, Known, Awaited, WillAgree, Final,
       Serving, Idle, At
  <2>2. CASE MCNext
    <3>1. OneByOne /\ InTurn
      BY <2>2 DEF MCNext, SerialInv, InTurn
    <3>2. QED
      BY <3>1, SerialNext
  <2>3. QED
    BY <2>1, <2>2
<1>5. QED
  BY <1>1, <1>2, <1>3, <1>4, PTL DEF MCSpec

\* One request at a time, and none going in the gap at boot: when all is over the
\* table says what Docker does, in whatever order the request's own writes and
\* the events of Docker come.
THEOREM SerialStatusAgreesHolds == MCSpec => []SerialStatusAgrees
<1>1. TypeOK /\ SerialInv => SerialStatusAgrees
  <2> SUFFICES ASSUME TypeOK, SerialInv, serial, Settled, NEW s \in rows
               PROVE  status[s] = "running" <=> container[s] = "running"
    BY DEF SerialStatusAgrees, StatusAgrees
  <2>1. s \in Servers /\ WillAgree(s) /\ Serving /\ events[s] = <<>>
    BY DEF TypeOK, SerialInv, OneByOne, Settled, Serving
  <2>2. QED
    BY <2>1 DEF WillAgree, Final
<1>2. QED
  BY <1>1, SerialInvariance, PTL

\* One request at a time, no start takes a running server down: what it removes
\* before it creates is never a container that runs (StartContainer looks first).
THEOREM SerialStartKeepsHolds == MCSpec => SerialStartKeeps
<1> DEFINE Keeps ==
      \A t \in Tasks, s \in Servers :
        /\ serial
        /\ task[t] # NoTask /\ task[t].op \in {"start", "auto", "boot"} /\ task'[t] # task[t]
        /\ container[s] = "running"
        => container'[s] = "running"
<1>1. TypeOK /\ SerialInv /\ [MCNext]_MCVars => [Keeps]_MCVars
  <2> SUFFICES ASSUME TypeOK, SerialInv, MCNext, NEW t \in Tasks, NEW s \in Servers, serial,
                      task[t] # NoTask, task[t].op \in {"start", "auto", "boot"},
                      task'[t] # task[t], container[s] = "running"
               PROVE  container'[s] = "running"
    OBVIOUS
  <2>1. CASE Step(t)
    <3>1. ~Idle(t)
      BY <2>1 DEF Step, CheckBudget, Exists, Replace, Create, RunContainer, MarkUp, Signal,
         WaitExit, MarkDown, WaitGone, Remove, Drop, At, Idle
    <3>2. task[t].server \in Servers /\ Known(t)
      BY <3>1, Busy DEF Records, SerialInv, OneByOne
    <3>3. task[t].pc \in Starting
      BY <3>2 DEF Known
    <3>4. CASE Replace(t)
      BY <3>2, <3>4 DEF Replace, ForceRemove, Known, At
    <3>5. CASE Create(t) \/ RunContainer(t)
      BY <3>2, <3>5 DEF Create, RunContainer, Becomes, TypeOK
    <3>6. CASE CheckBudget(t) \/ Exists(t) \/ MarkUp(t)
      BY <3>6 DEF CheckBudget, Exists, MarkUp
    <3>7. QED
      BY <2>1, <3>3, <3>4, <3>5, <3>6 DEF Step, Starting, At, Signal, WaitExit, MarkDown,
         WaitGone, Remove, Drop
  <2>2. ASSUME NEW u \in Tasks, u # t, Step(u) PROVE FALSE
    BY <2>2 DEF Step, CheckBudget, Exists, Replace, Create, RunContainer, MarkUp, Signal, WaitExit,
       MarkDown, WaitGone, Remove, Drop, Goto, Ends, Continue, TypeOK
  <2>3. ASSUME NEW r \in Servers, Docker(r) \/ Crash(r) PROVE FALSE
    BY <2>3 DEF Docker, Exit, Vanish, Crash
  <2>4. QED
    BY <2>1, <2>2, <2>3 DEF MCNext, Next, Arrive, Join, Leave, ProcessEvent, BootGate, Boot, Ready,
       Terminate, PowerOff, Killed, ProcessEnds
<1>2. [][Keeps]_MCVars => SerialStartKeeps
  BY DEF SerialStartKeeps
<1>3. QED
  BY <1>1, <1>2, SerialInvariance, PTL DEF MCSpec

===============================================================================
