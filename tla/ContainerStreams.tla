--------------------------- MODULE ContainerStreams ---------------------------
(***************************************************************************)
(* What the manager keeps attached to its containers: LogManager follows   *)
(* each one's output with a goroutine, ConsoleManager holds a connection   *)
(* to its standard input.  Both are fed by Docker's events, one event at a *)
(* time, and both clean up in goroutines that find their entry by the      *)
(* container and not by what they have put there.                          *)
(*                                                                         *)
(* Servers and proxies have the same code in both managers, so a container *)
(* is either here.  Its id is looked up in a map of names or in the table, *)
(* to the same effect.  "stop" and "die" are handled alike and come        *)
(* together: one event stands for both.  Containers are removed when they  *)
(* end (AutoRemove), so one that is down cannot be attached to.  Attaching *)
(* a console holds ConsoleManager's lock: it is one step.                  *)
(***************************************************************************)
EXTENDS Naturals, Sequences

CONSTANTS Containers,   (* containers of servers and proxies               *)
          Streams,      (* bound: streamLogs goroutines at the same time   *)
          Consoles,     (* bound: ConsoleStreams at the same time          *)
          MaxRetries,   (* maxRetries (3 in the code)                      *)
          MaxRuns,      (* bound: starts of a container                    *)
          MaxErrors,    (* bound: read errors in a run of a container      *)
          None

ASSUME StreamsAssumption ==
  /\ MaxRetries \in Nat /\ MaxRuns \in Nat \ {0} /\ MaxErrors \in Nat
  /\ None \notin Streams \cup Consoles \cup Containers

VARIABLES
  container,  (* what Docker does with it: "down", "up" or "stopping"      *)
  runs,       (* times it was started                                      *)
  errors,     (* read errors of its output in this run                     *)
  marked,     (* containers whose row says 'running', until the boot reads *)
  phase,      (* of main: "logs", "consoles", "subscribe", "serving"       *)
  events,     (* container -> events on their way to processEvent          *)
  handling,   (* the event that ConsoleManager has still to handle         *)
  streams,    (* LogManager.streams: container -> goroutine, or None       *)
  stream,     (* goroutine of streamLogs -> its container and progress     *)
  consoles,   (* ConsoleManager.consoles: container -> ConsoleStream, None *)
  console     (* ConsoleStream -> its connection and the goroutine that    *)
              (* waits for the end of its context                          *)

logVars == <<streams, stream>>
consoleVars == <<consoles, console>>
dockerVars == <<container, runs, errors>>
vars == <<dockerVars, marked, phase, events, handling, logVars, consoleVars>>

Quiet == [container |-> None, action |-> "none"]
NoStream == [pc |-> "free", container |-> None, run |-> 0, tries |-> 0, cancelled |-> FALSE]
NoConsole == [waiter |-> "none", container |-> None, run |-> 0, open |-> FALSE]

TypeOK ==
  /\ container \in [Containers -> {"down", "up", "stopping"}]
  /\ runs \in [Containers -> 0..MaxRuns]
  /\ errors \in [Containers -> 0..MaxErrors]
  /\ marked \subseteq Containers
  /\ phase \in {"logs", "consoles", "subscribe", "serving"}
  /\ events \in [Containers -> Seq({"start", "kill", "die"})]
  /\ handling \in {Quiet} \cup [container : Containers, action : {"start", "kill", "die"}]
  /\ streams \in [Containers -> Streams \cup {None}]
  /\ stream \in [Streams ->
       [pc : {"free", "attach", "read", "backoff", "cleanup"},
        container : Containers \cup {None}, run : 0..MaxRuns,
        tries : 0..MaxRetries, cancelled : BOOLEAN]]
  /\ consoles \in [Containers -> Consoles \cup {None}]
  /\ console \in [Consoles ->
       [waiter : {"none", "waits", "woken"}, container : Containers \cup {None},
        run : 0..MaxRuns, open : BOOLEAN]]

Init ==
  /\ container \in [Containers -> {"down", "up"}]
  /\ runs = [c \in Containers |-> IF container[c] = "up" THEN 1 ELSE 0]
  /\ errors = [c \in Containers |-> 0]
  /\ marked \in SUBSET {c \in Containers : container[c] = "up"}
  /\ phase = "logs"
  /\ events = [c \in Containers |-> <<>>]
  /\ handling = Quiet
  /\ streams = [c \in Containers |-> None]
  /\ stream = [g \in Streams |-> NoStream]
  /\ consoles = [c \in Containers |-> None]
  /\ console = [k \in Consoles |-> NoConsole]

Alive(c) == container[c] # "down"

(***************************************************************************)
(* Docker                                                                  *)
(***************************************************************************)
\* Docker tells of what happens from ContainerEvents' subscription on.
Emit(c, event) ==
  events' = IF phase = "serving" THEN [events EXCEPT ![c] = Append(@, event)] ELSE events

Start(c) ==
  /\ container[c] = "down" /\ runs[c] < MaxRuns
  /\ container' = [container EXCEPT ![c] = "up"]
  /\ runs' = [runs EXCEPT ![c] = @ + 1]
  /\ errors' = [errors EXCEPT ![c] = 0]
  /\ Emit(c, "start")
  /\ UNCHANGED <<marked, phase, handling, logVars, consoleVars>>

\* docker stop: the signal is an event of its own, long before the end.
Signal(c) ==
  /\ container[c] = "up"
  /\ container' = [container EXCEPT ![c] = "stopping"]
  /\ Emit(c, "kill")
  /\ UNCHANGED <<runs, errors, marked, phase, handling, logVars, consoleVars>>

Exit(c) ==
  /\ Alive(c)
  /\ container' = [container EXCEPT ![c] = "down"]
  /\ Emit(c, "die")
  /\ UNCHANGED <<runs, errors, marked, phase, handling, logVars, consoleVars>>

\* A task of startOnBoot marks the row of what it has started.
Mark(c) ==
  /\ phase \in {"logs", "consoles"} /\ runs[c] > 0 /\ c \notin marked
  /\ marked' = marked \cup {c}
  /\ UNCHANGED <<dockerVars, phase, events, handling, logVars, consoleVars>>

(***************************************************************************)
(* LogManager                                                              *)
(***************************************************************************)
FreeStreams == {g \in Streams : stream[g].pc = "free"}

\* Identities mean nothing: cs gets any that are free, one for each of them.
Takes(cs, free) == {f \in [cs -> free] : \A c, d \in cs : f[c] = f[d] => c = d}

\* Bound: there are enough of them.
Take(cs, free) == CHOOSE f \in Takes(cs, free) : TRUE

\* The container that gets x.
Whose(x, new) == CHOOSE c \in DOMAIN new : new[c] = x

\* New goroutines for the containers cs.
Follow(cs) ==
  LET new == Take(cs, FreeStreams) IN
  /\ Takes(cs, FreeStreams) # {}
  /\ streams' = [c \in Containers |-> IF c \in cs THEN new[c] ELSE streams[c]]
  /\ stream' = [g \in Streams |->
                  IF \E c \in cs : new[c] = g
                  THEN [NoStream EXCEPT !.pc = "attach", !.container = Whose(g, new)]
                  ELSE stream[g]]

\* Mutant: without a look at lm.streams.
StartStreamingAgain(c) == Follow({c})

StartStreaming(c) ==
  \/ streams[c] # None /\ UNCHANGED logVars
  \/ streams[c] = None /\ Follow({c})

StopStreaming(c) ==
  \/ streams[c] = None /\ UNCHANGED logVars
  \/ /\ streams[c] # None
     /\ stream' = [stream EXCEPT ![streams[c]].cancelled = TRUE]
     /\ streams' = [streams EXCEPT ![c] = None]

KeepAllButStreams == UNCHANGED <<dockerVars, marked, phase, events, handling, consoleVars>>

\* streamLogs: the next attempt, or none.
Retry(g) ==
  \/ /\ stream[g].tries < MaxRetries
     /\ stream' = [stream EXCEPT ![g].pc = "backoff", ![g].tries = stream[g].tries + 1]
  \/ /\ stream[g].tries >= MaxRetries
     /\ stream' = [stream EXCEPT ![g].pc = "cleanup"]

\* StreamLogs attaches to the container of that name, whichever run it is in.
Attach(g) ==
  LET c == stream[g].container IN
  /\ stream[g].pc = "attach" /\ ~stream[g].cancelled
  /\ \/ /\ Alive(c)
        /\ stream' = [stream EXCEPT ![g].pc = "read", ![g].run = runs[c]]
     \/ ~Alive(c) /\ Retry(g)
  /\ UNCHANGED streams
  /\ KeepAllButStreams

\* Goroutine g reads what a run has left that is over.
Outlived(g) ==
  LET c == stream[g].container IN
  stream[g].pc = "read" /\ (~Alive(c) \/ runs[c] # stream[g].run)

\* The scanner comes to an end without an error.
ReadEnds(g) ==
  /\ Outlived(g)
  /\ stream' = [stream EXCEPT ![g].pc = "cleanup"]
  /\ UNCHANGED streams
  /\ KeepAllButStreams

\* The scanner gives up, as it does on a line that is too long.
ReadFails(g) ==
  LET c == stream[g].container IN
  /\ stream[g].pc = "read" /\ ~stream[g].cancelled /\ errors[c] < MaxErrors
  /\ errors' = [errors EXCEPT ![c] = @ + 1]
  /\ Retry(g)
  /\ UNCHANGED <<container, runs, marked, phase, events, handling, streams, consoleVars>>

\* Mutant: a failed attempt is not counted.
BackoffForgets(g) ==
  /\ stream[g].pc = "backoff" /\ ~stream[g].cancelled
  /\ stream' = [stream EXCEPT ![g].pc = "attach", ![g].tries = 0]
  /\ UNCHANGED streams
  /\ KeepAllButStreams

Backoff(g) ==
  /\ stream[g].pc = "backoff" /\ ~stream[g].cancelled
  /\ stream' = [stream EXCEPT ![g].pc = "attach"]
  /\ UNCHANGED streams
  /\ KeepAllButStreams

\* Every wait of streamLogs is also one for ctx.Done().
SeeCancel(g) ==
  /\ stream[g].cancelled /\ stream[g].pc \in {"attach", "read", "backoff"}
  /\ stream' = [stream EXCEPT ![g].pc = "cleanup"]
  /\ UNCHANGED streams
  /\ KeepAllButStreams

\* The deferred function: whatever is registered for the container goes.
Cleanup(g) ==
  /\ stream[g].pc = "cleanup"
  /\ streams' = [streams EXCEPT ![stream[g].container] = None]
  /\ stream' = [stream EXCEPT ![g] = NoStream]
  /\ KeepAllButStreams

(***************************************************************************)
(* ConsoleManager                                                          *)
(***************************************************************************)
FreeConsoles == {k \in Consoles : console[k].waiter = "none"}

\* New consoles for the containers cs.
Connect(cs) ==
  LET new == Take(cs, FreeConsoles) IN
  /\ Takes(cs, FreeConsoles) # {}
  /\ consoles' = [c \in Containers |-> IF c \in cs THEN new[c] ELSE consoles[c]]
  /\ console' = [k \in Consoles |->
                   IF \E c \in cs : new[c] = k
                   THEN [waiter |-> "waits", container |-> Whose(k, new),
                         run |-> runs[Whose(k, new)], open |-> TRUE]
                   ELSE console[k]]

\* The attach fails when the container is not there; nobody tries again.
StartConsole(c) ==
  \/ (consoles[c] # None \/ ~Alive(c)) /\ UNCHANGED consoleVars
  \/ consoles[c] = None /\ Alive(c) /\ Connect({c})

\* Mutant: the connection is closed and stays registered.
StopConsoleKeeps(c) ==
  /\ console' = IF consoles[c] = None THEN console
                ELSE [console EXCEPT ![consoles[c]].waiter = "woken",
                                     ![consoles[c]].open = FALSE]
  /\ UNCHANGED consoles

StopConsole(c) ==
  \/ consoles[c] = None /\ UNCHANGED consoleVars
  \/ /\ consoles[c] # None
     /\ console' = [console EXCEPT ![consoles[c]].waiter = "woken",
                                   ![consoles[c]].open = FALSE]
     /\ consoles' = [consoles EXCEPT ![c] = None]

\* The goroutine that waits for the end of a console's context closes the
\* console that is registered by then.
Woken(k) ==
  LET c == console[k].container
      other == consoles[c]
      ended == [console EXCEPT ![k].waiter = "none"]
  IN
  /\ console[k].waiter = "woken"
  /\ \/ /\ other = None
        /\ console' = ended
        /\ UNCHANGED consoles
     \/ /\ other # None
        /\ console' = [ended EXCEPT ![other].open = FALSE]
        /\ consoles' = [consoles EXCEPT ![c] = None]
  /\ UNCHANGED <<dockerVars, marked, phase, events, handling, logVars>>

(***************************************************************************)
(* Events                                                                  *)
(***************************************************************************)
HandleLogs(c) ==
  /\ phase = "serving" /\ handling = Quiet /\ events[c] # <<>>
  /\ IF Head(events[c]) = "start" THEN StartStreaming(c) ELSE StopStreaming(c)
  /\ events' = [events EXCEPT ![c] = Tail(@)]
  /\ handling' = [container |-> c, action |-> Head(events[c])]
  /\ UNCHANGED <<dockerVars, marked, phase, consoleVars>>

HandleConsole ==
  /\ handling # Quiet
  /\ IF handling.action = "start"
     THEN StartConsole(handling.container)
     ELSE StopConsole(handling.container)
  /\ handling' = Quiet
  /\ UNCHANGED <<dockerVars, marked, phase, events, logVars>>

(***************************************************************************)
(* Boot: what runs by its row is attached, then the events are asked for.  *)
(***************************************************************************)
BootLogs ==
  /\ phase = "logs"
  /\ Follow(marked)
  /\ phase' = "consoles"
  /\ UNCHANGED <<dockerVars, marked, events, handling, consoleVars>>

BootConsoles ==
  /\ phase = "consoles"
  /\ Connect({c \in marked : Alive(c)})
  /\ phase' = "subscribe"
  /\ UNCHANGED <<dockerVars, marked, events, handling, logVars>>

Subscribe ==
  /\ phase = "subscribe"
  /\ phase' = "serving"
  /\ UNCHANGED <<dockerVars, marked, events, handling, logVars, consoleVars>>

(***************************************************************************)
(* Specification                                                           *)
(***************************************************************************)
Docker(c) == Start(c) \/ Signal(c) \/ Exit(c) \/ Mark(c)

StreamLogs(g) ==
  Attach(g) \/ ReadEnds(g) \/ ReadFails(g) \/ Backoff(g) \/ SeeCancel(g) \/ Cleanup(g)

Handle == HandleConsole \/ \E c \in Containers : HandleLogs(c)

Next ==
  \/ \E c \in Containers : Docker(c)
  \/ \E g \in Streams : StreamLogs(g)
  \/ \E k \in Consoles : Woken(k)
  \/ Handle
  \/ BootLogs \/ BootConsoles \/ Subscribe

\* Goroutines run on; Docker need not start or stop anything.
StreamGoes(g) == Attach(g) \/ ReadEnds(g) \/ Backoff(g) \/ SeeCancel(g) \/ Cleanup(g)
ManagerGoes == BootLogs \/ BootConsoles \/ Subscribe \/ Handle

Fairness ==
  /\ \A g \in Streams : WF_vars(StreamGoes(g))
  /\ \A k \in Consoles : WF_vars(Woken(k))
  /\ WF_vars(ManagerGoes)

Spec == Init /\ [][Next]_vars
FairSpec == Spec /\ Fairness

(***************************************************************************)
(* Properties                                                              *)
(***************************************************************************)
\* A registered console has an open connection: whoever closes one, drops it
\* under the same lock (StopConsoleStreaming, the goroutine of a context).
ConsoleIsOpen == \A c \in Containers : consoles[c] # None => console[consoles[c]].open

\* The registered consoles, with the types of the variables.
StreamsInv == TypeOK /\ ConsoleIsOpen

\* Every goroutine of streamLogs either reads a container's output or ends,
\* however often it fails to attach (maxRetries, ctx.Done).
RetriesEnd ==
  \A g \in Streams : stream[g].pc \notin {"free", "read"} ~> stream[g].pc \in {"free", "read"}

\* Nothing is under way in either manager.
Settled ==
  /\ phase = "serving" /\ handling = Quiet
  /\ \A c \in Containers : events[c] = <<>> /\ container[c] # "stopping"
  /\ \A g \in Streams :
       stream[g].pc \in {"free", "read"} /\ ~stream[g].cancelled /\ ~Outlived(g)
  /\ \A k \in Consoles : console[k].waiter # "woken"

Followers(c) == {g \in Streams : stream[g].pc = "read" /\ stream[g].container = c}

\* A container's output is followed once, by the registered goroutine.
Followed(c) == streams[c] # None /\ Followers(c) = {streams[c]}

\* A container's console leads to the container that runs.
Connected(c) == consoles[c] # None /\ console[consoles[c]].run = runs[c]

===============================================================================
