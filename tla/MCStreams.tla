------------------------------ MODULE MCStreams ------------------------------
(***************************************************************************)
(* ContainerStreams for TLC.  A behaviour is prompt or not from the start. *)
(* In a prompt one a goroutine that has nothing to follow any more is gone *)
(* before the next start of its container is handled, the rows are right   *)
(* when the manager boots, no container starts then, and none changes      *)
(* between the attachment of the consoles and the subscription.  Docker    *)
(* and the events may still be any number of starts and ends apart.  In    *)
(* the other behaviours a container starts at most twice.                  *)
(***************************************************************************)
EXTENDS ContainerStreams

CONSTANT MaxEvents   (* bound: unread events of a container *)

VARIABLE prompt

streamsVars == <<vars, prompt>>

MCStreamsInit ==
  /\ Init
  /\ prompt \in BOOLEAN
  /\ prompt => marked = {c \in Containers : Alive(c)}

\* A goroutine of container c that is about to end.
Lingers(c) ==
  \/ \E g \in Streams :
       /\ stream[g].container = c
       /\ stream[g].pc = "cleanup" \/ stream[g].cancelled \/ Outlived(g)
  \/ \E k \in Consoles : console[k].container = c /\ console[k].waiter = "woken"

MCStreamsNext ==
  /\ Next
  /\ UNCHANGED prompt
  /\ \A c \in Containers : Len(events'[c]) <= MaxEvents
  /\ ~prompt => \A c \in Containers : runs'[c] <= 2
  /\ prompt =>
       /\ phase # "serving" => runs' = runs
       /\ phase = "subscribe" => container' = container
       /\ handling = Quiet /\ handling'.action = "start" => ~Lingers(handling'.container)

MCStreamsSpec == MCStreamsInit /\ [][MCStreamsNext]_streamsVars

\* If goroutines end in time, the output of every container that runs is
\* followed by one goroutine, and LogManager knows it, unless reading failed
\* and the goroutine gave up; of the others nothing is left
\* (HandleContainerEvent and StartStreamingForRunningContainers).
PromptFollowed ==
  prompt /\ Settled => \A c \in Containers :
    \/ Alive(c) /\ Followed(c)
    \/ (~Alive(c) \/ errors[c] > 0) /\ streams[c] = None /\ Followers(c) = {}

\* If goroutines end in time, every container that runs has a console, to the
\* run it is in, and the others have none.
PromptConnected ==
  prompt /\ Settled => \A c \in Containers :
    IF Alive(c) THEN Connected(c) ELSE consoles[c] = None

\* Logs and consoles come to rest where they belong.
PromptSettles == PromptFollowed /\ PromptConnected

==============================================================================
