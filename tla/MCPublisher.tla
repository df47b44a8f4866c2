------------------------------ MODULE MCPublisher ------------------------------
(***************************************************************************)
(* The publishing output, model-checked: the path of its video to a        *)
(* viewer, the queues of its pacers, the threads of its session and the    *)
(* sources that it makes of a room's streams.  A behaviour is one of a     *)
(* single component, the subject; the others stay in an initial state.     *)
(***************************************************************************)
EXTENDS VideoSend, OutputLifecycle, PacerQueues, AutoInbound

VARIABLE subject

MCPacerBudget(pacers, frames, repairs_, discards, failures, stops) ==
  [pacers |-> pacers, frames |-> frames, repairs |-> repairs_,
   discards |-> discards, failures |-> failures, stops |-> stops]
OnePacer == {CHOOSE p \in Pacers : TRUE}
MCPacerBudgets ==
  { MCPacerBudget(OnePacer, 2, 3, 1, 1, 1),
    MCPacerBudget(OnePacer, 3, 1, 1, 0, 0),
    MCPacerBudget(Pacers, 2, 1, 0, 0, 1),
    MCPacerBudget(Pacers, 2, 0, 1, 0, 1) }

MCInboundSettings ==
  { [remove |-> TRUE, grid |-> TRUE, target |-> NoScene],
    [remove |-> FALSE, grid |-> TRUE, target |-> NoScene],
    [remove |-> FALSE, grid |-> FALSE, target |-> CHOOSE c \in Scenes : TRUE] }

MCInboundBudget(kinds, streams, feeds, starts, stops, switches) ==
  [kinds |-> kinds, streams |-> streams, feeds |-> feeds, starts |-> starts,
   stops |-> stops, switches |-> switches]
Others == Inbound \ Own
OneStream == {CHOOSE s \in Others : TRUE}
EveryKind == {"listing", "added", "removed"}
MCInboundBudgets ==
  { MCInboundBudget(EveryKind, Others, 2, 1, 0, 0),
    MCInboundBudget(EveryKind, OneStream, 3, 1, 0, 1),
    MCInboundBudget({"listing", "added"}, OneStream \cup Own, 2, 2, 1, 0),
    MCInboundBudget({"listing", "removed"}, OneStream, 2, 2, 1, 0),
    MCInboundBudget({"listing", "removed"}, OneStream, 3, 1, 1, 0) }

Subjects == {"video", "session", "pacers", "room"}

\* What is not the subject starts in one of its initial states.
MCInit ==
  /\ VideoInit /\ OutputInit /\ PacersInit /\ InboundInit
  /\ subject \in Subjects
  /\ subject # "pacers" => ration = CHOOSE b \in MCPacerBudgets : TRUE
  /\ subject # "room" =>
       /\ settings_ = CHOOSE c \in MCInboundSettings : TRUE
       /\ supply = CHOOSE b \in MCInboundBudgets : TRUE
       /\ scene = CHOOSE c \in Scenes : TRUE

\* A bound: an audio frame and a viewer's request take the place of losses.
VideoBound == counts'.audio + counts'.losses + counts'.events <= MaxLosses

MCNext ==
  /\ UNCHANGED subject
  /\ \/ /\ subject = "video" /\ VideoNext /\ VideoBound
        /\ UNCHANGED <<outputVars, pacerVars, inboundVars>>
     \/ subject = "session" /\ OutputNext /\ UNCHANGED <<videoVars, pacerVars, inboundVars>>
     \/ subject = "pacers" /\ PacersNext /\ UNCHANGED <<videoVars, outputVars, inboundVars>>
     \/ subject = "room" /\ InboundNext /\ UNCHANGED <<videoVars, outputVars, pacerVars>>

MCSpec == MCInit /\ [][MCNext]_<<subject, videoVars, outputVars, pacerVars, inboundVars>>

\* Each pacer counts what its queues hold, whoever waits for the shared budget
\* is served, and a viewer's frames that are pending are those in its queue.
EveryQueueOK == QueuesOK /\ BytesCounted /\ LineMoves

\* No thread of the session is forgotten or replaced while it runs, and no
\* removal thread sleeps through its work or through its stop.
ThreadsInOrder == SessionThreads /\ RemoversAwake
===============================================================================
