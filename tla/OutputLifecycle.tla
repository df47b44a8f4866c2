---------------------------- MODULE OutputLifecycle ----------------------------
(***************************************************************************)
(* VDONinjaOutput::start and stop, and what runs between them: the start   *)
(* thread that connects to signaling, the three workers of a session, the  *)
(* connected callback of a socket, and a viewer that asks for statistics.  *)
(*                                                                         *)
(* start() and stop() are serialised by startStopMutex_; each is a list of *)
(* steps, and everyone else runs between any two of them.  The signaling   *)
(* client is what its callers see of it: closed, trying or open.  Its      *)
(* disconnect() does not wait for a callback that has begun.               *)
(***************************************************************************)
EXTENDS Naturals, Sequences

CONSTANTS MaxStarts, MaxStops, MaxOpens, MaxRequests

Workers == {"media", "summary", "stats"}
Joinable == Workers \cup {"start"}

VARIABLES
  running_, connected_, capturing_,
  publishing,   \* publishing_ of the peer manager
  installed,    \* the callbacks in signaling and the peer manager are set
  wanted,       \* each worker's flag, e.g. remoteStatsWorkerRunning_
  thread,       \* each std::thread: not joinable, running, or over
  calls,        \* what is left of start() or stop()
  stopped,      \* the last of them was stop()
  starter,      \* the start thread's step
  link,         \* the signaling connection
  caller,       \* the step of the connected callback
  asker,        \* the step of a data channel callback that asks for statistics
  spent         \* how many starts, stops, sockets and requests there were

flags == <<running_, connected_, capturing_, publishing, installed>>
threads == <<wanted, thread>>
outputVars == <<flags, threads, calls, stopped, starter, link, caller, asker, spent>>

OutputInit ==
  /\ running_ = FALSE /\ connected_ = FALSE /\ capturing_ = FALSE
  /\ publishing = FALSE /\ installed = FALSE
  /\ wanted = [w \in Workers |-> FALSE]
  /\ thread = [t \in Joinable |-> "none"]
  /\ calls = <<>> /\ stopped = FALSE
  /\ starter = "idle" /\ link = "closed" /\ caller = "idle" /\ asker = "idle"
  /\ spent = [starts |-> 0, stops |-> 0, opens |-> 0, requests |-> 0]

Spend(what, most) ==
  /\ spent[what] < most
  /\ spent' = [spent EXCEPT ![what] = @ + 1]
-----------------------------------------------------------------------------
(* start() and stop(). *)

Step(what, t) == [do |-> what, of |-> t]
StopWorker(w) == <<Step("lower", w), Step("join", w)>>
StartWorker(w) == StopWorker(w) \o <<Step("spawn", w)>>

\* A plausible bug: the thread of a session that failed is not joined.
StartUnjoined ==
  <<Step("reset", "session")>> \o StartWorker("media") \o StartWorker("summary")
    \o <<Step("spawn", "start")>>

StartSteps ==
  <<Step("reset", "session")>> \o StartWorker("media") \o StartWorker("summary")
    \o <<Step("join", "start"), Step("spawn", "start")>>

StopWorkers == StopWorker("summary") \o StopWorker("stats") \o StopWorker("media")

\* What stop() does for a session that neither runs nor captures.
BriefStop == <<Step("disconnected", "session")>> \o StopWorkers \o <<Step("join", "start")>>

FullStop ==
  <<Step("disconnected", "session")>> \o StopWorkers
    \o <<Step("clear", "session"), Step("unpublish", "session"), Step("disconnect", "session"),
         Step("join", "start"), Step("release", "session")>>

\* start(), when none of its checks of settings, capture and encoders refuses.
Start ==
  /\ calls = <<>> /\ ~running_
  /\ Spend("starts", MaxStarts)
  /\ running_' = TRUE /\ stopped' = FALSE
  /\ calls' = StartSteps
  /\ UNCHANGED <<connected_, capturing_, publishing, installed, threads, starter, link, caller, asker>>

Stop ==
  /\ calls = <<>>
  /\ Spend("stops", MaxStops)
  /\ running_' = FALSE /\ stopped' = TRUE
  /\ calls' = IF running_ \/ capturing_ THEN FullStop ELSE BriefStop
  /\ UNCHANGED <<connected_, capturing_, publishing, installed, threads, starter, link, caller, asker>>

Take(what, t) ==
  /\ calls # <<>> /\ Head(calls) = Step(what, t)
  /\ calls' = Tail(calls)
  /\ UNCHANGED <<running_, stopped, caller, asker, spent>>

Reset ==
  /\ Take("reset", "session")
  /\ capturing_' = FALSE /\ connected_' = FALSE
  /\ UNCHANGED <<publishing, installed, threads, starter, link>>

Lower(w) ==
  /\ Take("lower", w)
  /\ wanted' = [wanted EXCEPT ![w] = FALSE]
  /\ UNCHANGED <<connected_, capturing_, publishing, installed, thread, starter, link>>

\* join() returns when the thread is over.
Join(t) ==
  /\ Take("join", t)
  /\ thread[t] # "runs"
  /\ thread' = [thread EXCEPT ![t] = "none"]
  /\ UNCHANGED <<connected_, capturing_, publishing, installed, wanted, starter, link>>

Spawn(t) ==
  /\ Take("spawn", t)
  /\ thread' = [thread EXCEPT ![t] = "runs"]
  /\ IF t = "start" THEN starter' = "installs" /\ UNCHANGED wanted
                    ELSE wanted' = [wanted EXCEPT ![t] = TRUE] /\ UNCHANGED starter
  /\ UNCHANGED <<connected_, capturing_, publishing, installed, link>>

Disconnected ==
  /\ Take("disconnected", "session")
  /\ connected_' = FALSE
  /\ UNCHANGED <<capturing_, publishing, installed, threads, starter, link>>

ClearCallbacks ==
  /\ Take("clear", "session")
  /\ installed' = FALSE
  /\ UNCHANGED <<connected_, capturing_, publishing, threads, starter, link>>

StopsPublishing ==
  /\ Take("unpublish", "session")
  /\ publishing' = FALSE
  /\ UNCHANGED <<connected_, capturing_, installed, threads, starter, link>>

ClosesSignaling ==
  /\ Take("disconnect", "session")
  /\ link' = "closed"
  /\ UNCHANGED <<connected_, capturing_, publishing, installed, threads, starter>>

EndsCapture ==
  /\ Take("release", "session")
  /\ capturing_' = FALSE
  /\ UNCHANGED <<connected_, publishing, installed, threads, starter, link>>

ControlStep ==
  \/ Reset \/ Disconnected \/ ClearCallbacks \/ StopsPublishing \/ ClosesSignaling \/ EndsCapture
  \/ \E w \in Workers : Lower(w)
  \/ \E t \in Joinable : Join(t) \/ Spawn(t)
-----------------------------------------------------------------------------
(* The workers and the start thread. *)

\* A worker leaves its loop when it sees its flag lowered.
WorkerLeaves(w) ==
  /\ thread[w] = "runs" /\ ~wanted[w]
  /\ thread' = [thread EXCEPT ![w] = "over"]
  /\ UNCHANGED <<flags, wanted, calls, stopped, starter, link, caller, asker, spent>>

StarterEnds == starter' = "idle" /\ thread' = [thread EXCEPT !["start"] = "over"]

InstallCallbacks ==
  /\ starter = "installs"
  /\ installed' = TRUE /\ starter' = "connects"
  /\ UNCHANGED <<running_, connected_, capturing_, publishing, threads, calls, stopped,
                 link, caller, asker, spent>>

\* Something throws, and startThread() catches it.
StarterCrashes ==
  /\ starter = "installs"
  /\ connected_' = FALSE /\ running_' = FALSE
  /\ StarterEnds
  /\ UNCHANGED <<capturing_, publishing, installed, wanted, calls, stopped, link, caller, asker, spent>>

\* VDONinjaSignaling::connect: it takes an open connection as it is, refuses
\* while its worker is trying or a callback of the old one runs, or starts one.
CallsConnect ==
  /\ starter = "connects"
  /\ CASE link = "open" -> StarterEnds /\ UNCHANGED link
       [] link = "trying" \/ (link = "closed" /\ caller # "idle") ->
            starter' = "failed" /\ UNCHANGED <<thread, link>>
       [] OTHER -> starter' = "waits" /\ link' = "trying" /\ UNCHANGED thread
  /\ UNCHANGED <<flags, wanted, calls, stopped, caller, asker, spent>>

\* connect() sees the connection open, or gives up waiting for it: its worker
\* goes on trying unless disconnect() has ended it.
ConnectReturns ==
  /\ starter = "waits"
  /\ IF link = "open" THEN StarterEnds ELSE starter' = "failed" /\ UNCHANGED thread
  /\ UNCHANGED <<flags, wanted, calls, stopped, link, caller, asker, spent>>

StarterFails ==
  /\ starter = "failed"
  /\ running_' = FALSE
  /\ StarterEnds
  /\ UNCHANGED <<connected_, capturing_, publishing, installed, wanted, calls, stopped,
                 link, caller, asker, spent>>

StarterStep ==
  InstallCallbacks \/ StarterCrashes \/ CallsConnect \/ ConnectReturns \/ StarterFails
-----------------------------------------------------------------------------
(* The connection and its connected callback. *)

\* The worker begins no attempt while a callback of the last one runs.
SocketOpens ==
  /\ link = "trying" /\ caller = "idle"
  /\ Spend("opens", MaxOpens)
  /\ link' = "open" /\ caller' = IF installed THEN "publishes" ELSE "idle"
  /\ UNCHANGED <<flags, threads, calls, stopped, starter, asker>>

SocketLost ==
  /\ link = "open"
  /\ link' \in {"trying", "closed"}
  /\ UNCHANGED <<flags, threads, calls, stopped, starter, caller, asker, spent>>

CallbackKeeps == UNCHANGED <<installed, threads, calls, stopped, starter, link, asker, spent>>

Publishes ==
  /\ caller = "publishes" /\ publishing' = TRUE /\ caller' = "connects"
  /\ UNCHANGED <<running_, connected_, capturing_>> /\ CallbackKeeps

StoresConnected ==
  /\ caller = "connects" /\ connected_' = TRUE /\ caller' = "captures"
  /\ UNCHANGED <<running_, capturing_, publishing>> /\ CallbackKeeps

\* OBS begins the capture, or refuses to.
BeginsCapture ==
  /\ caller = "captures"
  /\ caller' \in (IF capturing_ THEN {"idle"} ELSE {"began", "refused"})
  /\ UNCHANGED <<running_, connected_, capturing_, publishing>> /\ CallbackKeeps

StoresCapturing ==
  /\ caller = "began" /\ capturing_' = TRUE /\ caller' = "idle"
  /\ UNCHANGED <<running_, connected_, publishing>> /\ CallbackKeeps

CaptureRefused ==
  /\ caller = "refused" /\ running_' = FALSE /\ connected_' = FALSE /\ caller' = "idle"
  /\ UNCHANGED <<capturing_, publishing>> /\ CallbackKeeps

CallbackStep ==
  Publishes \/ StoresConnected \/ BeginsCapture \/ StoresCapturing \/ CaptureRefused
-----------------------------------------------------------------------------
(* A viewer asks for continuous statistics. *)

AskerKeeps == UNCHANGED <<flags, calls, stopped, starter, link, caller>>

RequestArrives ==
  /\ asker = "idle" /\ installed /\ publishing
  /\ Spend("requests", MaxRequests)
  /\ asker' = "adds"
  /\ UNCHANGED threads /\ AskerKeeps

AddSubscriber ==
  /\ asker = "adds"
  /\ wanted' = [wanted EXCEPT !["stats"] = TRUE]
  /\ asker' = IF wanted["stats"] THEN "idle" ELSE "joins"
  /\ UNCHANGED <<thread, spent>> /\ AskerKeeps

JoinOldStats ==
  /\ asker = "joins" /\ thread["stats"] # "runs"
  /\ thread' = [thread EXCEPT !["stats"] = "none"]
  /\ asker' = "spawns"
  /\ UNCHANGED <<wanted, spent>> /\ AskerKeeps

SpawnStats ==
  /\ asker = "spawns"
  /\ thread' = [thread EXCEPT !["stats"] = "runs"]
  /\ asker' = "idle"
  /\ UNCHANGED <<wanted, spent>> /\ AskerKeeps

AskerStep == AddSubscriber \/ JoinOldStats \/ SpawnStats
-----------------------------------------------------------------------------
OutputNext ==
  \/ Start \/ Stop \/ ControlStep
  \/ \E w \in Workers : WorkerLeaves(w)
  \/ StarterStep \/ SocketOpens \/ SocketLost \/ CallbackStep
  \/ RequestArrives \/ AskerStep

\* Every thread that can take a step takes one; connections and viewers may not.
OutputFairness ==
  /\ WF_outputVars(ControlStep) /\ WF_outputVars(StarterStep)
  /\ WF_outputVars(CallbackStep) /\ WF_outputVars(AskerStep)
  /\ \A w \in Workers : WF_outputVars(WorkerLeaves(w))

OutputSpec == OutputInit /\ [][OutputNext]_outputVars /\ OutputFairness

\* start() and stop() never assign a std::thread over one that is joinable,
\* which would end the process; an output that runs has its two workers, and
\* one that was stopped has neither them nor a start thread, whichever way the
\* session before it failed.
SessionThreads ==
  /\ calls # <<>> /\ Head(calls).do = "spawn" => thread[Head(calls).of] = "none"
  /\ calls = <<>> /\ running_ => thread["media"] = "runs" /\ thread["summary"] = "runs"
  /\ calls = <<>> /\ stopped => \A t \in Joinable \ {"stats"} : thread[t] = "none"

\* A stop() returns, although callbacks go on arriving while it runs.
StopReturns == stopped /\ calls # <<>> ~> calls = <<>>

\* A start() gets its session connected, or ends it.
StartIsAnswered == running_ ~> connected_ \/ ~running_
===============================================================================
