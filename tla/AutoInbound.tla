------------------------------- MODULE AutoInbound -------------------------------
(***************************************************************************)
(* VDOAutoSceneManager: the streams of a room become browser sources of    *)
(* OBS.  Callbacks of signaling and of data channels bring listings and    *)
(* streams that come and go; a worker removes, after a time of grace, what *)
(* a listing missed; start() and stop() bracket a session; and all that    *)
(* touches OBS is a task in the queue of its UI thread.                    *)
(*                                                                         *)
(* A step is a section under stateMutex_ with the notification after it,   *)
(* or the queueing of a task where the code does it without the lock.      *)
(* Time is left out: what waits for its grace may be due at any moment.    *)
(* The settings stay as they are, and no two streams share a source name.  *)
(***************************************************************************)
EXTENDS Naturals, Sequences, FiniteSets, SequencesExt

CONSTANTS
  Feeds,             \* threads that bring listings and streams
  Inbound,           \* the streams of the room
  Own,               \* those that the output publishes itself
  Scenes,
  NoScene,           \* no target scene, or none remembered
  InboundSettings,   \* what the user may have set: remove, grid and target
  MaxInboundStarts,  \* bound on starts
  InboundBudgets,    \* bounds: what feeds bring, of which streams, and how many
                     \* feeds, starts, stops and changes of scene there are
  StartOverlapsStop  \* may start() run while a stop() has not returned?

ASSUME InboundAssumption ==
  /\ IsFiniteSet(Inbound) /\ Own \subseteq Inbound /\ NoScene \notin Scenes
  /\ InboundSettings \subseteq
       [remove: BOOLEAN, grid: BOOLEAN, target: Scenes \cup {NoScene}]
  /\ MaxInboundStarts \in Nat
  /\ InboundBudgets \subseteq
       [kinds: SUBSET {"listing", "added", "removed"}, streams: SUBSET Inbound,
        feeds: Nat, starts: 0..MaxInboundStarts, stops: Nat, switches: Nat]

VARIABLES
  settings_,  \* removeOnDisconnect, layoutMode and targetScene
  active,     \* running_
  managed,    \* managedStreamIds_
  pending,    \* the streams in pendingListingRemovals_
  workers,    \* the removal threads that were started: the step of each, and
              \* the streams of the layout it is about to queue
  owned,      \* the number of the one in removalThread_, 0 for none
  stopper,    \* the thread in stop(): its step, the thread it joins, its snapshot
  feed,       \* the threads in Feeds: step, streams still to add, layout
  ui,         \* the tasks of the UI thread
  scene,      \* the current scene
  sources,    \* the streams that have a source
  items,      \* for each scene, the streams that it shows and those it hides
  assigned,   \* sceneAssignments_
  supply      \* what is left of the bounds

manager_ == <<active, managed, pending>>
obs == <<ui, scene, sources, items, assigned>>
inboundVars == <<settings_, manager_, workers, owned, stopper, feed, obs, supply>>

NoStopper == [step |-> "idle", joins |-> 0, streams |-> {}]
QuietFeed == [step |-> "idle", todo |-> <<>>, layout |-> {}]

InboundInit ==
  /\ settings_ \in InboundSettings
  /\ active = FALSE /\ managed = {} /\ pending = {}
  /\ workers = <<>> /\ owned = 0 /\ stopper = NoStopper
  /\ feed = [f \in Feeds |-> QuietFeed]
  /\ ui = <<>> /\ scene \in Scenes /\ sources = {}
  /\ items = [c \in Scenes |-> [shown |-> {}, hidden |-> {}]]
  /\ assigned = [s \in Inbound |-> NoScene]
  /\ supply \in InboundBudgets

Count(what) == supply[what] > 0 /\ supply' = [supply EXCEPT ![what] = @ - 1]
Brings(kind) == kind \in supply.kinds /\ Count("feeds")

\* removalCv_.notify_all(), for workers that ws says are there.
Notified(ws) ==
  [w \in DOMAIN ws |-> [ws[w] EXCEPT !.step = IF @ = "waits" THEN "checks" ELSE @]]

Task(do, streams) == [do |-> do, streams |-> streams]

\* Mutant: a removal forgets to erase the stream.
StillManaged(streams) == managed
Unmanaged(streams) == managed \ streams

\* queueStreamRemovalLocked: the tasks are queued before the lock is released.
QueueRemovals(streams) ==
  /\ managed' = Unmanaged(streams)
  /\ ui' = ui \o SetToSeq({Task("remove", {s}) : s \in streams})
-----------------------------------------------------------------------------
(* start() and stop().                                                      *)

StartInbound ==
  /\ StartOverlapsStop \/ stopper.step = "idle"
  /\ Count("starts")
  /\ IF active
       THEN UNCHANGED <<manager_, workers, owned>>
       ELSE /\ active' = TRUE /\ managed' = {} /\ pending' = {}
            /\ workers' = Append(workers, [step |-> "checks", layout |-> {}])
            /\ owned' = Len(workers')
  /\ UNCHANGED <<settings_, stopper, feed, obs>>

StopInbound ==
  /\ stopper.step = "idle" /\ (active \/ owned # 0)
  /\ Count("stops")
  /\ active' = FALSE /\ managed' = {} /\ pending' = {} /\ owned' = 0
  /\ stopper' = [step |-> "joins", joins |-> owned, streams |-> managed]
  /\ workers' = Notified(workers)
  /\ UNCHANGED <<settings_, feed, obs>>

\* The thread is over; without removeOnDisconnect that is all.
StopJoins_ ==
  /\ stopper.step = "joins"
  /\ stopper.joins # 0 => workers[stopper.joins].step = "over"
  /\ stopper' = IF settings_.remove THEN [stopper EXCEPT !.step = "drops"] ELSE NoStopper
  /\ UNCHANGED <<settings_, manager_, workers, owned, feed, obs, supply>>

StopDrops ==
  /\ stopper.step = "drops"
  /\ IF stopper.streams = {}
       THEN stopper' = NoStopper /\ UNCHANGED ui
       ELSE \E s \in stopper.streams :
              /\ ui' = Append(ui, Task("drop", {s}))
              /\ stopper' = [stopper EXCEPT !.streams = @ \ {s}]
  /\ UNCHANGED <<settings_, manager_, workers, owned, feed, scene, sources, items,
                 assigned, supply>>
-----------------------------------------------------------------------------
(* Listings, and streams that come and go.                                  *)

\* reconcileAutoInboundListing
NewlyListed(listed) == listed \ managed
Missed(listed) == managed \ listed

\* What is listed keeps or gets its source; what is managed and not listed is
\* given its time of grace.
RoomListing(f) ==
  /\ feed[f].step = "idle" /\ Brings("listing")
  /\ \E named \in SUBSET supply.streams :
       LET listed == named \ Own IN
       IF ~active
         THEN UNCHANGED <<manager_, workers, feed>>
         ELSE /\ pending' = (pending \ listed) \cup Missed(listed)
              /\ workers' = IF listed # {} \/ Missed(listed) # {}
                              THEN Notified(workers) ELSE workers
              /\ feed' = [feed EXCEPT ![f].todo = SetToSeq(NewlyListed(listed)),
                            ![f].step = IF NewlyListed(listed) = {} THEN "idle" ELSE "admits"]
              /\ UNCHANGED <<active, managed>>
  /\ UNCHANGED <<settings_, owned, stopper, obs>>

StreamAdded(f) ==
  /\ feed[f].step = "idle" /\ Brings("added")
  /\ \E s \in supply.streams :
       feed' = [feed EXCEPT ![f].todo = <<s>>, ![f].step = "admits"]
  /\ UNCHANGED <<settings_, manager_, workers, owned, stopper, obs>>

\* onStreamAdded has returned: a listing goes on to its next stream.
Added(f) ==
  LET rest == Tail(feed[f].todo)
  IN feed' = [feed EXCEPT ![f] =
       [step |-> IF rest = <<>> THEN "idle" ELSE "admits", todo |-> rest, layout |-> {}]]

FeedGoes(f, step) == feed' = [feed EXCEPT ![f].step = step]

\* onStreamAdded's first section, and the URL, which may not be usable.
AddAdmitted(f) ==
  /\ feed[f].step = "admits"
  /\ LET s == Head(feed[f].todo) IN
     IF ~active \/ s \in Own
       THEN Added(f) /\ UNCHANGED <<pending, workers>>
       ELSE /\ pending' = pending \ {s}
            /\ workers' = Notified(workers)
            /\ FeedGoes(f, "inserts") \/ Added(f)
  /\ UNCHANGED <<settings_, active, managed, owned, stopper, obs, supply>>

\* Its second section.
AddInserted(f) ==
  /\ feed[f].step = "inserts"
  /\ LET s == Head(feed[f].todo) IN
     IF ~active \/ s \in Own
       THEN Added(f) /\ UNCHANGED <<pending, managed>>
       ELSE /\ pending' = pending \ {s}
            /\ managed' = managed \cup {s}
            /\ IF s \in managed THEN Added(f) ELSE FeedGoes(f, "queues")
  /\ UNCHANGED <<settings_, active, workers, owned, stopper, obs, supply>>

AddQueued(f) ==
  /\ feed[f].step = "queues"
  /\ ui' = Append(ui, Task("add", {Head(feed[f].todo)}))
  /\ IF settings_.grid THEN FeedGoes(f, "looks") ELSE Added(f)
  /\ UNCHANGED <<settings_, manager_, workers, owned, stopper, scene, sources, items,
                 assigned, supply>>

StreamRemoved(f) ==
  /\ feed[f].step = "idle" /\ Brings("removed")
  /\ \E s \in supply.streams :
       /\ pending' = pending \ {s}
       /\ QueueRemovals({s})
       /\ feed' = IF settings_.grid
                    THEN [feed EXCEPT ![f].step = "looks", ![f].todo = <<s>>] ELSE feed
  /\ workers' = Notified(workers)
  /\ UNCHANGED <<settings_, active, owned, stopper, scene, sources, items, assigned>>

\* queueLayoutRefresh: the streams are copied under the lock, the task is
\* queued without it.
LayoutCopied(f) ==
  /\ feed[f].step = "looks"
  /\ feed' = [feed EXCEPT ![f].step = "lays", ![f].layout = managed]
  /\ UNCHANGED <<settings_, manager_, workers, owned, stopper, obs, supply>>

LayoutQueued(f) ==
  /\ feed[f].step = "lays"
  /\ ui' = Append(ui, Task("layout", feed[f].layout))
  /\ Added(f)
  /\ UNCHANGED <<settings_, manager_, workers, owned, stopper, scene, sources, items,
                 assigned, supply>>

FeedStep(f) ==
  AddAdmitted(f) \/ AddInserted(f) \/ AddQueued(f) \/ LayoutCopied(f) \/ LayoutQueued(f)
-----------------------------------------------------------------------------
(* The removal worker.                                                      *)

WorkerKeeps == UNCHANGED <<settings_, active, owned, stopper, feed, scene, sources,
                           items, assigned, supply>>

\* It ends, or waits for a notification when nothing has a deadline.
WorkerChecks(w) ==
  /\ workers[w].step = "checks"
  /\ ~active \/ pending = {}
  /\ workers' = [workers EXCEPT ![w].step = IF active THEN "waits" ELSE "over"]
  /\ UNCHANGED <<managed, pending, ui>> /\ WorkerKeeps

\* A deadline has passed.
WorkerTakesDue(w) ==
  /\ workers[w].step = "checks" /\ active
  /\ \E due \in SUBSET pending \ {{}} :
       /\ pending' = pending \ due
       /\ QueueRemovals(due \cap managed)
       /\ workers' = [workers EXCEPT ![w].step =
            IF settings_.grid /\ due \cap managed # {} THEN "looks" ELSE "checks"]
  /\ WorkerKeeps

WorkerCopiesLayout(w) ==
  /\ workers[w].step = "looks"
  /\ workers' = [workers EXCEPT ![w] = [step |-> "lays", layout |-> managed]]
  /\ UNCHANGED <<managed, pending, ui>> /\ WorkerKeeps

WorkerQueuesLayout(w) ==
  /\ workers[w].step = "lays"
  /\ ui' = Append(ui, Task("layout", workers[w].layout))
  /\ workers' = [workers EXCEPT ![w] = [step |-> "checks", layout |-> {}]]
  /\ UNCHANGED <<managed, pending>> /\ WorkerKeeps

RemovalWorker(w) ==
  \/ WorkerChecks(w) \/ WorkerTakesDue(w)
  \/ WorkerCopiesLayout(w) \/ WorkerQueuesLayout(w)
-----------------------------------------------------------------------------
(* The UI thread.                                                           *)

TargetScene == IF settings_.target = NoScene THEN scene ELSE settings_.target

ItemsIn(c) == items[c].shown \cup items[c].hidden
Showing(c, streams) ==
  [items EXCEPT ![c] = [shown |-> @.shown \cup streams, hidden |-> @.hidden \ streams]]
Hiding(c, s) ==
  [items EXCEPT ![c] = [shown |-> @.shown \ {s}, hidden |-> @.hidden \cup {s}]]

\* obs_source_remove: the scenes lose their items of the source.
WithoutSource(s) ==
  [c \in Scenes |-> [shown |-> items[c].shown \ {s}, hidden |-> items[c].hidden \ {s}]]

UiAdd(s) ==
  /\ sources' = sources \cup {s}
  /\ items' = Showing(TargetScene, {s})
  /\ assigned' = [assigned EXCEPT ![s] = TargetScene]

\* In the scene where the source was added, if that is known.
UiRemove(s) ==
  LET c == IF assigned[s] = NoScene THEN TargetScene ELSE assigned[s] IN
  /\ assigned' = [assigned EXCEPT ![s] = NoScene]
  /\ IF settings_.remove /\ s \in sources
       THEN sources' = sources \ {s} /\ items' = WithoutSource(s)
       ELSE /\ items' = IF s \in ItemsIn(c) THEN Hiding(c, s) ELSE items
            /\ UNCHANGED sources

UiDrop(s) ==
  /\ assigned' = [assigned EXCEPT ![s] = NoScene]
  /\ sources' = sources \ {s} /\ items' = WithoutSource(s)

\* applyGridLayoutOnUi makes visible what it places.
UiLayout(streams) ==
  /\ items' = Showing(TargetScene, streams \cap ItemsIn(TargetScene))
  /\ UNCHANGED <<sources, assigned>>

UiTask ==
  /\ ui # <<>>
  /\ ui' = Tail(ui)
  /\ LET task == Head(ui) IN
     \/ task.do = "layout" /\ UiLayout(task.streams)
     \/ \E s \in task.streams :
          \/ task.do = "add" /\ UiAdd(s)
          \/ task.do = "remove" /\ UiRemove(s)
          \/ task.do = "drop" /\ UiDrop(s)
  /\ UNCHANGED <<settings_, manager_, workers, owned, stopper, feed, scene, supply>>

SwitchScene ==
  /\ Count("switches")
  /\ scene' \in Scenes \ {scene}
  /\ UNCHANGED <<settings_, manager_, workers, owned, stopper, feed, ui, sources,
                 items, assigned>>
-----------------------------------------------------------------------------
Removers == 1..MaxInboundStarts
Worker_(w) == w \in DOMAIN workers /\ RemovalWorker(w)

InboundNext ==
  \/ StartInbound \/ StopInbound \/ StopJoins_ \/ StopDrops
  \/ \E f \in Feeds : RoomListing(f) \/ StreamAdded(f) \/ StreamRemoved(f) \/ FeedStep(f)
  \/ \E w \in Removers : Worker_(w)
  \/ UiTask \/ SwitchScene

InboundSpec == InboundInit /\ [][InboundNext]_inboundVars

\* Nobody has a task in hand that it would still queue.
InboundAtRest ==
  /\ ui = <<>> /\ stopper.step = "idle"
  /\ \A f \in Feeds : feed[f].step = "idle"
  /\ \A w \in DOMAIN workers : workers[w].step \in {"checks", "waits", "over"}

\* Once everything came to rest, each stream that is managed has its source,
\* shown in the scene where it was added, in whatever order listings, hints,
\* removals, the worker and the user's changes of scene came.
ManagedIsShown ==
  InboundAtRest /\ active =>
    \A s \in managed :
      s \in sources /\ assigned[s] # NoScene /\ s \in items[assigned[s]].shown

\* The converse, which does not hold: an addition queues its task without the
\* lock, so a removal that comes in between is queued before it, and a layout
\* that was copied before a removal may be queued after it.
OnlyManagedIsShown ==
  InboundAtRest /\ active =>
    \A c \in Scenes : items[c].shown \subseteq managed

\* The worker sleeps only while there is nothing for it to do and nobody has
\* stopped it: no notification is lost, or stop() would join it for ever.
RemoversAwake ==
  \A w \in DOMAIN workers :
    workers[w].step = "waits" => active /\ pending = {} /\ w = owned
===============================================================================
