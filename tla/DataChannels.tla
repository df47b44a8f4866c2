------------------------------ MODULE DataChannels ------------------------------
(***************************************************************************)
(* The control channel of one peer of VDONinjaPeerManager.  The peer holds *)
(* at most one channel; every change of it takes a new revision, and what  *)
(* was begun for a channel counts only under the lease (channel, revision) *)
(* it was begun with.  Threads: the one that hands in a channel and sets   *)
(* its callbacks, one at a time, while RTC may already call them; RTC's    *)
(* own; the manager's, which retires the peer and releases it; and the     *)
(* thread of another message that binds the channel as a route for the     *)
(* signaling of a second peer, the target.                                 *)
(*                                                                         *)
(* The locks that matter are kept: dataChannelCallbackMutationMutex, and   *)
(* the lock that RTC holds around a callback and takes to replace it.      *)
(* Closing and failing are one event; all hooks of a channel are cleared   *)
(* at once; other labels, and what the messages say, are left out.         *)
(***************************************************************************)
EXTENDS Integers, Sequences, SequencesExt

CONSTANTS
  Channels,      \* the channels RTC creates
  MaxIncoming,   \* bound on the channels handed in
  ChannelBudgets \* bounds: the channels handed in, the messages of each, and
                 \* what happens to routes

NoChannel == "none"

ASSUME ChannelAssumption ==
  /\ NoChannel \notin Channels
  /\ MaxIncoming \in Nat
  /\ ChannelBudgets \subseteq [incoming : 0..MaxIncoming, messages : Nat, routes : Nat]

VARIABLES
  holder,   \* the PeerInfo
  chan,     \* per channel, RTC's side of it
  setup,    \* per revision, its DataChannelCallbackInstallState
  job,      \* per thread, what it does
  mutation, \* who holds dataChannelCallbackMutationMutex
  route,    \* the target, its signalingDataChannel and the pending route
  heard,    \* per revision, what the application was told
  spare     \* what is left of the budget

channelVars == <<holder, chan, setup, job, mutation, route, heard, spare>>

ChannelThreads == {"installer", "callback", "manager", "binder"}
HookKinds == {"end", "open", "message"}
Revisions == 0..(3 * MaxIncoming + 2)
Nobody == "nobody"
NoLease == [ch |-> NoChannel, rev |-> 0]

IdleTask == [at |-> "idle", ch |-> NoChannel, rev |-> 0, kind |-> "open",
            n |-> 0, old |-> NoLease, observed |-> FALSE, allow |-> FALSE,
            inside |-> NoChannel]

(***************************************************************************)
(* Leases.                                                                 *)
(***************************************************************************)
LeaseOf(p) == [ch |-> p.channel, rev |-> p.revision]

\* isDataChannelLeaseCurrent
LeaseIsCurrent(ch, rev, allow) ==
  /\ holder.state = "live" \/ (allow /\ holder.state = "new")
  /\ holder.channel = ch /\ holder.revision = rev

OpenLease(ch, rev) == LeaseIsCurrent(ch, rev, FALSE) /\ holder.opened

Emptied(p) == [p EXCEPT !.channel = NoChannel, !.revision = @ + 1,
                        !.opened = FALSE, !.pending = FALSE]

\* purgeDataChannelAliasesForLease
Purged(r, lease) ==
  [r EXCEPT !.alias = IF @ = lease THEN NoLease ELSE @,
            !.pending = IF @ = lease THEN NoLease ELSE @]

At(t, stage) == job[t].at = stage
Go(t, j) == job' = [job EXCEPT ![t] = j]
GoTo(t, stage) == job' = [job EXCEPT ![t].at = stage]

\* Where a thread goes after the work on an event.
AfterEvent(t) ==
  CASE t = "installer" -> [job[t] EXCEPT !.at = "drain"]
    [] t = "callback"  -> [job[t] EXCEPT !.at = "drained"]
    [] OTHER           -> IdleTask

(***************************************************************************)
(* Handing in a channel.                                                   *)
(***************************************************************************)
\* handleIncomingDataChannel up to the end of its locks.  A publisher's own
\* channel is created before the peer is registered.
Incoming(ch) ==
  LET allow == holder.state = "new"
      admitted == [holder EXCEPT !.channel = ch, !.revision = @ + 1,
                               !.opened = FALSE, !.pending = FALSE]
  IN /\ At("installer", "idle") /\ mutation = Nobody
     /\ spare.incoming > 0 /\ holder.channel # ch
     /\ spare' = [spare EXCEPT !.incoming = @ - 1]
     /\ IF holder.state = "gone"
        THEN /\ job["callback"].inside # ch
             /\ chan' = [chan EXCEPT ![ch].hooks = [k \in HookKinds |-> 0]]
             /\ UNCHANGED <<holder, setup, job>>
        ELSE /\ holder' = admitted
             /\ setup' = [setup EXCEPT ![admitted.revision].phase = "installing"]
             /\ Go("installer", [IdleTask EXCEPT
                  !.at = IF holder.channel = NoChannel THEN "check" ELSE "purge",
                  !.ch = ch, !.rev = admitted.revision, !.old = LeaseOf(holder),
                  !.observed = ch \in holder.observed, !.allow = allow])
             /\ UNCHANGED chan
     /\ UNCHANGED <<mutation, route, heard>>

\* The peer of a channel that is created for it is registered afterwards.
Register ==
  /\ holder.state = "new" /\ At("installer", "idle") /\ holder.channel # NoChannel
  /\ holder' = [holder EXCEPT !.state = "live"]
  /\ UNCHANGED <<chan, setup, job, mutation, route, heard, spare>>

PurgeOld ==
  /\ At("installer", "purge")
  /\ route' = Purged(route, job["installer"].old)
  /\ GoTo("installer", "clearOld")
  /\ UNCHANGED <<holder, chan, setup, mutation, heard, spare>>

CheckLease ==
  LET j == job["installer"]
  IN /\ At("installer", "check")
     /\ GoTo("installer", IF LeaseIsCurrent(j.ch, j.rev, j.allow) THEN "install"
                          ELSE "clearNew")
     /\ UNCHANGED <<holder, chan, setup, mutation, route, heard, spare>>

\* installDataChannelCallbacks: the hooks in their order, each if the lease is
\* still current.
NextHook(ch, rev) ==
  IF chan[ch].hooks["end"] # rev THEN "end"
  ELSE IF chan[ch].hooks["open"] # rev THEN "open"
  ELSE IF chan[ch].hooks["message"] # rev THEN "message" ELSE "done"

InstallChannelHook ==
  LET j == job["installer"]
      hook == NextHook(j.ch, j.rev)
  IN /\ At("installer", "install") /\ hook # "done"
     /\ mutation \in {Nobody, "installer"}
     /\ job["callback"].inside # j.ch
     /\ IF LeaseIsCurrent(j.ch, j.rev, j.allow)
        THEN /\ mutation' = "installer"
             /\ chan' = [chan EXCEPT ![j.ch].hooks[hook] = j.rev]
             /\ UNCHANGED job
        ELSE mutation' = Nobody /\ GoTo("installer", "cancel") /\ UNCHANGED chan
     /\ UNCHANGED <<holder, setup, route, heard, spare>>

\* Its end: an open that was observed before comes first; then what was held
\* back is dispatched, unless the lease was lost or the channel is closed.
Installed ==
  LET j == job["installer"]
      queue == setup[j.rev].deferred
      current == LeaseIsCurrent(j.ch, j.rev, j.allow)
  IN /\ At("installer", "install") /\ NextHook(j.ch, j.rev) = "done"
     /\ mutation' = Nobody
     /\ IF current /\ chan[j.ch].state # "closed"
        THEN /\ setup' = [setup EXCEPT ![j.rev] =
                  [phase |-> "draining",
                   deferred |-> IF j.observed
                                THEN <<[kind |-> "open", n |-> 0]>> \o queue
                                ELSE queue]]
             /\ GoTo("installer", "drain")
        ELSE /\ UNCHANGED setup
             /\ GoTo("installer", IF current THEN "cancelClosed" ELSE "cancel")
     /\ UNCHANGED <<holder, chan, route, heard, spare>>

\* beginDrain(false), and the terminal of a channel that closed meanwhile.
Cancel ==
  LET j == job["installer"]
  IN /\ job["installer"].at \in {"cancel", "cancelClosed"}
     /\ setup' = [setup EXCEPT ![j.rev] = [phase |-> "cancelled", deferred |-> <<>>]]
     /\ Go("installer", [j EXCEPT !.at = IF j.at = "cancel" THEN "drain" ELSE "run",
                                 !.kind = "end"])
     /\ UNCHANGED <<holder, chan, mutation, route, heard, spare>>

\* drain(): later events queue behind until nothing is left.  A cancelled
\* installation has nothing to drain, and its hooks are cleared.
DrainEvents ==
  LET j == job["installer"]
      s == setup[j.rev]
  IN /\ At("installer", "drain")
     /\ IF s.deferred # <<>>
        THEN /\ setup' = [setup EXCEPT ![j.rev].deferred = Tail(@)]
             /\ Go("installer", [j EXCEPT !.at = "run",
                  !.kind = Head(s.deferred).kind, !.n = Head(s.deferred).n])
        ELSE IF s.phase = "cancelled"
        THEN GoTo("installer", "clearNew") /\ UNCHANGED setup
        ELSE /\ setup' = [setup EXCEPT ![j.rev].phase = "active"]
             /\ Go("installer", IdleTask)
     /\ UNCHANGED <<holder, chan, mutation, route, heard, spare>>

(***************************************************************************)
(* RTC: a channel opens, receives and closes, and calls its hooks.         *)
(***************************************************************************)
Happens(ch, kind, state) ==
  /\ chan' = [chan EXCEPT ![ch].state = state, ![ch].sent = @ + 1,
                          ![ch].events = Append(@, [kind |-> kind,
                                                    n |-> chan[ch].sent + 1])]
  /\ UNCHANGED <<holder, setup, job, mutation, route, heard, spare>>

TransportOpens(ch) ==
  chan[ch].state = "new" /\ holder.state = "live" /\ Happens(ch, "open", "open")
MessageArrives(ch) ==
  /\ chan[ch].state = "open" /\ chan[ch].sent <= spare.messages
  /\ Happens(ch, "message", "open")
TransportCloses(ch) ==
  /\ chan[ch].state = "open" /\ Happens(ch, "end", "closed")

\* An event waits for its hook; it does not overtake another that has one.
Deliverable(ch) ==
  {i \in 1..Len(chan[ch].events) :
     /\ chan[ch].hooks[chan[ch].events[i].kind] # 0
     /\ \A k \in 1..(i - 1) : chan[ch].hooks[chan[ch].events[k].kind] = 0}

\* Mutant: what comes while the backlog is dispatched is not held back.
SubmittedAtOnce(rev, event) ==
  IF setup[rev].phase = "installing"
  THEN [setup EXCEPT ![rev].deferred = Append(@, event)] ELSE setup

\* submit
Submitted(rev, event) ==
  IF setup[rev].phase \in {"installing", "draining"}
  THEN [setup EXCEPT ![rev].deferred = Append(@, event)] ELSE setup

Callback(ch) ==
  /\ At("callback", "idle")
  /\ \E i \in Deliverable(ch) :
       LET event == chan[ch].events[i]
           rev == chan[ch].hooks[event.kind]
           held == Submitted(rev, event)
       IN /\ chan' = [chan EXCEPT ![ch].events = RemoveAt(@, i)]
          /\ setup' = held
          /\ Go("callback", [IdleTask EXCEPT
               !.at = IF held # setup \/ setup[rev].phase = "cancelled"
                      THEN "drained" ELSE "run",
               !.ch = ch, !.rev = rev, !.kind = event.kind, !.n = event.n,
               !.inside = ch])
  /\ UNCHANGED <<holder, mutation, route, heard, spare>>

\* drainRetiredDataChannelCallbackCleanupForHandle
Drained ==
  LET j == job["callback"]
  IN /\ At("callback", "drained")
     /\ Go("callback", IF j.ch \in holder.cleanup THEN [j EXCEPT !.at = "lock"]
                       ELSE IdleTask)
     /\ UNCHANGED <<holder, chan, setup, mutation, route, heard, spare>>

(***************************************************************************)
(* The work on an event, by RTC's thread or the one that drains.           *)
(***************************************************************************)
\* handleDataChannelOpen, and the commit in dispatchDataChannelOpen.
HandleOpen(t) ==
  LET j == job[t]
      dispatch == LeaseIsCurrent(j.ch, j.rev, FALSE) /\ ~holder.opened /\ ~holder.pending
  IN /\ At(t, "run") /\ j.kind = "open"
     /\ IF holder.state = "live"
        THEN holder' = [holder EXCEPT !.observed = @ \cup {j.ch},
                                  !.pending = @ \/ dispatch]
        ELSE UNCHANGED holder
     /\ Go(t, IF dispatch THEN [j EXCEPT !.at = "commit"] ELSE AfterEvent(t))
     /\ UNCHANGED <<chan, setup, mutation, route, heard, spare>>

CommitOpen(t) ==
  LET j == job[t]
  IN /\ At(t, "commit")
     /\ IF LeaseIsCurrent(j.ch, j.rev, FALSE) /\ ~holder.opened /\ holder.pending
        THEN /\ holder' = [holder EXCEPT !.opened = TRUE, !.pending = FALSE]
             /\ heard' = [heard EXCEPT ![j.rev].opens = @ + 1]
        ELSE UNCHANGED <<holder, heard>>
     /\ Go(t, AfterEvent(t))
     /\ UNCHANGED <<chan, setup, mutation, route, spare>>

\* handleDataChannelMessage and dispatchDataChannelMessage look at the lease
\* each; a bye makes the application disconnect the peer.
HandleMessage(t) ==
  LET j == job[t]
  IN /\ At(t, "run") /\ j.kind = "message"
     /\ Go(t, IF OpenLease(j.ch, j.rev) THEN [j EXCEPT !.at = "tell"]
              ELSE AfterEvent(t))
     /\ UNCHANGED <<holder, chan, setup, mutation, route, heard, spare>>

TellMessage(t) ==
  LET j == job[t]
  IN /\ At(t, "tell")
     /\ IF OpenLease(j.ch, j.rev)
        THEN /\ heard' = [heard EXCEPT ![j.rev].messages = Append(@, j.n)]
             /\ \/ Go(t, AfterEvent(t)) /\ UNCHANGED holder
                \/ GoTo(t, "retire") /\ holder' = [holder EXCEPT !.state = "gone"]
        ELSE Go(t, AfterEvent(t)) /\ UNCHANGED <<heard, holder>>
     /\ UNCHANGED <<chan, setup, mutation, route, spare>>

\* handleDataChannelTerminal: the lease, the routes, the callbacks.
HandleEnd(t) ==
  LET j == job[t]
  IN /\ At(t, "run") /\ j.kind = "end"
     /\ IF LeaseIsCurrent(j.ch, j.rev, FALSE)
        THEN /\ holder' = [Emptied(holder) EXCEPT !.observed = @ \ {j.ch}]
             /\ GoTo(t, "purgeEnd")
        ELSE Go(t, AfterEvent(t)) /\ UNCHANGED holder
     /\ UNCHANGED <<chan, setup, mutation, route, heard, spare>>

PurgeEnd(t) ==
  /\ At(t, "purgeEnd")
  /\ route' = Purged(route, [ch |-> job[t].ch, rev |-> job[t].rev])
  /\ Go(t, [job[t] EXCEPT !.at = "clear", !.old.ch = job[t].ch])
  /\ UNCHANGED <<holder, chan, setup, mutation, heard, spare>>

(***************************************************************************)
(* clearRetiredDataChannelCallbacksIfUnused                                *)
(***************************************************************************)
ToClear(t) ==
  CASE job[t].at \in {"clearOld", "clear"} -> {job[t].old.ch}
    [] job[t].at \in {"clearNew", "lock"}  -> {job[t].ch}
    [] OTHER                               -> {}

\* In the channel's own callback it is left to the end of the callback.
ByCallback(t, ch) == job[t].inside = ch /\ job[t].at # "lock"

LeaveToCallback(t) ==
  \E ch \in ToClear(t) :
    /\ ByCallback(t, ch)
    /\ holder' = [holder EXCEPT !.cleanup = @ \cup {ch}]
    /\ Go(t, AfterEvent(t))
    /\ UNCHANGED <<chan, setup, mutation, route, heard, spare>>

LockToClear(t) ==
  \E ch \in ToClear(t) :
    /\ ~ByCallback(t, ch) /\ mutation = Nobody
    /\ mutation' = t
    /\ UNCHANGED <<holder, chan, setup, job, route, heard, spare>>

\* RTC replaces a hook only when no callback of the channel runs elsewhere.
AfterClearing(t) ==
  CASE job[t].at = "clearOld" -> [job[t] EXCEPT !.at = "check"]
    [] job[t].at \in {"clearNew", "lock"} -> IdleTask
    [] job[t].at = "clear" /\ t = "manager" -> [job[t] EXCEPT !.at = "released"]
    [] OTHER -> AfterEvent(t)

Unused(ch) == ~(holder.state = "live" /\ holder.channel = ch)

ClearHooks(t) ==
  \E ch \in ToClear(t) :
    /\ mutation = t
    /\ Unused(ch) => job["callback"].inside \in {NoChannel, job[t].inside} \cup (Channels \ {ch})
    /\ chan' = IF Unused(ch)
               THEN [chan EXCEPT ![ch].hooks = [k \in HookKinds |-> 0]] ELSE chan
    /\ holder' = [holder EXCEPT !.cleanup = @ \ {ch}]
    /\ mutation' = Nobody /\ Go(t, AfterClearing(t))
    /\ UNCHANGED <<setup, route, heard, spare>>

(***************************************************************************)
(* Retiring and releasing the peer.                                        *)
(***************************************************************************)
\* retirePeerForDeferredCleanup takes the peer out of peers_, and then its
\* channel (retirePeerDataChannel); a message that was a bye does so in the
\* callback.
RetirePeer ==
  /\ At("manager", "idle") /\ holder.state = "live"
  /\ holder' = [holder EXCEPT !.state = "gone"]
  /\ GoTo("manager", "retire")
  /\ UNCHANGED <<chan, setup, mutation, route, heard, spare>>

RetireChannel(t) ==
  LET had == holder.channel # NoChannel
  IN /\ At(t, "retire")
     /\ holder' = [(IF had THEN Emptied(holder) ELSE holder) EXCEPT !.observed = {}]
     /\ route' = IF had THEN Purged(route, LeaseOf(holder)) ELSE route
     /\ Go(t, IF had THEN [job[t] EXCEPT !.at = "clear", !.old = LeaseOf(holder)]
              ELSE AfterEvent(t))
     /\ UNCHANGED <<chan, setup, mutation, heard, spare>>

\* releasePeerResources: what callbacks have left to clear.
ReleaseChannel ==
  /\ At("manager", "idle") /\ holder.state = "gone" /\ holder.cleanup # {}
  /\ \E ch \in holder.cleanup :
       Go("manager", [IdleTask EXCEPT !.at = "clear", !.old.ch = ch])
  /\ UNCHANGED <<holder, chan, setup, mutation, route, heard, spare>>

Released ==
  /\ At("manager", "released") /\ Go("manager", IdleTask)
  /\ UNCHANGED <<holder, chan, setup, mutation, route, heard, spare>>

(***************************************************************************)
(* Routes.                                                                 *)
(***************************************************************************)
\* bindViewerSignalingDataChannel reads the lease and commits it under a second
\* acquisition of its locks; consumePendingViewerSignalingDataChannel does the
\* same with the pending route of a target that has come.
ReadRoute ==
  /\ At("binder", "idle") /\ holder.state = "live" /\ holder.channel # NoChannel
  /\ holder.opened /\ spare.routes > 0
  /\ spare' = [spare EXCEPT !.routes = @ - 1]
  /\ Go("binder", [IdleTask EXCEPT !.at = "bind", !.old = LeaseOf(holder)])
  /\ UNCHANGED <<holder, chan, setup, mutation, route, heard>>

TakeRoute ==
  /\ At("binder", "idle") /\ route.target /\ route.pending # NoLease
  /\ route' = [route EXCEPT !.pending = NoLease]
  /\ Go("binder", [IdleTask EXCEPT !.at = "consume", !.old = route.pending])
  /\ UNCHANGED <<holder, chan, setup, mutation, heard, spare>>

\* Mutant: the route is committed as it was read.
RoutableOnce(lease) == TRUE
Routable(lease) == OpenLease(lease.ch, lease.rev)

CommitRoute ==
  LET j == job["binder"]
  IN /\ j.at \in {"bind", "consume"}
     /\ route' = IF ~Routable(j.old) THEN route
                 ELSE IF route.target THEN [route EXCEPT !.alias = j.old]
                 ELSE IF j.at = "bind" THEN [route EXCEPT !.pending = j.old]
                 ELSE route
     /\ Go("binder", IdleTask)
     /\ UNCHANGED <<holder, chan, setup, mutation, heard, spare>>

TargetComes ==
  /\ ~route.target /\ spare.routes > 0
  /\ spare' = [spare EXCEPT !.routes = @ - 1]
  /\ route' = [route EXCEPT !.target = TRUE]
  /\ UNCHANGED <<holder, chan, setup, job, mutation, heard>>

\* The target is retired with its route and the pending ones.
TargetGoes ==
  /\ route.target
  /\ route' = [target |-> FALSE, alias |-> NoLease, pending |-> NoLease]
  /\ UNCHANGED <<holder, chan, setup, job, mutation, heard, spare>>

ChannelInit ==
  /\ \E state \in {"new", "live"} :
       holder = [state |-> state, channel |-> NoChannel, revision |-> 0,
                 opened |-> FALSE, pending |-> FALSE, observed |-> {}, cleanup |-> {}]
  /\ chan = [ch \in Channels |-> [state |-> "new", sent |-> 0, events |-> <<>>,
                                  hooks |-> [k \in HookKinds |-> 0]]]
  /\ setup = [rev \in Revisions |-> [phase |-> "cancelled", deferred |-> <<>>]]
  /\ job = [t \in ChannelThreads |-> IdleTask]
  /\ mutation = Nobody
  /\ route = [target |-> FALSE, alias |-> NoLease, pending |-> NoLease]
  /\ heard = [rev \in Revisions |-> [opens |-> 0, messages |-> <<>>]]
  /\ spare \in ChannelBudgets

ChannelNext ==
  \/ \E ch \in Channels :
       \/ Incoming(ch) \/ Callback(ch)
       \/ TransportOpens(ch) \/ MessageArrives(ch) \/ TransportCloses(ch)
  \/ Register \/ PurgeOld \/ CheckLease \/ InstallChannelHook \/ Installed \/ Cancel
  \/ DrainEvents \/ Drained
  \/ \E t \in {"installer", "callback"} :
       \/ HandleOpen(t) \/ CommitOpen(t) \/ HandleMessage(t) \/ TellMessage(t)
       \/ HandleEnd(t) \/ PurgeEnd(t)
  \/ \E t \in {"installer", "callback", "manager"} :
       LeaveToCallback(t) \/ LockToClear(t) \/ ClearHooks(t) \/ RetireChannel(t)
  \/ RetirePeer \/ ReleaseChannel \/ Released
  \/ ReadRoute \/ TakeRoute \/ CommitRoute \/ TargetComes \/ TargetGoes

ChannelSpec == ChannelInit /\ [][ChannelNext]_channelVars

(***************************************************************************)
(* Properties.                                                             *)
(***************************************************************************)
\* Every variable has its type.
ChannelTypeOK ==
  /\ holder.state \in {"new", "live", "gone"} /\ holder.revision \in Revisions
  /\ holder.channel \in Channels \cup {NoChannel}
  /\ holder.observed \subseteq Channels /\ holder.cleanup \subseteq Channels
  /\ \A ch \in Channels : chan[ch].hooks \in [HookKinds -> Revisions]
  /\ mutation \in ChannelThreads \cup {Nobody}

\* Under a lease the application hears of an open channel once, then of its
\* messages, in the order they were sent and without a gap, whichever thread
\* tells it and whatever was held back while the callbacks were set.
HeardInOrder ==
  \A rev \in Revisions :
    LET messages == heard[rev].messages
    IN /\ heard[rev].opens <= 1
       /\ messages # <<>> => heard[rev].opens = 1
       /\ \A i \in 1..(Len(messages) - 1) : messages[i + 1] = messages[i] + 1

\* Once no thread is at it, the channel of a live peer has all its callbacks,
\* of its present revision, and no other channel has any; and a route leads
\* only to a channel that is in use and open.
AtRest == \A t \in ChannelThreads : At(t, "idle")
ChannelsSettle ==
  AtRest /\ holder.cleanup = {} =>
    /\ \A ch \in Channels, k \in HookKinds :
         chan[ch].hooks[k] =
           IF holder.state # "gone" /\ ch = holder.channel THEN holder.revision ELSE 0
    /\ \A lease \in {route.alias, route.pending} \ {NoLease} :
         OpenLease(lease.ch, lease.rev)

\* A callback that retires its own channel clears the callbacks before it ends:
\* it does not wait for a thread that waits for it.
RetirementDrains ==
  ~(/\ At("callback", "lock") /\ mutation \notin {Nobody, "callback"}
    /\ job["callback"].inside \in ToClear(mutation)
    /\ Unused(job["callback"].inside))
===============================================================================
