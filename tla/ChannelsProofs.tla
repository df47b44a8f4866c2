----------------------------- MODULE ChannelsProofs -----------------------------
(***************************************************************************)
(* Theorems about DataChannels, for any numbers of channels, messages and  *)
(* threads and any budgets.                                                *)
(*                                                                         *)
(* Under the present revision, what was heard, what is in hand, what is    *)
(* held back and what RTC still has make up the messages of the channel    *)
(* without a gap, and nobody is given messages of a channel under a        *)
(* revision that was not that channel's (ChannelInv).  At rest the hooks   *)
(* are on present channels only, because whoever takes a channel from its  *)
(* holder still has it to clear, and routes lead to open channels or are   *)
(* to be purged (RestInv).                                                 *)
(*                                                                         *)
(* A lemma ...Does says what an action does, field by field; the steps of  *)
(* the invariant rest on these alone.                                      *)
(***************************************************************************)
EXTENDS DataChannels, TLAPS, FiniteSetTheorems, SequenceTheorems

(***************************************************************************)
(* The control channel: types.                                             *)
(***************************************************************************)
AnyChannel == Channels \cup {NoChannel}
Leases == [ch : AnyChannel, rev : Revisions]
Workers == {"installer", "callback"}
ChannelStages ==
  {"idle", "purge", "check", "install", "cancel", "cancelClosed", "drain", "run",
   "commit", "tell", "retire", "purgeEnd", "clear", "clearOld", "clearNew", "lock",
   "drained", "released", "bind", "consume"}
ChannelTasks ==
  [at : ChannelStages, ch : AnyChannel, rev : Revisions, kind : HookKinds, n : Nat,
   old : Leases, observed : BOOLEAN, allow : BOOLEAN, inside : AnyChannel]
Holders ==
  [state : {"new", "live", "gone"}, channel : AnyChannel, revision : Revisions,
   opened : BOOLEAN, pending : BOOLEAN, observed : SUBSET Channels,
   cleanup : SUBSET Channels]
ChannelEvents == [kind : HookKinds, n : Nat]
ChannelRecords ==
  [state : {"new", "open", "closed"}, sent : Nat, events : Seq(ChannelEvents),
   hooks : [HookKinds -> Revisions]]
Phases == {"installing", "draining", "active", "cancelled"}
Setups == [phase : Phases, deferred : Seq(ChannelEvents)]
Hearings == [opens : Nat, messages : Seq(Nat)]

HolderTypes == holder \in Holders /\ mutation \in ChannelThreads \cup {Nobody}
RecordTypes == chan \in [Channels -> ChannelRecords]
SetupTypes == setup \in [Revisions -> Setups]
TaskTypes == job \in [ChannelThreads -> ChannelTasks]
HeardTypes == heard \in [Revisions -> Hearings]
RouteTypes == route \in [target : BOOLEAN, alias : Leases, pending : Leases]

\* A worker has a channel; who clears another one has that too; only RTC's
\* thread is inside a callback; the manager has a work of its own; and what is
\* told is a message.
WorkOK(t, j) ==
  /\ t \in Workers /\ j.at # "idle" => j.ch \in Channels
  /\ j.at \in {"clear", "clearOld", "purge"} => j.old.ch \in Channels
  /\ t # "callback" => j.inside = NoChannel
  /\ t = "manager" => j.at \in {"idle", "retire", "clear", "released"}
  /\ j.at = "tell" => j.kind = "message"
AtWork == \A t \in ChannelThreads : WorkOK(t, job[t])

(***************************************************************************)
(* Revisions: whatever bears the present one belongs to the present        *)
(* channel.  Each channel that is handed in costs at most two.             *)
(***************************************************************************)
Occupancy == IF holder.channel = NoChannel THEN 0 ELSE 1
RevisionsLeft ==
  /\ spare \in [incoming : 0..MaxIncoming, messages : Nat, routes : Nat]
  /\ holder.revision + Occupancy <= 2 * (MaxIncoming - spare.incoming)
Bears(rev, ch) ==
  /\ rev <= holder.revision
  /\ rev = holder.revision /\ rev # 0 => ch = holder.channel
RevisionsOwned ==
  /\ holder.channel # NoChannel => holder.revision # 0
  /\ \A t \in ChannelThreads : Bears(job[t].rev, job[t].ch)
  /\ \A ch \in Channels, k \in HookKinds : Bears(chan[ch].hooks[k], ch)

(***************************************************************************)
(* An installation: what comes is held back until the installer has        *)
(* nothing more to dispatch, so only one thread works under a revision.    *)
(***************************************************************************)
BeforeDrain == {"purge", "clearOld", "check", "install", "cancel", "cancelClosed"}
WhileDraining == {"drain", "run", "commit", "tell", "retire", "purgeEnd", "clear"}
Telling == {"run", "commit", "tell"}
PhasesInOrder ==
  /\ \A rev \in Revisions :
       /\ setup[rev].phase \in {"active", "cancelled"} => setup[rev].deferred = <<>>
       /\ rev > holder.revision => setup[rev].phase = "cancelled"
  /\ job["installer"].at \in BeforeDrain =>
       setup[job["installer"].rev].phase = "installing"
  /\ job["installer"].at \in WhileDraining =>
       setup[job["installer"].rev].phase \in {"draining", "cancelled"}
  /\ job["callback"].at \in Telling =>
       setup[job["callback"].rev].phase = "active"

(***************************************************************************)
(* What the application heard.                                             *)
(***************************************************************************)
Consecutive(messages) ==
  \A i \in 1..(Len(messages) - 1) : messages[i + 1] = messages[i] + 1
Once == IF holder.opened THEN 1 ELSE 0
HeardInv ==
  /\ \A rev \in Revisions :
       /\ heard[rev].opens <= 1
       /\ heard[rev].messages # <<>> => heard[rev].opens = 1
       /\ Consecutive(heard[rev].messages)
       /\ rev > holder.revision => heard[rev] = [opens |-> 0, messages |-> <<>>]
  /\ heard[holder.revision].opens = Once
  /\ holder.state = "new" => ~holder.opened

(***************************************************************************)
(* Messages on their way: a queue has those numbered lo to hi, in order.   *)
(***************************************************************************)
MessageAt(q, i) == i \in 1..Len(q) /\ q[i].kind = "message"
Carries(q, lo, hi) ==
  /\ \A i \in 1..Len(q) : MessageAt(q, i) => q[i].n \in lo..hi
  /\ \A n \in lo..hi : \E i \in 1..Len(q) : MessageAt(q, i) /\ q[i].n = n
  /\ \A i, k \in 1..Len(q) : MessageAt(q, i) /\ MessageAt(q, k) /\ i < k => q[i].n < q[k].n

\* The last message that RTC has of a channel.
Top(ch) ==
  CASE chan[ch].state = "new"  -> 1
    [] chan[ch].state = "open" -> chan[ch].sent
    [] OTHER                   -> chan[ch].sent - 1
RecordsOK ==
  \A ch \in Channels :
    /\ chan[ch].state = "new" <=> chan[ch].sent = 0
    /\ chan[ch].state = "closed" => chan[ch].sent >= 2
    /\ \E lo \in 2..(Top(ch) + 1) : Carries(chan[ch].events, lo, Top(ch))

\* A thread has a message of this revision to tell.
HasToTell(t, rev) ==
  job[t].at \in {"run", "tell"} /\ job[t].kind = "message" /\ job[t].rev = rev

\* Under the present revision: what is held back begins with lo, behind what
\* a thread has in hand, behind what was heard; RTC still has the rest.
Flowing(rev, ch, lo, hi) ==
  /\ Carries(setup[rev].deferred, lo, hi)
  /\ Carries(chan[ch].events, hi + 1, Top(ch))
  /\ \A t \in Workers : HasToTell(t, rev) => job[t].n = lo - 1
  /\ heard[rev].messages # <<>> =>
       heard[rev].messages[Len(heard[rev].messages)] =
         IF \E t \in Workers : HasToTell(t, rev) THEN lo - 2 ELSE lo - 1
  /\ \/ heard[rev].messages # <<>>
     \/ \E t \in Workers : HasToTell(t, rev)
     \/ lo <= hi
     => chan[ch].hooks["message"] \in {0, rev}
\* Nothing is told before the installer dispatches, or once it was cancelled.
Unheard == {"installing", "cancelled"}
FlowOK ==
  LET rev == holder.revision
      ch == holder.channel
  IN /\ setup[rev].phase \in Unheard =>
          /\ heard[rev].messages = <<>>
          /\ \A t \in Workers : ~HasToTell(t, rev)
     /\ ch # NoChannel /\ holder.state # "gone" /\ setup[rev].phase # "cancelled" =>
          \E hi \in 1..Top(ch) : \E lo \in 2..(hi + 1) : Flowing(rev, ch, lo, hi)

ChannelTypes ==
  /\ HolderTypes /\ RecordTypes /\ SetupTypes /\ TaskTypes /\ HeardTypes /\ RouteTypes
  /\ AtWork /\ RevisionsLeft
ChannelInv ==
  ChannelTypes /\ RevisionsOwned /\ PhasesInOrder /\ HeardInv /\ RecordsOK /\ FlowOK

(***************************************************************************)
(* The control channel: what the steps make of types.                      *)
(***************************************************************************)
LEMMA RevisionNumbers ==
  /\ 0 \in Revisions /\ \A rev \in Revisions : rev \in Nat
  /\ MaxIncoming \in Nat /\ NoChannel \notin Channels
  BY ChannelAssumption DEF Revisions

LEMMA IdleTaskTyped ==
  IdleTask \in ChannelTasks /\ NoLease \in Leases
  BY RevisionNumbers DEF IdleTask, NoLease, ChannelTasks, Leases, AnyChannel,
     ChannelStages, HookKinds

\* A thread gets something else to do.
LEMMA TaskSet ==
  ASSUME TaskTypes, NEW t \in ChannelThreads, NEW j \in ChannelTasks, Go(t, j)
  PROVE  /\ TaskTypes' /\ job'[t] = j
         /\ \A u \in ChannelThreads : u # t => job'[u] = job[u]
  BY DEF TaskTypes, Go

LEMMA StageSet ==
  ASSUME TaskTypes, NEW t \in ChannelThreads, NEW stage \in ChannelStages, GoTo(t, stage)
  PROVE  /\ [job[t] EXCEPT !.at = stage] \in ChannelTasks
         /\ Go(t, [job[t] EXCEPT !.at = stage])
  BY DEF TaskTypes, ChannelTasks, Go, GoTo

\* Where a thread goes after an event.
LEMMA AfterEventTyped ==
  ASSUME TaskTypes, NEW t \in ChannelThreads
  PROVE  /\ AfterEvent(t) \in ChannelTasks
         /\ AfterEvent(t).at = CASE t = "installer" -> "drain"
                                 [] t = "callback" -> "drained"
                                 [] OTHER -> "idle"
         /\ t \in Workers => /\ AfterEvent(t).rev = job[t].rev
                             /\ AfterEvent(t).ch = job[t].ch
                             /\ AfterEvent(t).kind = job[t].kind
                             /\ AfterEvent(t).inside = job[t].inside
         /\ t \notin Workers => AfterEvent(t) = IdleTask
<1>1. CASE t = "installer"
  BY <1>1 DEF AfterEvent, TaskTypes, ChannelTasks, ChannelStages, Workers
<1>2. CASE t = "callback"
  BY <1>2 DEF AfterEvent, TaskTypes, ChannelTasks, ChannelStages, Workers
<1>3. CASE t \notin {"installer", "callback"}
  BY <1>3, IdleTaskTyped DEF AfterEvent, IdleTask, Workers
<1> QED BY <1>1, <1>2, <1>3

\* A new revision fits, as long as the budget does.
LEMMA NextRevision ==
  ASSUME HolderTypes, RevisionsLeft
  PROVE  /\ holder.revision + 1 \in Revisions
         /\ Emptied(holder) \in Holders
         /\ Emptied(holder).revision = holder.revision + 1
         /\ Emptied(holder).channel = NoChannel /\ ~Emptied(holder).opened
         /\ Emptied(holder).state = holder.state
         /\ Emptied(holder).observed = holder.observed
         /\ Emptied(holder).cleanup = holder.cleanup
<1>1. holder.revision \in Nat /\ holder.revision + 1 \in Revisions
  <2>1. holder.revision \in Nat /\ spare.incoming \in 0..MaxIncoming
    BY RevisionNumbers DEF HolderTypes, Holders, RevisionsLeft
  <2>2. holder.revision <= 2 * (MaxIncoming - spare.incoming)
    BY <2>1, RevisionNumbers DEF RevisionsLeft, Occupancy
  <2> QED BY <2>1, <2>2, RevisionNumbers DEF Revisions
<1> QED BY <1>1 DEF Emptied, HolderTypes, Holders, AnyChannel

LEMMA LeaseTyped ==
  ASSUME HolderTypes
  PROVE  LeaseOf(holder) \in Leases /\ LeaseOf(holder).ch = holder.channel
  BY DEF HolderTypes, Holders, LeaseOf, Leases

LEMMA PurgedTyped ==
  ASSUME RouteTypes, NEW lease
  PROVE  Purged(route, lease) \in [target : BOOLEAN, alias : Leases, pending : Leases]
  BY IdleTaskTyped DEF RouteTypes, Purged

\* A thread takes up another work.
LEMMA TaskMoves ==
  ASSUME TaskTypes, AtWork, NEW t \in ChannelThreads, NEW j \in ChannelTasks, Go(t, j),
         WorkOK(t, j)
  PROVE  TaskTypes' /\ AtWork'
<1>1. TaskTypes' /\ job'[t] = j /\ \A u \in ChannelThreads : u # t => job'[u] = job[u]
  BY TaskSet
<1>2. AtWork'
  <2> SUFFICES ASSUME NEW u \in ChannelThreads PROVE WorkOK(u, job'[u])
    BY DEF AtWork
  <2>1. CASE u = t
    BY <1>1, <2>1
  <2>2. CASE u # t
    BY <1>1, <2>2 DEF AtWork
  <2> QED BY <2>1, <2>2
<1> QED BY <1>1, <1>2

LEMMA IdleWorks ==
  ASSUME NEW t
  PROVE  WorkOK(t, IdleTask)
  BY DEF WorkOK, IdleTask
LEMMA AfterEventWorks ==
  ASSUME TaskTypes, AtWork, NEW t \in ChannelThreads, t \in Workers => job[t].at # "idle"
  PROVE  WorkOK(t, AfterEvent(t))
<1>1. CASE t \in Workers
  <2>1. /\ AfterEvent(t).at \in {"drain", "drained"} /\ AfterEvent(t).ch = job[t].ch
        /\ AfterEvent(t).inside = job[t].inside
    BY <1>1, AfterEventTyped DEF Workers
  <2>2. WorkOK(t, job[t])
    BY DEF AtWork
  <2> QED BY <1>1, <2>1, <2>2 DEF WorkOK, Workers
<1>2. CASE t \notin Workers
  BY <1>2, AfterEventTyped, IdleWorks
<1> QED BY <1>1, <1>2

\* The budget of revisions, where neither it nor the channel changes, where a
\* channel goes and where nothing of it changes.
LEMMA SpareKept ==
  ASSUME RevisionsLeft, spare' = spare, holder'.revision = holder.revision,
         holder'.channel = holder.channel
  PROVE  RevisionsLeft'
  BY DEF RevisionsLeft, Occupancy
LEMMA SpareEmptied ==
  ASSUME HolderTypes, RevisionsLeft, spare' = spare,
         holder'.revision = holder.revision + 1,
         holder.channel # NoChannel, holder'.channel = NoChannel
  PROVE  RevisionsLeft'
<1>1. holder.revision \in Nat /\ spare.incoming \in Nat /\ MaxIncoming \in Nat
  BY RevisionNumbers DEF HolderTypes, Holders, RevisionsLeft
<1> QED BY <1>1 DEF RevisionsLeft, Occupancy

(***************************************************************************)
(* What a step does: to the thread that takes it (another stage of the     *)
(* same work, or none), and to what the other parts rest on.               *)
(***************************************************************************)
OthersGoOn(t) == \A u \in ChannelThreads : u # t => job'[u] = job[u]
BearsAsBefore(t) ==
  job'[t].rev = 0 \/ (job'[t].rev = job[t].rev /\ job'[t].ch = job[t].ch)
StageKept(t) ==
  /\ t = "installer" =>
       /\ job'[t].at \in BeforeDrain =>
            job[t].at \in BeforeDrain /\ job'[t].rev = job[t].rev
       /\ job'[t].at \in WhileDraining =>
            job[t].at \in WhileDraining /\ job'[t].rev = job[t].rev
  /\ t = "callback" /\ job'[t].at \in Telling =>
       job[t].at \in Telling /\ job'[t].rev = job[t].rev
HandKept(t) ==
  \A rev \in Revisions :
    /\ HasToTell(t, rev)' <=> HasToTell(t, rev)
    /\ HasToTell(t, rev) => job'[t].n = job[t].n

\* The holder keeps its channel; it may be registered or retired.
HolderKept ==
  /\ holder'.revision = holder.revision /\ holder'.channel = holder.channel
  /\ holder'.opened = holder.opened
  /\ holder'.state = "new" => holder.state = "new"
  /\ holder'.state # "gone" => holder.state # "gone"
\* RTC's side is the same, but for hooks that were cleared.
RecordsKept ==
  \A ch \in Channels :
    /\ chan'[ch].state = chan[ch].state /\ chan'[ch].sent = chan[ch].sent
    /\ chan'[ch].events = chan[ch].events
    /\ \A k \in HookKinds : chan'[ch].hooks[k] \in {0, chan[ch].hooks[k]}

Quiet(t) ==
  /\ OthersGoOn(t) /\ BearsAsBefore(t) /\ StageKept(t) /\ HandKept(t)
  /\ HolderKept /\ RecordsKept /\ setup' = setup /\ heard' = heard

LEMMA RecordsSame ==
  ASSUME RecordTypes, chan' = chan
  PROVE  RecordsKept
  BY DEF RecordsKept, RecordTypes, ChannelRecords

\* The work j goes on with what the thread was doing, or it is none.
Continues(t, j) ==
  /\ j.rev = 0 \/ (j.rev = job[t].rev /\ j.ch = job[t].ch)
  /\ t = "installer" =>
       /\ j.at \in BeforeDrain => job[t].at \in BeforeDrain /\ j.rev = job[t].rev
       /\ j.at \in WhileDraining => job[t].at \in WhileDraining /\ j.rev = job[t].rev
  /\ t = "callback" /\ j.at \in Telling =>
       job[t].at \in Telling /\ j.rev = job[t].rev
  /\ \/ /\ job[t].at \notin {"run", "tell"} \/ job[t].kind # "message"
        /\ j.at \notin {"run", "tell"} \/ j.kind # "message"
     \/ /\ job[t].at \in {"run", "tell"} /\ j.at \in {"run", "tell"}
        /\ j.kind = job[t].kind /\ j.rev = job[t].rev /\ j.n = job[t].n
HasNoMessage(t) == job[t].at \notin {"run", "tell"} \/ job[t].kind # "message"

LEMMA IdleContinues ==
  ASSUME NEW t, HasNoMessage(t)
  PROVE  Continues(t, IdleTask)
  BY DEF Continues, HasNoMessage, IdleTask, BeforeDrain, WhileDraining, Telling
LEMMA AfterEventContinues ==
  ASSUME TaskTypes, NEW t \in ChannelThreads, HasNoMessage(t),
         t = "installer" => job[t].at \in WhileDraining
  PROVE  Continues(t, AfterEvent(t))
<1>1. CASE t = "installer"
  <2>1. /\ AfterEvent(t).at = "drain" /\ AfterEvent(t).ch = job[t].ch
        /\ AfterEvent(t).rev = job[t].rev
    BY <1>1, AfterEventTyped DEF Workers
  <2> QED BY <1>1, <2>1 DEF Continues, HasNoMessage, BeforeDrain, WhileDraining
<1>2. CASE t = "callback"
  <2>1. /\ AfterEvent(t).at = "drained" /\ AfterEvent(t).ch = job[t].ch
        /\ AfterEvent(t).rev = job[t].rev
    BY <1>2, AfterEventTyped DEF Workers
  <2> QED BY <1>2, <2>1 DEF Continues, HasNoMessage, Telling
<1>3. CASE t \notin Workers
  BY <1>3, AfterEventTyped, IdleContinues
<1> QED BY <1>1, <1>2, <1>3 DEF Workers

\* A step that changes what one thread does, and nothing that matters besides.
LEMMA QuietTask ==
  ASSUME ChannelTypes, NEW t \in ChannelThreads, NEW j \in ChannelTasks, Go(t, j),
         WorkOK(t, j), Continues(t, j),
         holder' \in Holders, HolderKept, chan' = chan, setup' = setup, heard' = heard,
         mutation' \in ChannelThreads \cup {Nobody}, RouteTypes', RevisionsLeft'
  PROVE  ChannelTypes' /\ Quiet(t)
<1>1. TaskTypes' /\ AtWork' /\ job'[t] = j /\ OthersGoOn(t)
  BY TaskMoves, TaskSet DEF ChannelTypes, OthersGoOn
<1>2. ChannelTypes'
  BY <1>1 DEF ChannelTypes, HolderTypes, RecordTypes, SetupTypes, HeardTypes
<1>3. HandKept(t)
  BY <1>1 DEF HandKept, HasToTell, Continues
<1>4. StageKept(t) /\ BearsAsBefore(t)
  BY <1>1 DEF StageKept, BearsAsBefore, Continues
<1>5. RecordsKept
  BY RecordsSame DEF ChannelTypes
<1> QED BY <1>1, <1>2, <1>3, <1>4, <1>5 DEF Quiet

\* The same where not even the holder and the routes change.
LEMMA QuietStep ==
  ASSUME ChannelTypes, NEW t \in ChannelThreads, NEW j \in ChannelTasks, Go(t, j),
         WorkOK(t, j), Continues(t, j), mutation' \in ChannelThreads \cup {Nobody},
         UNCHANGED <<holder, chan, setup, route, heard, spare>>
  PROVE  ChannelTypes' /\ Quiet(t)
<1>1. RouteTypes' /\ RevisionsLeft' /\ holder' \in Holders
  BY SpareKept DEF ChannelTypes, RouteTypes, HolderTypes
<1>2. HolderKept
  BY DEF HolderKept
<1> QED BY <1>1, <1>2, QuietTask

\* A thread at a stage after another one of the same work.
LEMMA StageGoesOn ==
  ASSUME ChannelTypes, NEW t \in ChannelThreads, NEW stage \in ChannelStages,
         GoTo(t, stage), HasNoMessage(t), stage \notin {"run", "tell", "idle"},
         t \in Workers => job[t].at # "idle",
         stage \in {"clear", "clearOld", "purge"} => job[t].old.ch \in Channels,
         t = "manager" => stage \in {"retire", "clear", "released"},
         t = "installer" =>
           /\ stage \in BeforeDrain => job[t].at \in BeforeDrain
           /\ stage \in WhileDraining => job[t].at \in WhileDraining,
         t = "callback" => stage \notin Telling
  PROVE  LET j == [job[t] EXCEPT !.at = stage]
         IN j \in ChannelTasks /\ Go(t, j) /\ WorkOK(t, j) /\ Continues(t, j)
<1> DEFINE j == [job[t] EXCEPT !.at = stage]
<1>1. j \in ChannelTasks /\ Go(t, j)
  BY StageSet DEF ChannelTypes
<1>2. /\ j.at = stage /\ j.ch = job[t].ch /\ j.rev = job[t].rev
      /\ j.kind = job[t].kind /\ j.old = job[t].old /\ j.inside = job[t].inside
  BY DEF ChannelTypes, TaskTypes, ChannelTasks
<1>3. WorkOK(t, job[t])
  BY DEF ChannelTypes, AtWork
<1> HIDE DEF j
<1>4. WorkOK(t, j)
  BY <1>2, <1>3 DEF WorkOK
<1>5. Continues(t, j)
  BY <1>2 DEF Continues, HasNoMessage
<1> QED BY <1>1, <1>4, <1>5 DEF j

LEMMA HolderStays ==
  ASSUME holder' = holder
  PROVE  HolderKept
  BY DEF HolderKept

LEMMA PurgeOldDoes ==
  ASSUME ChannelTypes, PurgeOld
  PROVE  ChannelTypes' /\ Quiet("installer")
<1> DEFINE t == "installer"
           j == [job[t] EXCEPT !.at = "clearOld"]
<1>1. /\ t \in ChannelThreads /\ job[t].at = "purge" /\ GoTo(t, "clearOld")
      /\ route' = Purged(route, job[t].old)
      /\ UNCHANGED <<holder, chan, setup, mutation, heard, spare>>
  BY DEF PurgeOld, At, ChannelThreads
<1>2. job[t].old.ch \in Channels
  BY <1>1 DEF ChannelTypes, AtWork, WorkOK
<1>3. j \in ChannelTasks /\ Go(t, j) /\ WorkOK(t, j) /\ Continues(t, j)
  BY <1>1, <1>2, StageGoesOn
  DEF ChannelStages, HasNoMessage, BeforeDrain, WhileDraining, Workers
<1>4. RouteTypes' /\ RevisionsLeft' /\ HolderKept
  BY <1>1, PurgedTyped, SpareKept, HolderStays DEF ChannelTypes, RouteTypes
<1>5. holder' \in Holders /\ mutation' \in ChannelThreads \cup {Nobody}
  BY <1>1 DEF ChannelTypes, HolderTypes
<1> HIDE DEF j
<1> QED BY <1>1, <1>3, <1>4, <1>5, QuietTask

LEMMA CheckLeaseDoes ==
  ASSUME ChannelTypes, CheckLease
  PROVE  ChannelTypes' /\ Quiet("installer")
<1> DEFINE t == "installer"
<1>1. /\ t \in ChannelThreads /\ job[t].at = "check"
      /\ GoTo(t, "install") \/ GoTo(t, "clearNew")
      /\ UNCHANGED <<holder, chan, setup, mutation, route, heard, spare>>
  BY DEF CheckLease, At, ChannelThreads
<1>2. mutation' \in ChannelThreads \cup {Nobody}
  BY <1>1 DEF ChannelTypes, HolderTypes
<1>3. ASSUME NEW stage \in {"install", "clearNew"}, GoTo(t, stage)
      PROVE  ChannelTypes' /\ Quiet(t)
  <2> DEFINE j == [job[t] EXCEPT !.at = stage]
  <2>1. j \in ChannelTasks /\ Go(t, j) /\ WorkOK(t, j) /\ Continues(t, j)
    BY <1>1, <1>3, StageGoesOn
    DEF ChannelStages, HasNoMessage, BeforeDrain, WhileDraining, Workers
  <2> HIDE DEF j
  <2> QED BY <1>1, <1>2, <2>1, QuietStep
<1> QED BY <1>1, <1>3

LEMMA DrainedDoes ==
  ASSUME ChannelTypes, Drained
  PROVE  ChannelTypes' /\ Quiet("callback")
<1> DEFINE t == "callback"
<1>1. /\ t \in ChannelThreads /\ job[t].at = "drained"
      /\ Go(t, [job[t] EXCEPT !.at = "lock"]) \/ Go(t, IdleTask)
      /\ UNCHANGED <<holder, chan, setup, mutation, route, heard, spare>>
  BY DEF Drained, At, ChannelThreads
<1>2. mutation' \in ChannelThreads \cup {Nobody}
  BY <1>1 DEF ChannelTypes, HolderTypes
<1>3. CASE Go(t, IdleTask)
  BY <1>1, <1>2, <1>3, QuietStep, IdleTaskTyped, IdleWorks, IdleContinues DEF HasNoMessage
<1>4. CASE Go(t, [job[t] EXCEPT !.at = "lock"])
  <2> DEFINE j == [job[t] EXCEPT !.at = "lock"]
  <2>1. GoTo(t, "lock")
    BY <1>4 DEF Go, GoTo
  <2>2. j \in ChannelTasks /\ Go(t, j) /\ WorkOK(t, j) /\ Continues(t, j)
    BY <1>1, <2>1, StageGoesOn
    DEF ChannelStages, HasNoMessage, BeforeDrain, WhileDraining, Workers, Telling
  <2> HIDE DEF j
  <2> QED BY <1>1, <1>2, <2>2, QuietStep
<1> QED BY <1>1, <1>3, <1>4

LEMMA HandleOpenDoes ==
  ASSUME ChannelTypes, NEW t \in Workers, HandleOpen(t)
  PROVE  ChannelTypes' /\ Quiet(t)
<1>1. /\ t \in ChannelThreads /\ job[t].at = "run" /\ job[t].kind = "open"
      /\ Go(t, [job[t] EXCEPT !.at = "commit"]) \/ Go(t, AfterEvent(t))
      /\ UNCHANGED <<chan, setup, mutation, route, heard, spare>>
  BY DEF HandleOpen, At, ChannelThreads, Workers
<1>2. /\ mutation' \in ChannelThreads \cup {Nobody} /\ RouteTypes'
      /\ job[t].ch \in Channels /\ holder \in Holders
  BY <1>1 DEF ChannelTypes, HolderTypes, RouteTypes, AtWork, WorkOK
<1>3. /\ holder' \in Holders /\ holder'.revision = holder.revision
      /\ holder'.channel = holder.channel /\ holder'.opened = holder.opened
      /\ holder'.state = holder.state
  <2>1. CASE holder' = holder
    BY <1>2, <2>1
  <2> DEFINE dispatch == /\ LeaseIsCurrent(job[t].ch, job[t].rev, FALSE)
                         /\ ~holder.opened /\ ~holder.pending
             waiting == holder.pending \/ dispatch
  <2>2. \/ holder' = holder
        \/ holder' = [holder EXCEPT !.observed = @ \cup {job[t].ch}, !.pending = waiting]
    BY DEF HandleOpen
  <2>3. waiting \in BOOLEAN
    OBVIOUS
  <2>4. ASSUME NEW b \in BOOLEAN,
               holder' = [holder EXCEPT !.observed = @ \cup {job[t].ch}, !.pending = b]
        PROVE  /\ holder' \in Holders /\ holder'.revision = holder.revision
               /\ holder'.channel = holder.channel /\ holder'.opened = holder.opened
               /\ holder'.state = holder.state
    BY <1>2, <2>4 DEF Holders
  <2> HIDE DEF waiting
  <2> QED BY <2>1, <2>2, <2>3, <2>4
<1>4. HolderKept /\ RevisionsLeft'
  BY <1>1, <1>3, SpareKept DEF HolderKept, ChannelTypes
<1>5. HasNoMessage(t)
  BY <1>1 DEF HasNoMessage
<1>6. CASE Go(t, AfterEvent(t))
  BY <1>1, <1>2, <1>3, <1>4, <1>5, <1>6, QuietTask, AfterEventTyped, AfterEventWorks,
     AfterEventContinues DEF ChannelTypes, WhileDraining
<1>7. CASE Go(t, [job[t] EXCEPT !.at = "commit"])
  <2> DEFINE j == [job[t] EXCEPT !.at = "commit"]
  <2>1. /\ j \in ChannelTasks /\ j.at = "commit" /\ j.ch = job[t].ch
        /\ j.rev = job[t].rev /\ j.kind = job[t].kind /\ j.inside = job[t].inside
    BY <1>1 DEF ChannelTypes, TaskTypes, ChannelTasks, ChannelStages
  <2> HIDE DEF j
  <2>2. WorkOK(t, j)
    BY <1>1, <1>2, <2>1 DEF ChannelTypes, AtWork, WorkOK, Workers
  <2>3. Continues(t, j)
    BY <1>1, <2>1 DEF Continues, WhileDraining, BeforeDrain, Telling
  <2> QED BY <1>1, <1>2, <1>3, <1>4, <1>7, <2>1, <2>2, <2>3, QuietTask DEF j
<1> QED BY <1>1, <1>6, <1>7

LEMMA PurgeEndDoes ==
  ASSUME ChannelTypes, NEW t \in Workers, PurgeEnd(t)
  PROVE  ChannelTypes' /\ Quiet(t)
<1> DEFINE j == [job[t] EXCEPT !.at = "clear", !.old.ch = job[t].ch]
<1>1. /\ t \in ChannelThreads /\ job[t].at = "purgeEnd" /\ Go(t, j)
      /\ route' = Purged(route, [ch |-> job[t].ch, rev |-> job[t].rev])
      /\ UNCHANGED <<holder, chan, setup, mutation, heard, spare>>
  BY DEF PurgeEnd, At, ChannelThreads, Workers
<1>2. job[t].ch \in Channels /\ WorkOK(t, job[t]) /\ job[t] \in ChannelTasks
  BY <1>1 DEF ChannelTypes, AtWork, WorkOK, TaskTypes
<1>3. /\ j \in ChannelTasks /\ j.at = "clear" /\ j.old.ch = job[t].ch
      /\ j.ch = job[t].ch /\ j.rev = job[t].rev /\ j.inside = job[t].inside
  BY <1>2 DEF ChannelTasks, Leases, AnyChannel, ChannelStages
<1> HIDE DEF j
<1>4. WorkOK(t, j)
  BY <1>2, <1>3 DEF WorkOK, Workers
<1>5. Continues(t, j)
  BY <1>1, <1>3 DEF Continues, WhileDraining, BeforeDrain, Telling
<1>6. RouteTypes' /\ RevisionsLeft' /\ HolderKept
  BY <1>1, PurgedTyped, SpareKept, HolderStays DEF ChannelTypes, RouteTypes
<1>7. holder' \in Holders /\ mutation' \in ChannelThreads \cup {Nobody}
  BY <1>1 DEF ChannelTypes, HolderTypes
<1> QED BY <1>1, <1>3, <1>4, <1>5, <1>6, <1>7, QuietTask

\* The channel that a thread is to clear, and that only RTC's leaves it.
LEMMA ClearedTyped ==
  ASSUME ChannelTypes, NEW t \in Workers \cup {"manager"}, NEW ch \in ToClear(t)
  PROVE  /\ ch \in Channels /\ job[t].at \in {"clear", "clearOld", "clearNew", "lock"}
         /\ ByCallback(t, ch) => t = "callback"
<1>1. WorkOK(t, job[t]) /\ t \in ChannelThreads
  BY DEF ChannelTypes, AtWork, Workers, ChannelThreads
<1>2. \/ job[t].at \in {"clearOld", "clear"} /\ ch = job[t].old.ch
      \/ job[t].at \in {"clearNew", "lock"} /\ ch = job[t].ch
  BY DEF ToClear
<1>3. ch \in Channels
  BY <1>1, <1>2 DEF WorkOK
<1>4. ByCallback(t, ch) => t = "callback"
  BY <1>1, <1>3, RevisionNumbers DEF ByCallback, WorkOK
<1> QED BY <1>2, <1>3, <1>4

LEMMA LeaveToCallbackDoes ==
  ASSUME ChannelTypes, NEW t \in Workers \cup {"manager"}, LeaveToCallback(t)
  PROVE  ChannelTypes' /\ Quiet(t)
<1>1. PICK ch \in ToClear(t) :
        /\ ByCallback(t, ch)
        /\ holder' = [holder EXCEPT !.cleanup = @ \cup {ch}]
        /\ Go(t, AfterEvent(t))
        /\ UNCHANGED <<chan, setup, mutation, route, heard, spare>>
  BY DEF LeaveToCallback
<1>2. /\ ch \in Channels /\ job[t].at \in {"clear", "clearOld", "clearNew", "lock"}
      /\ t = "callback"
  BY <1>1, ClearedTyped
<1>3. /\ holder' \in Holders /\ holder'.revision = holder.revision
      /\ holder'.channel = holder.channel /\ holder'.opened = holder.opened
      /\ holder'.state = holder.state
  BY <1>1, <1>2 DEF ChannelTypes, HolderTypes, Holders
<1>4. /\ HolderKept /\ RevisionsLeft' /\ RouteTypes'
      /\ mutation' \in ChannelThreads \cup {Nobody}
  BY <1>1, <1>3, SpareKept DEF HolderKept, ChannelTypes, RouteTypes, HolderTypes
<1>5. HasNoMessage(t) /\ t \in ChannelThreads
  BY <1>2 DEF HasNoMessage, ChannelThreads
<1>6. AfterEvent(t) \in ChannelTasks /\ WorkOK(t, AfterEvent(t)) /\ Continues(t, AfterEvent(t))
  BY <1>2, <1>5, AfterEventTyped, AfterEventWorks, AfterEventContinues DEF ChannelTypes
<1> QED BY <1>1, <1>3, <1>4, <1>5, <1>6, QuietTask

\* A step that no thread's work changes with.
LEMMA QuietRest ==
  ASSUME ChannelTypes, NEW t \in ChannelThreads, job' = job, holder' \in Holders,
         HolderKept, chan' = chan, setup' = setup, heard' = heard,
         mutation' \in ChannelThreads \cup {Nobody}, RouteTypes', RevisionsLeft'
  PROVE  ChannelTypes' /\ Quiet(t)
<1>1. ChannelTypes'
  BY DEF ChannelTypes, HolderTypes, RecordTypes, SetupTypes, HeardTypes, TaskTypes, AtWork
<1>2. OthersGoOn(t) /\ BearsAsBefore(t) /\ StageKept(t) /\ HandKept(t)
  BY DEF OthersGoOn, BearsAsBefore, StageKept, HandKept, HasToTell
<1> QED BY <1>1, <1>2, RecordsSame DEF Quiet, ChannelTypes

LEMMA LockToClearDoes ==
  ASSUME ChannelTypes, NEW t \in Workers \cup {"manager"}, LockToClear(t)
  PROVE  ChannelTypes' /\ Quiet(t)
<1>1. t \in ChannelThreads
  BY DEF Workers, ChannelThreads
<1>2. mutation' = t /\ UNCHANGED <<holder, chan, setup, job, route, heard, spare>>
  BY DEF LockToClear
<1>3. RouteTypes' /\ RevisionsLeft' /\ holder' \in Holders
  BY <1>2, SpareKept DEF ChannelTypes, RouteTypes, HolderTypes
<1> QED BY <1>1, <1>2, <1>3, HolderStays, QuietRest

LEMMA AfterClearingTyped ==
  ASSUME ChannelTypes, NEW t \in Workers \cup {"manager"},
         job[t].at \in {"clear", "clearOld", "clearNew", "lock"}
  PROVE  /\ AfterClearing(t) \in ChannelTasks /\ WorkOK(t, AfterClearing(t))
         /\ Continues(t, AfterClearing(t))
<1>1. /\ t \in ChannelThreads /\ HasNoMessage(t) /\ WorkOK(t, job[t])
      /\ job[t] \in ChannelTasks
  BY DEF ChannelTypes, TaskTypes, AtWork, HasNoMessage, Workers, ChannelThreads
<1>2. CASE job[t].at = "clearOld"
  <2> DEFINE j == [job[t] EXCEPT !.at = "check"]
  <2>1. AfterClearing(t) = j
    BY <1>2 DEF AfterClearing
  <2>2. /\ j \in ChannelTasks /\ j.at = "check" /\ j.ch = job[t].ch /\ j.rev = job[t].rev
        /\ j.old = job[t].old /\ j.inside = job[t].inside
    BY <1>1 DEF ChannelTasks, ChannelStages
  <2> HIDE DEF j
  <2>3. WorkOK(t, j)
    BY <1>1, <1>2, <2>2 DEF WorkOK, Workers
  <2>4. Continues(t, j)
    BY <1>1, <1>2, <2>2 DEF Continues, HasNoMessage, BeforeDrain, WhileDraining, Telling
  <2> QED BY <2>1, <2>2, <2>3, <2>4
<1>3. CASE job[t].at \in {"clearNew", "lock"}
  BY <1>1, <1>3, IdleTaskTyped, IdleWorks, IdleContinues DEF AfterClearing
<1>4. CASE job[t].at = "clear" /\ t = "manager"
  <2> DEFINE j == [job[t] EXCEPT !.at = "released"]
  <2>1. AfterClearing(t) = j
    BY <1>4 DEF AfterClearing
  <2>2. /\ j \in ChannelTasks /\ j.at = "released" /\ j.ch = job[t].ch
        /\ j.rev = job[t].rev /\ j.old = job[t].old /\ j.inside = job[t].inside
    BY <1>1 DEF ChannelTasks, ChannelStages
  <2> HIDE DEF j
  <2>3. WorkOK(t, j) /\ Continues(t, j)
    BY <1>1, <1>4, <2>2 DEF WorkOK, Workers, Continues, HasNoMessage
  <2> QED BY <2>1, <2>2, <2>3
<1>5. CASE job[t].at = "clear" /\ t # "manager"
  <2>1. AfterClearing(t) = AfterEvent(t)
    BY <1>5 DEF AfterClearing
  <2>2. t = "installer" => job[t].at \in WhileDraining
    BY <1>5 DEF WhileDraining
  <2> QED BY <1>1, <1>5, <2>1, <2>2, AfterEventTyped, AfterEventWorks,
             AfterEventContinues DEF ChannelTypes
<1> QED BY <1>2, <1>3, <1>4, <1>5

LEMMA ClearHooksDoes ==
  ASSUME ChannelTypes, NEW t \in Workers \cup {"manager"}, ClearHooks(t)
  PROVE  ChannelTypes' /\ Quiet(t)
<1> DEFINE none == [k \in HookKinds |-> 0]
<1>1. PICK ch \in ToClear(t) :
        /\ chan' = chan \/ chan' = [chan EXCEPT ![ch].hooks = none]
        /\ holder' = [holder EXCEPT !.cleanup = @ \ {ch}]
        /\ mutation' = Nobody /\ Go(t, AfterClearing(t))
        /\ UNCHANGED <<setup, route, heard, spare>>
  BY DEF ClearHooks
<1>2. t \in ChannelThreads /\ job[t].at \in {"clear", "clearOld", "clearNew", "lock"}
  BY ClearedTyped DEF Workers, ChannelThreads
<1>3. /\ AfterClearing(t) \in ChannelTasks /\ WorkOK(t, AfterClearing(t))
      /\ Continues(t, AfterClearing(t))
  BY <1>2, AfterClearingTyped
<1>4. /\ holder' \in Holders /\ holder'.revision = holder.revision
      /\ holder'.channel = holder.channel /\ holder'.opened = holder.opened
      /\ holder'.state = holder.state
  BY <1>1 DEF ChannelTypes, HolderTypes, Holders
<1>5. HolderKept /\ RevisionsLeft' /\ RouteTypes' /\ HolderTypes'
  BY <1>1, <1>4, SpareKept DEF HolderKept, ChannelTypes, RouteTypes, HolderTypes
<1>6. none \in [HookKinds -> Revisions] /\ \A k \in HookKinds : none[k] = 0
  BY RevisionNumbers
<1> HIDE DEF none
<1>7. RecordTypes' /\ RecordsKept
  <2>1. CASE chan' = chan
    BY <2>1, RecordsSame DEF ChannelTypes, RecordTypes
  <2>2. CASE chan' = [chan EXCEPT ![ch].hooks = none]
    <3>1. RecordTypes'
      BY <1>6, <2>2 DEF ChannelTypes, RecordTypes, ChannelRecords
    <3>2. RecordsKept
      BY <1>6, <2>2 DEF ChannelTypes, RecordTypes, ChannelRecords, RecordsKept
    <3> QED BY <3>1, <3>2
  <2> QED BY <1>1, <2>1, <2>2
<1>8. TaskTypes' /\ AtWork' /\ job'[t] = AfterClearing(t) /\ OthersGoOn(t)
  BY <1>1, <1>2, <1>3, TaskMoves, TaskSet DEF ChannelTypes, OthersGoOn
<1>9. HandKept(t) /\ StageKept(t) /\ BearsAsBefore(t)
  BY <1>3, <1>8 DEF HandKept, HasToTell, Continues, StageKept, BearsAsBefore
<1>10. ChannelTypes'
  BY <1>1, <1>5, <1>7, <1>8 DEF ChannelTypes, SetupTypes, HeardTypes
<1> QED BY <1>1, <1>5, <1>7, <1>8, <1>9, <1>10 DEF Quiet

LEMMA RegisterDoes ==
  ASSUME ChannelTypes, HeardInv, Register
  PROVE  ChannelTypes' /\ Quiet("manager")
<1>1. /\ holder.state = "new" /\ holder' = [holder EXCEPT !.state = "live"]
      /\ UNCHANGED <<chan, setup, job, mutation, route, heard, spare>>
  BY DEF Register
<1>2. /\ holder' \in Holders /\ holder'.revision = holder.revision
      /\ holder'.channel = holder.channel /\ holder'.opened = holder.opened
      /\ holder'.state = "live"
  BY <1>1 DEF ChannelTypes, HolderTypes, Holders
<1>3. HolderKept /\ RevisionsLeft' /\ RouteTypes' /\ mutation' \in ChannelThreads \cup {Nobody}
  BY <1>1, <1>2, SpareKept DEF HolderKept, ChannelTypes, RouteTypes, HolderTypes
<1> QED BY <1>1, <1>2, <1>3, QuietRest DEF ChannelThreads

LEMMA RetirePeerDoes ==
  ASSUME ChannelTypes, RetirePeer
  PROVE  ChannelTypes' /\ Quiet("manager")
<1> DEFINE t == "manager"
           j == [job[t] EXCEPT !.at = "retire"]
<1>1. /\ t \in ChannelThreads /\ job[t].at = "idle" /\ holder.state = "live"
      /\ holder' = [holder EXCEPT !.state = "gone"] /\ GoTo(t, "retire")
      /\ UNCHANGED <<chan, setup, mutation, route, heard, spare>>
  BY DEF RetirePeer, At, ChannelThreads
<1>2. /\ holder' \in Holders /\ holder'.revision = holder.revision
      /\ holder'.channel = holder.channel /\ holder'.opened = holder.opened
      /\ holder'.state = "gone"
  BY <1>1 DEF ChannelTypes, HolderTypes, Holders
<1>3. HolderKept /\ RevisionsLeft' /\ RouteTypes' /\ mutation' \in ChannelThreads \cup {Nobody}
  BY <1>1, <1>2, SpareKept DEF HolderKept, ChannelTypes, RouteTypes, HolderTypes
<1>4. j \in ChannelTasks /\ Go(t, j) /\ WorkOK(t, j) /\ Continues(t, j)
  BY <1>1, StageGoesOn DEF ChannelStages, HasNoMessage, Workers
<1> HIDE DEF j
<1> QED BY <1>1, <1>2, <1>3, <1>4, QuietTask

LEMMA ReleaseChannelDoes ==
  ASSUME ChannelTypes, ReleaseChannel
  PROVE  ChannelTypes' /\ Quiet("manager")
<1> DEFINE t == "manager"
<1>1. /\ t \in ChannelThreads /\ job[t].at = "idle" /\ holder.cleanup \subseteq Channels
      /\ UNCHANGED <<holder, chan, setup, mutation, route, heard, spare>>
  BY DEF ReleaseChannel, At, ChannelThreads, ChannelTypes, HolderTypes, Holders
<1>2. PICK ch \in holder.cleanup : Go(t, [IdleTask EXCEPT !.at = "clear", !.old.ch = ch])
  BY DEF ReleaseChannel
<1> DEFINE j == [IdleTask EXCEPT !.at = "clear", !.old.ch = ch]
<1>3. /\ j \in ChannelTasks /\ j.at = "clear" /\ j.old.ch = ch /\ j.rev = 0
      /\ j.inside = NoChannel
  <2>1. IdleTask \in ChannelTasks /\ IdleTask.rev = 0 /\ IdleTask.inside = NoChannel
    BY IdleTaskTyped DEF IdleTask
  <2> QED BY <1>1, <2>1 DEF ChannelTasks, ChannelStages, Leases, AnyChannel
<1> HIDE DEF j
<1>4. WorkOK(t, j) /\ Continues(t, j)
  BY <1>1, <1>3 DEF WorkOK, Workers, Continues
<1>5. mutation' \in ChannelThreads \cup {Nobody}
  BY <1>1 DEF ChannelTypes, HolderTypes
<1> QED BY <1>1, <1>2, <1>3, <1>4, <1>5, QuietStep DEF j

LEMMA ReleasedDoes ==
  ASSUME ChannelTypes, Released
  PROVE  ChannelTypes' /\ Quiet("manager")
<1>1. /\ job["manager"].at = "released" /\ Go("manager", IdleTask)
      /\ "manager" \in ChannelThreads
      /\ UNCHANGED <<holder, chan, setup, mutation, route, heard, spare>>
  BY DEF Released, At, ChannelThreads
<1>2. mutation' \in ChannelThreads \cup {Nobody}
  BY <1>1 DEF ChannelTypes, HolderTypes
<1>3. HasNoMessage("manager")
  BY <1>1 DEF HasNoMessage
<1> QED BY <1>1, <1>2, <1>3, QuietStep, IdleTaskTyped, IdleWorks, IdleContinues

\* A route is read, taken or committed by a thread that has nothing else to do.
LEMMA RouteTask ==
  ASSUME NEW stage \in {"bind", "consume"}, NEW lease \in Leases,
         job["binder"].at = "idle"
  PROVE  LET j == [IdleTask EXCEPT !.at = stage, !.old = lease]
         IN j \in ChannelTasks /\ WorkOK("binder", j) /\ Continues("binder", j)
<1> DEFINE j == [IdleTask EXCEPT !.at = stage, !.old = lease]
<1>1. j \in ChannelTasks /\ j.at = stage /\ j.rev = 0 /\ j.inside = NoChannel
  BY IdleTaskTyped DEF IdleTask, ChannelTasks, ChannelStages
<1> HIDE DEF j
<1>2. WorkOK("binder", j) /\ Continues("binder", j)
  BY <1>1 DEF WorkOK, Workers, Continues
<1> QED BY <1>1, <1>2 DEF j

LEMMA RoutesDo ==
  ASSUME ChannelTypes, ReadRoute \/ TakeRoute \/ CommitRoute \/ TargetComes \/ TargetGoes
  PROVE  ChannelTypes' /\ Quiet("binder")
<1> DEFINE t == "binder"
<1>1. /\ t \in ChannelThreads /\ HolderTypes /\ RouteTypes /\ RevisionsLeft
      /\ holder \in Holders
  BY DEF ChannelThreads, ChannelTypes, HolderTypes
<1>2. UNCHANGED <<holder, chan, setup, mutation, heard>>
  BY DEF ReadRoute, TakeRoute, CommitRoute, TargetComes, TargetGoes
<1>3. /\ HolderKept /\ holder' \in Holders /\ mutation' \in ChannelThreads \cup {Nobody}
  BY <1>1, <1>2, HolderStays DEF HolderTypes
<1>4. CASE ReadRoute
  <2>1. /\ job[t].at = "idle" /\ spare' = [spare EXCEPT !.routes = @ - 1]
        /\ Go(t, [IdleTask EXCEPT !.at = "bind", !.old = LeaseOf(holder)])
        /\ spare.routes > 0 /\ route' = route
    BY <1>4 DEF ReadRoute, At
  <2>2. RevisionsLeft' /\ RouteTypes'
    BY <1>1, <1>2, <2>1 DEF RevisionsLeft, Occupancy, RouteTypes
  <2> QED BY <1>1, <1>2, <1>3, <2>1, <2>2, RouteTask, LeaseTyped, QuietTask
<1>5. CASE TakeRoute
  <2>1. /\ job[t].at = "idle" /\ spare' = spare
        /\ Go(t, [IdleTask EXCEPT !.at = "consume", !.old = route.pending])
        /\ route' = [route EXCEPT !.pending = NoLease] /\ route.pending \in Leases
    BY <1>1, <1>5 DEF TakeRoute, At, RouteTypes
  <2>2. RevisionsLeft' /\ RouteTypes'
    BY <1>1, <1>2, <2>1, SpareKept, IdleTaskTyped DEF RouteTypes
  <2> QED BY <1>1, <1>2, <1>3, <2>1, <2>2, RouteTask, QuietTask
<1>6. CASE CommitRoute
  <2>1. /\ job[t].at \in {"bind", "consume"} /\ spare' = spare /\ Go(t, IdleTask)
        /\ route' \in {route, [route EXCEPT !.alias = job[t].old],
                       [route EXCEPT !.pending = job[t].old]}
        /\ job[t].old \in Leases
    BY <1>1, <1>6 DEF CommitRoute, At, ChannelTypes, TaskTypes, ChannelTasks
  <2>2. RevisionsLeft' /\ RouteTypes'
    BY <1>1, <1>2, <2>1, SpareKept DEF RouteTypes
  <2>3. HasNoMessage(t)
    BY <2>1 DEF HasNoMessage
  <2> QED BY <1>1, <1>2, <1>3, <2>1, <2>2, <2>3, IdleTaskTyped, IdleWorks,
             IdleContinues, QuietTask
<1>7. CASE TargetComes
  <2>1. /\ spare' = [spare EXCEPT !.routes = @ - 1] /\ spare.routes > 0
        /\ route' = [route EXCEPT !.target = TRUE] /\ job' = job
    BY <1>7 DEF TargetComes
  <2>2. RevisionsLeft'
    BY <1>1, <1>2, <2>1 DEF RevisionsLeft, Occupancy
  <2>3. RouteTypes'
    BY <1>1, <2>1 DEF RouteTypes
  <2> QED BY <1>1, <1>2, <1>3, <2>1, <2>2, <2>3, QuietRest
<1>8. CASE TargetGoes
  <2>1. /\ spare' = spare /\ job' = job
        /\ route' = [target |-> FALSE, alias |-> NoLease, pending |-> NoLease]
    BY <1>8 DEF TargetGoes
  <2>2. RevisionsLeft' /\ RouteTypes'
    BY <1>1, <1>2, <2>1, SpareKept, IdleTaskTyped DEF RouteTypes
  <2> QED BY <1>1, <1>2, <1>3, <2>1, <2>2, QuietRest
<1> QED BY <1>4, <1>5, <1>6, <1>7, <1>8

\* The holder's channel goes, and with it its revision.
ChannelGoes(t) ==
  /\ OthersGoOn(t) /\ BearsAsBefore(t) /\ StageKept(t)
  /\ holder'.revision = holder.revision + 1 /\ holder'.channel = NoChannel
  /\ ~holder'.opened /\ holder'.state = holder.state
  /\ chan' = chan /\ setup' = setup /\ heard' = heard

LEMMA GoingTask ==
  ASSUME ChannelTypes, NEW t \in ChannelThreads, NEW j \in ChannelTasks, Go(t, j),
         WorkOK(t, j), Continues(t, j), holder' \in Holders,
         holder.channel # NoChannel, holder'.channel = NoChannel,
         holder'.revision = holder.revision + 1, ~holder'.opened,
         holder'.state = holder.state,
         chan' = chan, setup' = setup, heard' = heard, mutation' = mutation,
         spare' = spare, RouteTypes'
  PROVE  ChannelTypes' /\ ChannelGoes(t)
<1>1. TaskTypes' /\ AtWork' /\ job'[t] = j /\ OthersGoOn(t)
  BY TaskMoves, TaskSet DEF ChannelTypes, OthersGoOn
<1>2. RevisionsLeft'
  BY SpareEmptied DEF ChannelTypes
<1>3. ChannelTypes'
  BY <1>1, <1>2 DEF ChannelTypes, HolderTypes, RecordTypes, SetupTypes, HeardTypes
<1>4. StageKept(t) /\ BearsAsBefore(t)
  BY <1>1 DEF StageKept, BearsAsBefore, Continues
<1> QED BY <1>1, <1>3, <1>4 DEF ChannelGoes

LEMMA HandleEndDoes ==
  ASSUME ChannelTypes, NEW t \in Workers, HandleEnd(t)
  PROVE  ChannelTypes' /\ (Quiet(t) \/ ChannelGoes(t))
<1>1. /\ t \in ChannelThreads /\ job[t].at = "run" /\ job[t].kind = "end"
      /\ UNCHANGED <<chan, setup, mutation, route, heard, spare>>
      /\ \/ /\ LeaseIsCurrent(job[t].ch, job[t].rev, FALSE)
            /\ holder' = [Emptied(holder) EXCEPT !.observed = @ \ {job[t].ch}]
            /\ GoTo(t, "purgeEnd")
         \/ Go(t, AfterEvent(t)) /\ holder' = holder
  BY DEF HandleEnd, At, Workers, ChannelThreads
<1>2. /\ HasNoMessage(t) /\ RouteTypes' /\ job[t].ch \in Channels
      /\ mutation' \in ChannelThreads \cup {Nobody}
  BY <1>1 DEF HasNoMessage, ChannelTypes, RouteTypes, AtWork, WorkOK, HolderTypes
<1>3. CASE Go(t, AfterEvent(t)) /\ holder' = holder
  BY <1>1, <1>2, <1>3, QuietStep, AfterEventTyped, AfterEventWorks, AfterEventContinues
  DEF ChannelTypes, WhileDraining
<1>4. CASE /\ LeaseIsCurrent(job[t].ch, job[t].rev, FALSE)
           /\ holder' = [Emptied(holder) EXCEPT !.observed = @ \ {job[t].ch}]
           /\ GoTo(t, "purgeEnd")
  <2> DEFINE j == [job[t] EXCEPT !.at = "purgeEnd"]
  <2>1. j \in ChannelTasks /\ Go(t, j) /\ WorkOK(t, j) /\ Continues(t, j)
    BY <1>1, <1>2, <1>4, StageGoesOn
    DEF ChannelStages, Workers, WhileDraining, BeforeDrain, Telling
  <2>2. holder.channel # NoChannel
    BY <1>2, <1>4, RevisionNumbers DEF LeaseIsCurrent
  <2>3. /\ holder' \in Holders /\ holder'.revision = holder.revision + 1
        /\ holder'.channel = NoChannel /\ ~holder'.opened /\ holder'.state = holder.state
    BY <1>4, NextRevision DEF ChannelTypes, Holders
  <2> HIDE DEF j
  <2> QED BY <1>1, <1>2, <2>1, <2>2, <2>3, GoingTask
<1> QED BY <1>1, <1>3, <1>4

LEMMA RetireChannelDoes ==
  ASSUME ChannelTypes, NEW t \in Workers \cup {"manager"}, RetireChannel(t)
  PROVE  ChannelTypes' /\ (Quiet(t) \/ ChannelGoes(t))
<1>1. /\ t \in ChannelThreads /\ job[t].at = "retire" /\ job[t] \in ChannelTasks
      /\ WorkOK(t, job[t]) /\ HasNoMessage(t) /\ HolderTypes /\ RouteTypes /\ RevisionsLeft
      /\ UNCHANGED <<chan, setup, mutation, heard, spare>>
  BY DEF RetireChannel, At, Workers, ChannelThreads, ChannelTypes, TaskTypes, AtWork,
         HasNoMessage
<1>2. mutation' \in ChannelThreads \cup {Nobody}
  BY <1>1 DEF HolderTypes
<1>3. CASE holder.channel = NoChannel
  <2>1. /\ holder' = [holder EXCEPT !.observed = {}] /\ route' = route
        /\ Go(t, AfterEvent(t))
    BY <1>3 DEF RetireChannel
  <2>2. /\ holder' \in Holders /\ holder'.revision = holder.revision
        /\ holder'.channel = holder.channel /\ holder'.opened = holder.opened
        /\ holder'.state = holder.state
    BY <1>1, <2>1 DEF HolderTypes, Holders
  <2>3. HolderKept /\ RevisionsLeft' /\ RouteTypes'
    BY <1>1, <2>1, <2>2, SpareKept DEF HolderKept, RouteTypes
  <2>4. AfterEvent(t) \in ChannelTasks /\ WorkOK(t, AfterEvent(t)) /\ Continues(t, AfterEvent(t))
    BY <1>1, AfterEventTyped, AfterEventWorks, AfterEventContinues
    DEF ChannelTypes, WhileDraining
  <2> QED BY <1>1, <1>2, <2>1, <2>2, <2>3, <2>4, QuietTask
<1>4. CASE holder.channel # NoChannel
  <2> DEFINE j == [job[t] EXCEPT !.at = "clear", !.old = LeaseOf(holder)]
  <2>1. /\ holder' = [Emptied(holder) EXCEPT !.observed = {}] /\ Go(t, j)
        /\ route' = Purged(route, LeaseOf(holder))
    BY <1>4 DEF RetireChannel
  <2>2. /\ holder' \in Holders /\ holder'.revision = holder.revision + 1
        /\ holder'.channel = NoChannel /\ ~holder'.opened /\ holder'.state = holder.state
    BY <1>1, <2>1, NextRevision DEF Holders
  <2>3. RouteTypes'
    BY <1>1, <2>1, PurgedTyped DEF RouteTypes
  <2>4. /\ j \in ChannelTasks /\ j.at = "clear" /\ j.old.ch = holder.channel
        /\ j.ch = job[t].ch /\ j.rev = job[t].rev /\ j.inside = job[t].inside
    BY <1>1, LeaseTyped DEF ChannelTasks, ChannelStages
  <2>5. holder.channel \in Channels
    BY <1>1, <1>4 DEF HolderTypes, Holders, AnyChannel
  <2> HIDE DEF j
  <2>6. WorkOK(t, j) /\ Continues(t, j)
    BY <1>1, <2>4, <2>5 DEF WorkOK, Continues, HasNoMessage, Workers, BeforeDrain,
       WhileDraining, Telling
  <2> QED BY <1>1, <1>4, <2>1, <2>2, <2>3, <2>4, <2>6, GoingTask
<1> QED BY <1>3, <1>4

(***************************************************************************)
(* What a quiet step keeps, and one that takes the channel away.           *)
(***************************************************************************)
\* The present revision goes up, or it and its channel stay.
LEMMA BearsKept ==
  ASSUME ChannelTypes, ChannelTypes', NEW rev \in Nat, NEW ch, Bears(rev, ch),
         \/ holder'.revision = holder.revision /\ holder'.channel = holder.channel
         \/ holder'.revision > holder.revision
  PROVE  Bears(rev, ch)'
<1>1. holder.revision \in Nat /\ holder'.revision \in Nat
  BY RevisionNumbers DEF ChannelTypes, HolderTypes, Holders
<1> QED BY <1>1 DEF Bears

LEMMA OwnedKept ==
  ASSUME ChannelTypes, ChannelTypes', RevisionsOwned, NEW t \in ChannelThreads,
         OthersGoOn(t), Bears(job[t].rev, job[t].ch)' \/ BearsAsBefore(t), RecordsKept,
         \/ holder'.revision = holder.revision /\ holder'.channel = holder.channel
         \/ holder'.revision > holder.revision
  PROVE  RevisionsOwned'
<1>1. \A u \in ChannelThreads : job[u].rev \in Nat /\ job'[u].rev \in Nat
  BY RevisionNumbers DEF ChannelTypes, TaskTypes, ChannelTasks
<1>2. \A ch \in Channels, k \in HookKinds : chan[ch].hooks[k] \in Nat
  BY RevisionNumbers DEF ChannelTypes, RecordTypes, ChannelRecords
<1>3. holder'.revision \in Nat
  BY RevisionNumbers DEF ChannelTypes, HolderTypes, Holders
<1>4. \A ch : Bears(0, ch)'
  BY <1>3 DEF Bears
<1>5. ASSUME NEW u \in ChannelThreads PROVE Bears(job[u].rev, job[u].ch)'
  <2>1. Bears(job[u].rev, job[u].ch)
    BY DEF RevisionsOwned
  <2>3. \A rev \in Nat : \A ch : Bears(rev, ch) =>
          /\ rev <= holder'.revision
          /\ rev = holder'.revision /\ rev # 0 => ch = holder'.channel
    BY BearsKept DEF Bears
  <2>4. CASE job'[u].rev = job[u].rev /\ job'[u].ch = job[u].ch
    BY <1>1, <2>1, <2>3, <2>4 DEF Bears
  <2>5. CASE job'[u].rev = 0
    BY <1>3, <2>5 DEF Bears
  <2>6. CASE u = t
    BY <2>4, <2>5, <2>6 DEF BearsAsBefore
  <2>7. CASE u # t
    BY <2>4, <2>7 DEF OthersGoOn
  <2> QED BY <2>6, <2>7
<1>6. ASSUME NEW ch \in Channels, NEW k \in HookKinds
      PROVE  Bears(chan[ch].hooks[k], ch)'
  <2>1. Bears(chan[ch].hooks[k], ch) /\ chan[ch].hooks[k] \in Nat
    BY <1>2 DEF RevisionsOwned
  <2>2. chan[ch].hooks[k] <= holder'.revision /\
        (chan[ch].hooks[k] = holder'.revision /\ chan[ch].hooks[k] # 0 => ch = holder'.channel)
    BY <2>1, BearsKept DEF Bears
  <2>3. chan'[ch].hooks[k] \in {0, chan[ch].hooks[k]}
    BY DEF RecordsKept
  <2> QED BY <1>3, <2>2, <2>3 DEF Bears
<1>7. holder'.channel # NoChannel => holder'.revision # 0
  <2>1. holder.revision \in Nat
    BY RevisionNumbers DEF ChannelTypes, HolderTypes, Holders
  <2> QED BY <1>3, <2>1 DEF RevisionsOwned
<1> QED BY <1>5, <1>6, <1>7 DEF RevisionsOwned

LEMMA PhasesKept ==
  ASSUME ChannelTypes, ChannelTypes', PhasesInOrder, NEW t \in ChannelThreads,
         OthersGoOn(t), StageKept(t), setup' = setup,
         holder'.revision >= holder.revision
  PROVE  PhasesInOrder'
<1>1. \A rev \in Revisions : rev \in Nat
  BY RevisionNumbers
<1>2. holder.revision \in Nat /\ holder'.revision \in Nat
  BY <1>1 DEF ChannelTypes, HolderTypes, Holders
<1>3. ASSUME NEW rev \in Revisions
      PROVE  /\ setup'[rev].phase \in {"active", "cancelled"} => setup'[rev].deferred = <<>>
             /\ rev > holder'.revision => setup'[rev].phase = "cancelled"
  BY <1>1, <1>2 DEF PhasesInOrder
<1>4. /\ job'["installer"].at \in BeforeDrain =>
           setup'[job'["installer"].rev].phase = "installing"
      /\ job'["installer"].at \in WhileDraining =>
           setup'[job'["installer"].rev].phase \in {"draining", "cancelled"}
  BY DEF PhasesInOrder, OthersGoOn, StageKept, ChannelThreads
<1>5. job'["callback"].at \in Telling => setup'[job'["callback"].rev].phase = "active"
  BY DEF PhasesInOrder, OthersGoOn, StageKept, ChannelThreads
<1> QED BY <1>3, <1>4, <1>5 DEF PhasesInOrder

LEMMA RecordsOKKept ==
  ASSUME ChannelTypes, RecordsOK,
         \A ch \in Channels : /\ chan'[ch].state = chan[ch].state
                              /\ chan'[ch].sent = chan[ch].sent
                              /\ chan'[ch].events = chan[ch].events
  PROVE  RecordsOK' /\ \A ch \in Channels : Top(ch)' = Top(ch)
<1>1. \A ch \in Channels : Top(ch)' = Top(ch)
  BY DEF Top
<1>2. ASSUME NEW ch \in Channels
      PROVE  /\ chan'[ch].state = "new" <=> chan'[ch].sent = 0
             /\ chan'[ch].state = "closed" => chan'[ch].sent >= 2
             /\ \E lo \in 2..(Top(ch)' + 1) : Carries(chan'[ch].events, lo, Top(ch)')
  BY <1>1 DEF RecordsOK
<1> QED BY <1>1, <1>2 DEF RecordsOK

LEMMA HeardKept ==
  ASSUME ChannelTypes, ChannelTypes', HeardInv, heard' = heard,
         \/ /\ holder'.revision = holder.revision /\ holder'.opened = holder.opened
            /\ holder'.state = "new" => holder.state = "new"
         \/ holder'.revision > holder.revision /\ ~holder'.opened
  PROVE  HeardInv'
<1>1. \A rev \in Revisions : rev \in Nat
  BY RevisionNumbers
<1>2. /\ holder.revision \in Nat /\ holder'.revision \in Nat
      /\ holder'.revision \in Revisions
  BY <1>1 DEF ChannelTypes, HolderTypes, Holders
<1>3. ASSUME NEW rev \in Revisions
      PROVE  /\ heard'[rev].opens <= 1
             /\ heard'[rev].messages # <<>> => heard'[rev].opens = 1
             /\ Consecutive(heard'[rev].messages)
             /\ rev > holder'.revision => heard'[rev] = [opens |-> 0, messages |-> <<>>]
  BY <1>1, <1>2 DEF HeardInv
<1>4. heard'[holder'.revision].opens = IF holder'.opened THEN 1 ELSE 0
  BY <1>1, <1>2 DEF HeardInv, Once
<1>5. holder'.state = "new" => ~holder'.opened
  BY DEF HeardInv
<1> QED BY <1>3, <1>4, <1>5 DEF HeardInv, Once

\* The way of the messages of the present revision is the same.
LEMMA FlowKept ==
  ASSUME ChannelTypes, ChannelTypes', FlowOK, holder'.revision = holder.revision,
         holder'.channel = holder.channel,
         holder'.state # "gone" => holder.state # "gone",
         setup'[holder.revision] = setup[holder.revision],
         heard'[holder.revision].messages = heard[holder.revision].messages,
         \A t \in Workers : HasToTell(t, holder.revision)' <=> HasToTell(t, holder.revision),
         \A t \in Workers : HasToTell(t, holder.revision) => job'[t].n = job[t].n,
         holder.channel # NoChannel =>
           /\ chan'[holder.channel].state = chan[holder.channel].state
           /\ chan'[holder.channel].sent = chan[holder.channel].sent
           /\ chan'[holder.channel].events = chan[holder.channel].events
           /\ chan'[holder.channel].hooks["message"] \in
                {0, holder.revision, chan[holder.channel].hooks["message"]}
  PROVE  FlowOK'
<1> DEFINE rev == holder.revision
           ch == holder.channel
<1>1. /\ \A t \in Workers : (HasToTell(t, rev))' <=> HasToTell(t, rev)
      /\ \A t \in Workers : HasToTell(t, rev) => job'[t].n = job[t].n
      /\ setup'[rev] = setup[rev] /\ heard'[rev].messages = heard[rev].messages
      /\ holder'.revision = rev /\ holder'.channel = ch
  BY DEF HasToTell
<1>2. setup'[rev].phase \in Unheard =>
        heard'[rev].messages = <<>> /\ \A t \in Workers : ~(HasToTell(t, rev))'
  BY <1>1 DEF FlowOK
<1>3. ASSUME ch # NoChannel, holder'.state # "gone", setup'[rev].phase # "cancelled"
      PROVE  \E hi \in 1..Top(ch)' : \E lo \in 2..(hi + 1) : Flowing(rev, ch, lo, hi)'
  <2>1. \E hi \in 1..Top(ch) : \E lo \in 2..(hi + 1) : Flowing(rev, ch, lo, hi)
    BY <1>1, <1>3 DEF FlowOK
  <2>2. Top(ch)' = Top(ch)
    BY <1>3 DEF Top
  <2>3. PICK hi \in 1..Top(ch) : \E lo \in 2..(hi + 1) : Flowing(rev, ch, lo, hi)
    BY <2>1
  <2>4. PICK lo \in 2..(hi + 1) : Flowing(rev, ch, lo, hi)
    BY <2>3
  <2>5. Flowing(rev, ch, lo, hi)'
    BY <1>1, <1>3, <2>2, <2>4 DEF Flowing
  <2> QED BY <2>2, <2>5
<1> QED BY <1>1, <1>2, <1>3 DEF FlowOK

LEMMA QuietKeeps ==
  ASSUME ChannelInv, ChannelTypes', NEW t \in ChannelThreads, Quiet(t)
  PROVE  ChannelInv'
<1>1. /\ OthersGoOn(t) /\ BearsAsBefore(t) /\ StageKept(t) /\ HandKept(t)
      /\ HolderKept /\ RecordsKept /\ setup' = setup /\ heard' = heard /\ ChannelTypes
      /\ holder.revision \in Revisions
  BY DEF Quiet, ChannelInv, ChannelTypes, HolderTypes, Holders
<1>2. RevisionsOwned'
  BY <1>1, OwnedKept DEF ChannelInv, HolderKept
<1>3. PhasesInOrder'
  <2>1. holder'.revision >= holder.revision
    BY <1>1, RevisionNumbers DEF HolderKept
  <2> QED BY <1>1, <2>1, PhasesKept DEF ChannelInv
<1>4. HeardInv'
  BY <1>1, HeardKept DEF ChannelInv, HolderKept
<1>5. RecordsOK'
  BY <1>1, RecordsOKKept DEF ChannelInv, RecordsKept
<1>6. FlowOK'
  <2>1. /\ holder'.revision = holder.revision /\ holder'.channel = holder.channel
        /\ holder'.state # "gone" => holder.state # "gone"
    BY <1>1 DEF HolderKept
  <2>2. \A u \in Workers : /\ HasToTell(u, holder.revision)' <=> HasToTell(u, holder.revision)
                           /\ HasToTell(u, holder.revision) => job'[u].n = job[u].n
    <3> TAKE u \in Workers
    <3>1. u \in ChannelThreads
      BY DEF Workers, ChannelThreads
    <3>2. CASE u = t
      BY <1>1, <2>1, <3>2 DEF HandKept, HasToTell
    <3>3. CASE u # t
      BY <1>1, <2>1, <3>1, <3>3 DEF OthersGoOn, HasToTell
    <3> QED BY <3>2, <3>3
  <2>3. holder.channel # NoChannel =>
          /\ chan'[holder.channel].state = chan[holder.channel].state
          /\ chan'[holder.channel].sent = chan[holder.channel].sent
          /\ chan'[holder.channel].events = chan[holder.channel].events
          /\ chan'[holder.channel].hooks["message"] \in
               {0, holder.revision, chan[holder.channel].hooks["message"]}
    <3>1. holder.channel # NoChannel => holder.channel \in Channels
      BY <1>1 DEF ChannelTypes, HolderTypes, Holders, AnyChannel
    <3> QED BY <1>1, <3>1 DEF RecordsKept, HookKinds
  <2> QED BY <1>1, <2>1, <2>2, <2>3, FlowKept DEF ChannelInv
<1> QED BY <1>2, <1>3, <1>4, <1>5, <1>6 DEF ChannelInv

LEMMA GoingKeeps ==
  ASSUME ChannelInv, ChannelTypes', NEW t \in ChannelThreads, ChannelGoes(t)
  PROVE  ChannelInv'
<1>1. /\ OthersGoOn(t) /\ BearsAsBefore(t) /\ StageKept(t) /\ ChannelTypes
      /\ chan' = chan /\ setup' = setup /\ heard' = heard
      /\ holder'.revision = holder.revision + 1 /\ holder'.channel = NoChannel
      /\ ~holder'.opened
  BY DEF ChannelGoes, ChannelInv
<1>2. /\ holder.revision \in Nat /\ holder'.revision \in Nat
      /\ holder'.revision \in Revisions /\ holder'.revision > holder.revision
      /\ holder'.revision >= holder.revision
  <2>1. holder.revision \in Nat /\ holder'.revision \in Revisions
    BY <1>1, RevisionNumbers DEF ChannelTypes, HolderTypes, Holders
  <2> QED BY <1>1, <2>1
<1>3. RevisionsOwned'
  BY <1>1, <1>2, RecordsSame, OwnedKept DEF ChannelInv, ChannelTypes
<1>4. PhasesInOrder'
  BY <1>1, <1>2, PhasesKept DEF ChannelInv
<1>5. HeardInv'
  BY <1>1, <1>2, HeardKept DEF ChannelInv
<1>6. RecordsOK'
  BY <1>1, RecordsOKKept DEF ChannelInv
<1>7. FlowOK'
  <2>1. heard'[holder'.revision].messages = <<>>
    BY <1>1, <1>2 DEF ChannelInv, HeardInv
  <2>2. \A u \in Workers : ~(HasToTell(u, holder.revision))'
    <3> SUFFICES ASSUME NEW u \in Workers PROVE job'[u].rev # holder'.revision
      BY DEF HasToTell
    <3>1. u \in ChannelThreads /\ job[u].rev \in Nat /\ job[u].rev <= holder.revision
      BY <1>1, RevisionNumbers DEF Workers, ChannelThreads, ChannelInv, RevisionsOwned,
         Bears, ChannelTypes, TaskTypes, ChannelTasks
    <3>2. job'[u].rev = job[u].rev \/ job'[u].rev = 0
      BY <1>1, <3>1 DEF OthersGoOn, BearsAsBefore
    <3> QED BY <1>1, <1>2, <3>1, <3>2
  <2> QED BY <1>1, <2>1, <2>2 DEF FlowOK
<1> QED BY <1>3, <1>4, <1>5, <1>6, <1>7 DEF ChannelInv

(***************************************************************************)
(* Queues of messages.                                                     *)
(***************************************************************************)
LEMMA EventsNumbered ==
  ASSUME NEW q \in Seq(ChannelEvents)
  PROVE  \A i \in 1..Len(q) : q[i] \in ChannelEvents /\ q[i].n \in Nat
<1>1. \A i \in 1..Len(q) : q[i] \in ChannelEvents
  OBVIOUS
<1>2. \A e \in ChannelEvents : e.n \in Nat
  BY DEF ChannelEvents
<1> QED BY <1>1, <1>2

LEMMA CarriesEmpty ==
  ASSUME NEW lo \in Nat, NEW hi \in Nat, hi < lo
  PROVE  Carries(<<>>, lo, hi)
  BY DEF Carries, MessageAt

LEMMA CarriesAppend ==
  ASSUME NEW q \in Seq(ChannelEvents), NEW e \in ChannelEvents, NEW lo \in Nat,
         NEW hi \in Nat, lo <= hi + 1, Carries(q, lo, hi)
  PROVE  /\ e.kind # "message" => Carries(Append(q, e), lo, hi)
         /\ e.kind = "message" /\ e.n = hi + 1 => Carries(Append(q, e), lo, hi + 1)
<1> DEFINE r == Append(q, e)
<1>1. /\ Len(q) \in Nat /\ Len(r) = Len(q) + 1 /\ r[Len(q) + 1] = e
      /\ \A i \in 1..Len(q) : r[i] = q[i] /\ q[i].n \in Nat
  BY EventsNumbered
<1> HIDE DEF r
<1>2. \A i \in 1..Len(q) : MessageAt(r, i) <=> MessageAt(q, i)
  BY <1>1 DEF MessageAt
<1>3. MessageAt(r, Len(q) + 1) <=> e.kind = "message"
  BY <1>1 DEF MessageAt
<1>4. \A i \in 1..Len(r) : i \in 1..Len(q) \/ i = Len(q) + 1
  BY <1>1
<1>5. ASSUME e.kind # "message" PROVE Carries(r, lo, hi)
  <2>1. \A i \in 1..Len(r) : MessageAt(r, i) => i \in 1..Len(q) /\ MessageAt(q, i)
    BY <1>2, <1>3, <1>4, <1>5
  <2>2. \A i \in 1..Len(r) : MessageAt(r, i) => r[i].n \in lo..hi
    BY <1>1, <2>1 DEF Carries
  <2>3. ASSUME NEW n \in lo..hi PROVE \E i \in 1..Len(r) : MessageAt(r, i) /\ r[i].n = n
    <3>1. PICK i \in 1..Len(q) : MessageAt(q, i) /\ q[i].n = n
      BY DEF Carries
    <3> QED BY <1>1, <1>2, <3>1
  <2>4. \A i, k \in 1..Len(r) : MessageAt(r, i) /\ MessageAt(r, k) /\ i < k => r[i].n < r[k].n
    BY <1>1, <2>1 DEF Carries
  <2> QED BY <2>2, <2>3, <2>4 DEF Carries
<1>6. ASSUME e.kind = "message", e.n = hi + 1 PROVE Carries(r, lo, hi + 1)
  <2>1. \A i \in 1..Len(r) : MessageAt(r, i) => r[i].n \in lo..(hi + 1)
    BY <1>1, <1>2, <1>3, <1>4, <1>6 DEF Carries
  <2>2. ASSUME NEW n \in lo..(hi + 1)
        PROVE  \E i \in 1..Len(r) : MessageAt(r, i) /\ r[i].n = n
    <3>1. CASE n = hi + 1
      BY <1>1, <1>3, <1>6, <3>1
    <3>2. CASE n \in lo..hi
      <4>1. PICK i \in 1..Len(q) : MessageAt(q, i) /\ q[i].n = n
        BY <3>2 DEF Carries
      <4> QED BY <1>1, <1>2, <4>1
    <3> QED BY <3>1, <3>2
  <2>3. ASSUME NEW i \in 1..Len(r), NEW k \in 1..Len(r), MessageAt(r, i), MessageAt(r, k),
               i < k
        PROVE  r[i].n < r[k].n
    <3>1. i \in 1..Len(q) /\ MessageAt(q, i)
      BY <1>1, <1>2, <1>4, <2>3
    <3>2. CASE k = Len(q) + 1
      BY <1>1, <1>6, <3>1, <3>2 DEF Carries
    <3>3. CASE k \in 1..Len(q)
      BY <1>1, <1>2, <2>3, <3>1, <3>3 DEF Carries
    <3> QED BY <1>4, <3>2, <3>3
  <2> QED BY <2>1, <2>2, <2>3 DEF Carries
<1> QED BY <1>5, <1>6 DEF r

\* r is q without the event at place p.
Without(r, q, p) ==
  /\ p \in 1..Len(q) /\ Len(r) \in Nat /\ Len(r) + 1 = Len(q)
  /\ \A i \in 1..Len(r) : r[i] = IF i < p THEN q[i] ELSE q[i + 1]
LEMMA CarriesWithout ==
  ASSUME NEW q \in Seq(ChannelEvents), NEW r, NEW p, Without(r, q, p), NEW lo \in Nat,
         NEW hi \in Nat, Carries(q, lo, hi)
  PROVE  /\ q[p].kind # "message" => Carries(r, lo, hi)
         /\ q[p].kind = "message" /\ (\A k \in 1..(p - 1) : q[k].kind # "message") =>
              q[p].n = lo /\ lo <= hi /\ Carries(r, lo + 1, hi)
<1> DEFINE From(i) == IF i < p THEN i ELSE i + 1
<1>1. /\ Len(q) \in Nat /\ Len(r) \in Nat /\ Len(r) + 1 = Len(q) /\ p \in 1..Len(q)
      /\ \A i \in 1..Len(q) : q[i].n \in Nat
  BY EventsNumbered DEF Without
<1>2. \A i \in 1..Len(r) : From(i) \in 1..Len(q) /\ From(i) # p /\ r[i] = q[From(i)]
  BY <1>1 DEF Without
<1>3. \A i, k \in 1..Len(r) : i < k => From(i) < From(k)
  BY <1>1
<1>4. \A j \in 1..Len(q) : j # p => \E i \in 1..Len(r) : From(i) = j
  <2> TAKE j \in 1..Len(q)
  <2>1. CASE j < p
    BY <1>1, <2>1
  <2>2. CASE j > p
    <3>1. j - 1 \in 1..Len(r) /\ From(j - 1) = j
      BY <1>1, <2>2
    <3> QED BY <3>1
  <2> QED BY <1>1, <2>1, <2>2
<1> HIDE DEF From
<1>5. \A i \in 1..Len(r) : MessageAt(r, i) <=> MessageAt(q, From(i))
  BY <1>2 DEF MessageAt
<1>6. \A i, k \in 1..Len(r) : MessageAt(r, i) /\ MessageAt(r, k) /\ i < k => r[i].n < r[k].n
  BY <1>2, <1>3, <1>5 DEF Carries
<1>7. \A i \in 1..Len(r) : MessageAt(r, i) => r[i].n \in lo..hi
  BY <1>2, <1>5 DEF Carries
<1>8. ASSUME q[p].kind # "message" PROVE Carries(r, lo, hi)
  <2>1. ASSUME NEW n \in lo..hi PROVE \E i \in 1..Len(r) : MessageAt(r, i) /\ r[i].n = n
    <3>1. PICK j \in 1..Len(q) : MessageAt(q, j) /\ q[j].n = n
      BY DEF Carries
    <3>2. j # p
      BY <1>8, <3>1 DEF MessageAt
    <3>3. PICK i \in 1..Len(r) : From(i) = j
      BY <1>4, <3>2
    <3> QED BY <1>2, <1>5, <3>1, <3>3
  <2> QED BY <1>6, <1>7, <2>1 DEF Carries
<1>9. ASSUME q[p].kind = "message", \A k \in 1..(p - 1) : q[k].kind # "message"
      PROVE  q[p].n = lo /\ lo <= hi /\ Carries(r, lo + 1, hi)
  <2>1. MessageAt(q, p) /\ q[p].n \in lo..hi
    BY <1>1, <1>9 DEF MessageAt, Carries
  <2>2. \A j \in 1..Len(q) : MessageAt(q, j) /\ j # p => p < j /\ q[p].n < q[j].n
    <3> TAKE j \in 1..Len(q)
    <3> HAVE MessageAt(q, j) /\ j # p
    <3>1. p < j
      BY <1>1, <1>9 DEF MessageAt
    <3> QED BY <1>1, <2>1, <3>1 DEF Carries
  <2>3. lo \in lo..hi
    BY <2>1
  <2>4. PICK j \in 1..Len(q) : MessageAt(q, j) /\ q[j].n = lo
    BY <2>3 DEF Carries
  <2>5. q[p].n = lo /\ lo <= hi
    BY <1>1, <2>1, <2>2, <2>4
  <2>6. ASSUME NEW i \in 1..Len(r), MessageAt(r, i) PROVE r[i].n \in (lo + 1)..hi
    BY <1>1, <1>2, <1>5, <1>7, <2>2, <2>5, <2>6
  <2>7. ASSUME NEW n \in (lo + 1)..hi
        PROVE  \E i \in 1..Len(r) : MessageAt(r, i) /\ r[i].n = n
    <3>1. PICK k \in 1..Len(q) : MessageAt(q, k) /\ q[k].n = n
      BY DEF Carries
    <3>2. k # p
      BY <2>5, <3>1
    <3>3. PICK i \in 1..Len(r) : From(i) = k
      BY <1>4, <3>2
    <3> QED BY <1>2, <1>5, <3>1, <3>3
  <2> QED BY <1>6, <2>5, <2>6, <2>7 DEF Carries
<1> QED BY <1>8, <1>9

LEMMA TailWithout ==
  ASSUME NEW q \in Seq(ChannelEvents), q # <<>>
  PROVE  Without(Tail(q), q, 1) /\ Tail(q) \in Seq(ChannelEvents) /\ Head(q) = q[1]
  BY DEF Without

LEMMA RemovedWithout ==
  ASSUME NEW q \in Seq(ChannelEvents), NEW p \in 1..Len(q)
  PROVE  Without(RemoveAt(q, p), q, p) /\ RemoveAt(q, p) \in Seq(ChannelEvents)
<1> DEFINE a == SubSeq(q, 1, p - 1)
           b == SubSeq(q, p + 1, Len(q))
<1>1. a \in Seq(ChannelEvents) /\ Len(a) = p - 1 /\ \A i \in 1..(p - 1) : a[i] = q[i]
  OBVIOUS
<1>2. /\ b \in Seq(ChannelEvents) /\ Len(b) = Len(q) - p
      /\ \A i \in 1..(Len(q) - p) : b[i] = q[i + p]
  OBVIOUS
<1>0. Len(q) \in Nat /\ p \in Nat /\ p >= 1 /\ p <= Len(q)
  OBVIOUS
<1>3. RemoveAt(q, p) = a \o b
  BY DEF RemoveAt
<1> HIDE DEF a, b
<1>4. /\ a \o b \in Seq(ChannelEvents) /\ Len(a \o b) = Len(a) + Len(b)
      /\ \A i \in 1..(Len(a) + Len(b)) :
           (a \o b)[i] = IF i <= Len(a) THEN a[i] ELSE b[i - Len(a)]
  BY <1>1, <1>2, ConcatProperties
<1>5. \A i \in 1..(Len(q) - 1) : (a \o b)[i] = IF i < p THEN q[i] ELSE q[i + 1]
  <2> TAKE i \in 1..(Len(q) - 1)
  <2>1. CASE i < p
    BY <1>1, <1>2, <1>4, <2>1
  <2>2. CASE ~(i < p)
    <3>1. i - (p - 1) \in 1..(Len(q) - p) /\ (a \o b)[i] = b[i - (p - 1)]
      BY <1>0, <1>1, <1>2, <1>4, <2>2
    <3>2. (i - (p - 1)) + p = i + 1
      OBVIOUS
    <3>3. b[i - (p - 1)] = q[i + 1]
      BY <1>2, <3>1, <3>2
    <3> QED BY <2>2, <3>1, <3>3
  <2> QED BY <1>0, <2>1, <2>2
<1>6. Len(a \o b) = Len(q) - 1
  <2>1. (p - 1) + (Len(q) - p) = Len(q) - 1
    BY <1>0
  <2> QED BY <1>1, <1>2, <1>4, <2>1
<1>7. Len(a \o b) \in Nat /\ Len(a \o b) + 1 = Len(q)
  BY <1>0, <1>6
<1> QED BY <1>0, <1>3, <1>4, <1>5, <1>6, <1>7 DEF Without

\* An event that is no message comes before the others.
LEMMA CarriesPrepend ==
  ASSUME NEW q \in Seq(ChannelEvents), NEW e \in ChannelEvents, e.kind # "message",
         NEW lo \in Nat, NEW hi \in Nat, Carries(q, lo, hi)
  PROVE  <<e>> \o q \in Seq(ChannelEvents) /\ Carries(<<e>> \o q, lo, hi)
<1> DEFINE r == <<e>> \o q
<1>1. /\ r \in Seq(ChannelEvents) /\ Len(q) \in Nat /\ Len(r) = Len(q) + 1 /\ r[1] = e
      /\ \A i \in 1..Len(q) : r[i + 1] = q[i]
  OBVIOUS
<1> HIDE DEF r
<1>2. \A i \in 1..Len(q) : MessageAt(r, i + 1) <=> MessageAt(q, i)
  BY <1>1 DEF MessageAt
<1>3. \A i \in 1..Len(r) : MessageAt(r, i) =>
        i - 1 \in 1..Len(q) /\ MessageAt(q, i - 1) /\ r[i] = q[i - 1]
  <2> SUFFICES ASSUME NEW i \in 1..Len(r), MessageAt(r, i)
               PROVE  i - 1 \in 1..Len(q) /\ MessageAt(q, i - 1) /\ r[i] = q[i - 1]
    OBVIOUS
  <2>1. i # 1
    BY <1>1 DEF MessageAt
  <2>2. i - 1 \in 1..Len(q) /\ (i - 1) + 1 = i
    BY <1>1, <2>1
  <2>3. r[i] = q[i - 1] /\ MessageAt(q, i - 1)
    BY <1>1, <1>2, <2>2
  <2> QED BY <2>2, <2>3
<1>4. \A i \in 1..Len(r) : MessageAt(r, i) => r[i].n \in lo..hi
  BY <1>3 DEF Carries
<1>5. ASSUME NEW n \in lo..hi PROVE \E i \in 1..Len(r) : MessageAt(r, i) /\ r[i].n = n
  <2>1. PICK i \in 1..Len(q) : MessageAt(q, i) /\ q[i].n = n
    BY DEF Carries
  <2>2. i + 1 \in 1..Len(r)
    BY <1>1
  <2> QED BY <1>1, <1>2, <2>1, <2>2
<1>6. \A i, k \in 1..Len(r) : MessageAt(r, i) /\ MessageAt(r, k) /\ i < k => r[i].n < r[k].n
  <2> TAKE i, k \in 1..Len(r)
  <2> HAVE MessageAt(r, i) /\ MessageAt(r, k) /\ i < k
  <2>1. i - 1 \in 1..Len(q) /\ k - 1 \in 1..Len(q) /\ i - 1 < k - 1
    BY <1>3
  <2> QED BY <1>3, <2>1 DEF Carries
<1> QED BY <1>1, <1>4, <1>5, <1>6 DEF Carries, r

(***************************************************************************)
(* A channel is handed in.                                                 *)
(***************************************************************************)
LEMMA HolderNumbers ==
  ASSUME ChannelTypes
  PROVE  /\ holder.revision \in Nat /\ holder.revision \in Revisions /\ holder \in Holders
         /\ holder.channel \in Channels \cup {NoChannel} /\ NoChannel \notin Channels
         /\ \A rev \in Revisions : rev \in Nat
         /\ \A t \in ChannelThreads : job[t] \in ChannelTasks /\ job[t].rev \in Nat
         /\ \A t \in Workers : t \in ChannelThreads
<1>1. \A rev \in Revisions : rev \in Nat
  BY RevisionNumbers
<1> QED BY <1>1, RevisionNumbers DEF ChannelTypes, HolderTypes, Holders, AnyChannel,
           TaskTypes, ChannelTasks, Workers, ChannelThreads

\* A channel that comes when the peer has gone loses its callbacks.
LEMMA IncomingLate ==
  ASSUME ChannelTypes, NEW ch \in Channels, Incoming(ch), holder.state = "gone"
  PROVE  ChannelTypes' /\ Quiet("installer")
<1> DEFINE none == [k \in HookKinds |-> 0]
<1>1. /\ spare.incoming > 0 /\ spare' = [spare EXCEPT !.incoming = @ - 1]
      /\ chan' = [chan EXCEPT ![ch].hooks = none]
      /\ holder' = holder /\ setup' = setup /\ job' = job
      /\ UNCHANGED <<mutation, route, heard>>
  BY DEF Incoming
<1>2. none \in [HookKinds -> Revisions] /\ \A k \in HookKinds : none[k] = 0
  BY RevisionNumbers
<1> HIDE DEF none
<1>3. RecordTypes' /\ RecordsKept
  <2>1. RecordTypes'
    BY <1>1, <1>2 DEF ChannelTypes, RecordTypes, ChannelRecords
  <2>2. RecordsKept
    BY <1>1, <1>2 DEF ChannelTypes, RecordTypes, ChannelRecords, RecordsKept
  <2> QED BY <2>1, <2>2
<1>4. RevisionsLeft'
  <2>1. /\ spare' \in [incoming : 0..MaxIncoming, messages : Nat, routes : Nat]
        /\ spare'.incoming = spare.incoming - 1 /\ spare.incoming \in 0..MaxIncoming
    BY <1>1, RevisionNumbers DEF ChannelTypes, RevisionsLeft
  <2> QED BY <1>1, <2>1, HolderNumbers, RevisionNumbers
          DEF ChannelTypes, RevisionsLeft, Occupancy
<1>5. ChannelTypes'
  BY <1>1, <1>3, <1>4 DEF ChannelTypes, HolderTypes, SetupTypes, TaskTypes, HeardTypes,
     RouteTypes, AtWork
<1>6. /\ OthersGoOn("installer") /\ BearsAsBefore("installer") /\ StageKept("installer")
      /\ HandKept("installer") /\ HolderKept
  BY <1>1 DEF OthersGoOn, BearsAsBefore, StageKept, HandKept, HasToTell, HolderKept
<1> QED BY <1>1, <1>3, <1>5, <1>6 DEF Quiet

LEMMA IncomingDoes ==
  ASSUME ChannelTypes, NEW ch \in Channels, Incoming(ch), holder.state # "gone"
  PROVE  /\ ChannelTypes' /\ OthersGoOn("installer")
         /\ holder'.revision = holder.revision + 1 /\ holder'.channel = ch
         /\ ~holder'.opened /\ holder'.state = holder.state
         /\ holder'.revision \in Revisions
         /\ job'["installer"].at \in {"check", "purge"} /\ job'["installer"].ch = ch
         /\ job'["installer"].rev = holder.revision + 1
         /\ chan' = chan /\ heard' = heard
         /\ setup'[holder.revision + 1].phase = "installing"
         /\ setup'[holder.revision + 1].deferred = setup[holder.revision + 1].deferred
         /\ \A rev \in Revisions : rev # holder.revision + 1 => setup'[rev] = setup[rev]
<1> DEFINE r == holder.revision + 1
           seen == ch \in holder.observed
           allow == holder.state = "new"
           stage == IF holder.channel = NoChannel THEN "check" ELSE "purge"
           admitted == [holder EXCEPT !.channel = ch, !.revision = @ + 1,
                                      !.opened = FALSE, !.pending = FALSE]
           j == [IdleTask EXCEPT !.at = stage, !.ch = ch, !.rev = admitted.revision,
                                 !.old = LeaseOf(holder), !.observed = seen,
                                 !.allow = allow]
           t == "installer"
<1>1. /\ spare.incoming > 0 /\ spare' = [spare EXCEPT !.incoming = @ - 1]
      /\ holder' = admitted /\ chan' = chan /\ Go(t, j)
      /\ setup' = [setup EXCEPT ![admitted.revision].phase = "installing"]
      /\ UNCHANGED <<mutation, route, heard>>
  BY DEF Incoming
<1>2. r \in Revisions /\ holder \in Holders /\ t \in ChannelThreads
  BY NextRevision DEF ChannelTypes, HolderTypes, ChannelThreads
<1>3. /\ admitted \in Holders /\ admitted.revision = r /\ admitted.channel = ch
      /\ ~admitted.opened /\ admitted.state = holder.state
  BY <1>2 DEF Holders, AnyChannel
<1>4. /\ j \in ChannelTasks /\ j.at \in {"check", "purge"} /\ j.ch = ch /\ j.rev = r
      /\ j.old.ch = holder.channel /\ j.inside = NoChannel
      /\ j.at = "purge" => holder.channel # NoChannel
  <2>1. /\ LeaseOf(holder) \in Leases /\ LeaseOf(holder).ch = holder.channel
        /\ IdleTask \in ChannelTasks /\ IdleTask.inside = NoChannel
    BY LeaseTyped, IdleTaskTyped DEF ChannelTypes, IdleTask
  <2>2. admitted.revision = r /\ r \in Revisions
    BY <1>2, <1>3
  <2>3. /\ seen \in BOOLEAN /\ allow \in BOOLEAN /\ stage \in {"check", "purge"}
        /\ stage = "purge" => holder.channel # NoChannel
    OBVIOUS
  <2> HIDE DEF admitted, r, seen, allow, stage
  <2>4. /\ j.at = stage /\ j.ch = ch /\ j.rev = r /\ j.old = LeaseOf(holder)
        /\ j.inside = NoChannel
    BY <2>1, <2>2 DEF IdleTask
  <2>5. j \in ChannelTasks
    BY <2>1, <2>2, <2>3 DEF ChannelTasks, ChannelStages, AnyChannel
  <2> QED BY <2>1, <2>3, <2>4, <2>5
<1>5. setup[r] \in Setups
  BY <1>2 DEF ChannelTypes, SetupTypes
<1> HIDE DEF j, admitted, r, seen, allow, stage
<1>6. /\ SetupTypes' /\ setup'[r].phase = "installing"
      /\ setup'[r].deferred = setup[r].deferred
      /\ \A rev \in Revisions : rev # r => setup'[rev] = setup[rev]
  BY <1>1, <1>2, <1>3, <1>5 DEF ChannelTypes, SetupTypes, Setups, Phases
<1>7. holder.channel # NoChannel => holder.channel \in Channels
  BY <1>2 DEF Holders, AnyChannel
<1>8. WorkOK(t, j)
  BY <1>4, <1>7 DEF WorkOK, Workers
<1>9. TaskTypes' /\ AtWork' /\ job'[t] = j /\ OthersGoOn(t)
  BY <1>1, <1>2, <1>4, <1>8, TaskMoves, TaskSet DEF ChannelTypes, OthersGoOn
<1>10. RevisionsLeft'
  <2>1. /\ spare' \in [incoming : 0..MaxIncoming, messages : Nat, routes : Nat]
        /\ spare'.incoming = spare.incoming - 1 /\ spare.incoming \in 0..MaxIncoming
    BY <1>1, RevisionNumbers DEF ChannelTypes, RevisionsLeft
  <2>2. holder.revision <= 2 * (MaxIncoming - spare.incoming)
    BY <2>1, HolderNumbers, RevisionNumbers DEF ChannelTypes, RevisionsLeft, Occupancy
  <2>3. holder'.revision + 1 <= 2 * (MaxIncoming - spare'.incoming)
    BY <1>1, <1>3, <2>1, <2>2, HolderNumbers, RevisionNumbers DEF r
  <2>4. holder'.channel # NoChannel
    BY <1>1, <1>3, RevisionNumbers
  <2> QED BY <2>1, <2>3, <2>4 DEF RevisionsLeft, Occupancy
<1>11. ChannelTypes'
  BY <1>1, <1>3, <1>6, <1>9, <1>10 DEF ChannelTypes, HolderTypes, RecordTypes, HeardTypes,
     RouteTypes
<1> QED BY <1>1, <1>2, <1>3, <1>4, <1>6, <1>9, <1>11 DEF r

LEMMA IncomingKeeps ==
  ASSUME ChannelInv, NEW ch \in Channels, Incoming(ch)
  PROVE  ChannelInv'
<1> DEFINE t == "installer"
<1>0. PICK r : r = holder.revision + 1
  OBVIOUS
<1>1. CASE holder.state = "gone"
  BY <1>1, IncomingLate, QuietKeeps DEF ChannelInv, ChannelThreads
<1>2. CASE holder.state # "gone"
  <2>1. ChannelTypes /\ ChannelTypes' /\ t \in ChannelThreads /\ t \in Workers
    BY <1>2, IncomingDoes DEF ChannelInv, ChannelThreads, Workers
  <2>2. /\ OthersGoOn(t) /\ holder'.revision = r /\ holder'.channel = ch
        /\ ~holder'.opened /\ r \in Revisions
        /\ job'[t].at \in {"check", "purge"} /\ job'[t].ch = ch /\ job'[t].rev = r
        /\ chan' = chan /\ heard' = heard /\ setup'[r].phase = "installing"
        /\ setup'[r].deferred = setup[r].deferred
        /\ \A rev \in Revisions : rev # r => setup'[rev] = setup[rev]
    BY <1>0, <1>2, <2>1, IncomingDoes
  <2>3. /\ holder.revision \in Nat /\ r \in Nat /\ r > holder.revision
        /\ \A rev \in Revisions : rev \in Nat
        /\ \A u \in ChannelThreads : job[u].rev \in Nat /\ job[u].rev <= holder.revision
    BY <1>0, <2>1, HolderNumbers DEF ChannelInv, RevisionsOwned, Bears
  <2>4. RevisionsOwned'
    <3>1. Bears(job[t].rev, job[t].ch)'
      BY <2>2, <2>3 DEF Bears
    <3> QED BY <2>1, <2>2, <2>3, <3>1, OwnedKept, RecordsSame DEF ChannelInv, ChannelTypes
  <2>5. PhasesInOrder'
    <3>1. ASSUME NEW rev \in Revisions
          PROVE  /\ setup'[rev].phase \in {"active", "cancelled"} => setup'[rev].deferred = <<>>
                 /\ rev > holder'.revision => setup'[rev].phase = "cancelled"
      <4>1. CASE rev = r
        BY <2>2, <2>3, <4>1
      <4>2. CASE rev # r
        BY <2>2, <2>3, <4>2 DEF ChannelInv, PhasesInOrder
      <4> QED BY <4>1, <4>2
    <3>2. job'["callback"] = job["callback"] /\ "callback" \in ChannelThreads
      BY <2>2 DEF OthersGoOn, ChannelThreads
    <3>3. job["callback"].rev \in Revisions /\ job["callback"].rev # r
      BY <2>1, <2>3, <3>2 DEF ChannelTypes, TaskTypes, ChannelTasks
    <3>4. job'["callback"].at \in Telling => setup'[job'["callback"].rev].phase = "active"
      BY <2>2, <3>2, <3>3 DEF ChannelInv, PhasesInOrder
    <3> QED BY <2>2, <3>1, <3>4 DEF PhasesInOrder, WhileDraining
  <2>6. HeardInv'
    BY <2>1, <2>2, <2>3, HeardKept DEF ChannelInv
  <2>7. RecordsOK' /\ Top(ch)' = Top(ch)
    BY <2>1, <2>2, RecordsOKKept DEF ChannelInv
  <2>8. FlowOK'
    <3>1. setup[r].deferred = <<>> /\ heard[r].messages = <<>>
      BY <2>2, <2>3 DEF ChannelInv, PhasesInOrder, HeardInv
    <3>2. ASSUME NEW u \in Workers PROVE ~(job'[u].at \in {"run", "tell"} /\ job'[u].rev = r)
      <4>1. CASE u = t
        BY <2>2, <4>1
      <4>2. CASE u # t
        BY <2>1, <2>2, <2>3, <4>2, HolderNumbers DEF OthersGoOn
      <4> QED BY <4>1, <4>2
    <3>3. PICK lo \in 2..(Top(ch) + 1) : Carries(chan[ch].events, lo, Top(ch))
      BY DEF ChannelInv, RecordsOK
    <3>4. Top(ch) \in Int
      BY <2>1 DEF ChannelTypes, RecordTypes, ChannelRecords, Top
    <3>5. /\ lo - 1 \in 1..Top(ch) /\ lo \in 2..((lo - 1) + 1) /\ (lo - 1) + 1 = lo
          /\ lo \in Nat /\ lo - 1 \in Nat /\ lo - 1 < lo /\ ~(lo <= lo - 1)
      BY <3>3, <3>4
    <3>6. Carries(<<>>, lo, lo - 1)
      BY <3>5, CarriesEmpty
    <3>7. Flowing(r, ch, lo, lo - 1)'
      BY <2>2, <2>7, <3>1, <3>2, <3>3, <3>5, <3>6 DEF Flowing, HasToTell
    <3> QED BY <2>2, <2>7, <3>1, <3>2, <3>5, <3>7 DEF FlowOK, HasToTell
  <2> QED BY <2>1, <2>4, <2>5, <2>6, <2>7, <2>8 DEF ChannelInv
<1> QED BY <1>1, <1>2

(***************************************************************************)
(* The installation of the callbacks.                                      *)
(***************************************************************************)
\* InTheInstall the hooks, given up: the lease was lost.
LEMMA InstallGivenUp ==
  ASSUME ChannelTypes, NEW stage \in {"cancel", "cancelClosed"},
         job["installer"].at = "install", GoTo("installer", stage),
         mutation' \in ChannelThreads \cup {Nobody},
         UNCHANGED <<holder, chan, setup, route, heard, spare>>
  PROVE  ChannelTypes' /\ Quiet("installer")
<1> DEFINE t == "installer"
           j == [job[t] EXCEPT !.at = stage]
<1>1. t \in ChannelThreads
  BY DEF ChannelThreads
<1>2. j \in ChannelTasks /\ Go(t, j) /\ WorkOK(t, j) /\ Continues(t, j)
  BY <1>1, StageGoesOn
  DEF ChannelStages, HasNoMessage, BeforeDrain, WhileDraining, Workers
<1> HIDE DEF j
<1> QED BY <1>1, <1>2, QuietStep

LEMMA InstallChannelHookDoes ==
  ASSUME ChannelTypes, InstallChannelHook
  PROVE  /\ ChannelTypes'
         /\ \/ Quiet("installer")
            \/ /\ UNCHANGED <<holder, setup, job, heard>>
               /\ job["installer"].ch = holder.channel
               /\ job["installer"].rev = holder.revision
               /\ \A ch \in Channels :
                    /\ chan'[ch].state = chan[ch].state /\ chan'[ch].sent = chan[ch].sent
                    /\ chan'[ch].events = chan[ch].events
                    /\ \A k \in HookKinds :
                         \/ chan'[ch].hooks[k] = chan[ch].hooks[k]
                         \/ /\ ch = holder.channel
                            /\ chan'[ch].hooks[k] = holder.revision
<1> DEFINE t == "installer"
           hook == NextHook(job[t].ch, job[t].rev)
<1>1. /\ t \in ChannelThreads /\ job[t].at = "install" /\ hook # "done"
      /\ UNCHANGED <<holder, setup, route, heard, spare>>
      /\ \/ /\ LeaseIsCurrent(job[t].ch, job[t].rev, job[t].allow)
            /\ mutation' = "installer" /\ job' = job
            /\ chan' = [chan EXCEPT ![job[t].ch].hooks[hook] = job[t].rev]
         \/ mutation' = Nobody /\ GoTo(t, "cancel") /\ chan' = chan
  BY DEF InstallChannelHook, At, ChannelThreads
<1>2. hook \in HookKinds
  BY <1>1 DEF NextHook, HookKinds
<1>3. mutation' \in ChannelThreads \cup {Nobody}
  BY <1>1
<1>4. CASE GoTo(t, "cancel") /\ chan' = chan
  BY <1>1, <1>3, <1>4, InstallGivenUp
<1>5. CASE /\ LeaseIsCurrent(job[t].ch, job[t].rev, job[t].allow) /\ job' = job
           /\ chan' = [chan EXCEPT ![job[t].ch].hooks[hook] = job[t].rev]
  <2>1. /\ job[t].ch \in Channels /\ job[t].rev \in Revisions
        /\ holder.channel = job[t].ch /\ holder.revision = job[t].rev
    BY <1>1, <1>5 DEF ChannelTypes, AtWork, WorkOK, Workers, TaskTypes, ChannelTasks,
       LeaseIsCurrent
  <2> HIDE DEF hook
  <2>2. RecordTypes'
    BY <1>2, <1>5, <2>1 DEF ChannelTypes, RecordTypes, ChannelRecords
  <2>3. \A ch \in Channels :
          /\ chan'[ch].state = chan[ch].state /\ chan'[ch].sent = chan[ch].sent
          /\ chan'[ch].events = chan[ch].events
          /\ \A k \in HookKinds :
               \/ chan'[ch].hooks[k] = chan[ch].hooks[k]
               \/ ch = holder.channel /\ chan'[ch].hooks[k] = holder.revision
    BY <1>2, <1>5, <2>1 DEF ChannelTypes, RecordTypes, ChannelRecords
  <2>4. RevisionsLeft'
    BY <1>1, SpareKept DEF ChannelTypes
  <2>5. ChannelTypes'
    BY <1>1, <1>3, <1>5, <2>2, <2>4 DEF ChannelTypes, HolderTypes, SetupTypes, TaskTypes,
       HeardTypes, RouteTypes, AtWork
  <2> QED BY <1>1, <1>5, <2>1, <2>3, <2>5
<1> QED BY <1>1, <1>4, <1>5

LEMMA InstallChannelHookKeeps ==
  ASSUME ChannelInv, InstallChannelHook
  PROVE  ChannelInv'
<1>1. CASE Quiet("installer")
  BY <1>1, InstallChannelHookDoes, QuietKeeps DEF ChannelInv, ChannelThreads
<1>2. CASE /\ UNCHANGED <<holder, setup, job, heard>>
           /\ \A ch \in Channels :
                /\ chan'[ch].state = chan[ch].state /\ chan'[ch].sent = chan[ch].sent
                /\ chan'[ch].events = chan[ch].events
                /\ \A k \in HookKinds :
                     \/ chan'[ch].hooks[k] = chan[ch].hooks[k]
                     \/ ch = holder.channel /\ chan'[ch].hooks[k] = holder.revision
  <2>1. ChannelTypes /\ ChannelTypes'
    BY InstallChannelHookDoes DEF ChannelInv
  <2>2. holder.revision \in Nat
    BY <2>1, HolderNumbers
  <2>3. RevisionsOwned'
    <3>1. \A rev, ch : Bears(rev, ch) => Bears(rev, ch)'
      BY <1>2 DEF Bears
    <3>2. \A u \in ChannelThreads : Bears(job[u].rev, job[u].ch)'
      BY <1>2 DEF ChannelInv, RevisionsOwned, Bears
    <3>3. ASSUME NEW ch \in Channels, NEW k \in HookKinds
          PROVE  Bears(chan[ch].hooks[k], ch)'
      <4>1. CASE chan'[ch].hooks[k] = chan[ch].hooks[k]
        BY <1>2, <4>1 DEF ChannelInv, RevisionsOwned, Bears
      <4>2. CASE ch = holder.channel /\ chan'[ch].hooks[k] = holder.revision
        BY <1>2, <2>2, <4>2 DEF Bears
      <4> QED BY <1>2, <4>1, <4>2
    <3>4. holder'.channel # NoChannel => holder'.revision # 0
      BY <1>2 DEF ChannelInv, RevisionsOwned
    <3> QED BY <3>2, <3>3, <3>4 DEF RevisionsOwned
  <2>4. PhasesInOrder' /\ HeardInv'
    <3>1. PhasesInOrder'
      BY <1>2 DEF ChannelInv, PhasesInOrder
    <3>2. HeardInv'
      BY <1>2, <2>1, HeardKept DEF ChannelInv
    <3> QED BY <3>1, <3>2
  <2>5. RecordsOK'
    BY <1>2, <2>1, RecordsOKKept DEF ChannelInv
  <2>6. FlowOK'
    <3>1. \A u \in Workers : /\ HasToTell(u, holder.revision)' <=> HasToTell(u, holder.revision)
                             /\ job'[u].n = job[u].n
      BY <1>2 DEF HasToTell
    <3>2. holder.channel # NoChannel => holder.channel \in Channels
      BY <2>1, HolderNumbers
    <3> QED BY <1>2, <2>1, <3>1, <3>2, FlowKept DEF ChannelInv, HookKinds
  <2> QED BY <2>1, <2>3, <2>4, <2>5, <2>6 DEF ChannelInv
<1> QED BY <1>1, <1>2, InstallChannelHookDoes DEF ChannelInv

\* The installation of the installer's revision comes to another phase, or some
\* of what it held back is taken.
SetupMoves(rev) ==
  /\ rev = job["installer"].rev
  /\ job["installer"].at \in BeforeDrain \cup WhileDraining
  /\ OthersGoOn("installer") /\ BearsAsBefore("installer")
  /\ holder' = holder /\ chan' = chan /\ heard' = heard
  /\ \A r \in Revisions : r # rev => setup'[r] = setup[r]
  /\ setup'[rev].phase \in {"active", "cancelled"} => setup'[rev].deferred = <<>>
  /\ job'["installer"].at \in BeforeDrain =>
       job'["installer"].rev = rev /\ setup'[rev].phase = "installing"
  /\ job'["installer"].at \in WhileDraining =>
       job'["installer"].rev = rev /\ setup'[rev].phase \in {"draining", "cancelled"}

LEMMA SetupMovesKeep ==
  ASSUME ChannelInv, ChannelTypes', NEW rev \in Revisions, SetupMoves(rev),
         rev = holder.revision => FlowOK'
  PROVE  ChannelInv'
<1> DEFINE t == "installer"
<1>1. /\ rev = job[t].rev /\ OthersGoOn(t) /\ BearsAsBefore(t)
      /\ holder' = holder /\ chan' = chan /\ heard' = heard
      /\ job[t].at \in BeforeDrain \cup WhileDraining
      /\ ChannelTypes /\ t \in ChannelThreads /\ "callback" \in ChannelThreads
      /\ \A r \in Revisions : r # rev => setup'[r] = setup[r]
  BY DEF SetupMoves, ChannelInv, ChannelThreads
<1>2. /\ holder.revision \in Revisions /\ \A r \in Revisions : r \in Nat
      /\ rev <= holder.revision
      /\ setup[rev].phase \in {"installing", "draining", "cancelled"}
  BY <1>1, HolderNumbers DEF ChannelInv, RevisionsOwned, Bears, PhasesInOrder
<1>3. RevisionsOwned'
  BY <1>1, OwnedKept, RecordsSame DEF ChannelInv, ChannelTypes
<1>4. PhasesInOrder'
  <2>1. ASSUME NEW r \in Revisions
        PROVE  /\ setup'[r].phase \in {"active", "cancelled"} => setup'[r].deferred = <<>>
               /\ r > holder'.revision => setup'[r].phase = "cancelled"
    <3>1. CASE r = rev
      BY <1>1, <1>2, <3>1 DEF SetupMoves
    <3>2. CASE r # rev
      BY <1>1, <3>2 DEF ChannelInv, PhasesInOrder
    <3> QED BY <3>1, <3>2
  <2>2. job["callback"].at \in Telling => job["callback"].rev # rev
    BY <1>2 DEF ChannelInv, PhasesInOrder
  <2>3. job'["callback"].at \in Telling => setup'[job'["callback"].rev].phase = "active"
    BY <1>1, <2>2 DEF ChannelInv, PhasesInOrder, OthersGoOn, ChannelTypes, TaskTypes,
       ChannelTasks
  <2> QED BY <2>1, <2>3 DEF PhasesInOrder, SetupMoves
<1>5. HeardInv' /\ RecordsOK'
  BY <1>1, HeardKept, RecordsOKKept DEF ChannelInv
<1>6. FlowOK'
  <2>1. CASE rev # holder.revision
    <3>1. \A u \in Workers : /\ HasToTell(u, holder.revision)' <=> HasToTell(u, holder.revision)
                             /\ HasToTell(u, holder.revision) => job'[u].n = job[u].n
      <4> TAKE u \in Workers
      <4>1. CASE u = t
        <5>1. job[t].rev # holder.revision
          BY <1>1, <2>1
        <5>2. job'[t].at \in {"run", "tell"} => job'[t].rev = rev
          BY DEF SetupMoves, WhileDraining
        <5> QED BY <1>1, <2>1, <4>1, <5>1, <5>2 DEF HasToTell
      <4>2. CASE u # t
        BY <1>1, <4>2, HolderNumbers DEF OthersGoOn, HasToTell
      <4> QED BY <4>1, <4>2
    <3> QED BY <1>1, <1>2, <2>1, <3>1, FlowKept DEF ChannelInv
  <2> QED BY <2>1
<1> QED BY <1>3, <1>4, <1>5, <1>6 DEF ChannelInv

LEMMA InstalledKeeps ==
  ASSUME ChannelInv, Installed
  PROVE  ChannelInv'
<1> DEFINE t == "installer"
           queue == setup[job[t].rev].deferred
           first == <<[kind |-> "open", n |-> 0]>> \o queue
<1>0. PICK rev : rev = job[t].rev
  OBVIOUS
<1>1. /\ t \in ChannelThreads /\ job[t].at = "install" /\ mutation' = Nobody
      /\ UNCHANGED <<holder, chan, route, heard, spare>>
      /\ \/ /\ \E q \in {queue, first} :
                 setup' = [setup EXCEPT ![job[t].rev] =
                             [phase |-> "draining", deferred |-> q]]
            /\ GoTo(t, "drain")
         \/ /\ setup' = setup
            /\ \E stage \in {"cancel", "cancelClosed"} : GoTo(t, stage)
  BY DEF Installed, At, ChannelThreads
<1>2. CASE setup' = setup /\ \E stage \in {"cancel", "cancelClosed"} : GoTo(t, stage)
  BY <1>1, <1>2, InstallGivenUp, QuietKeeps DEF ChannelInv
<1>3. ASSUME NEW q \in {queue, first}, GoTo(t, "drain"),
             setup' = [setup EXCEPT ![rev] = [phase |-> "draining", deferred |-> q]]
      PROVE  ChannelInv'
  <2> DEFINE j == [job[t] EXCEPT !.at = "drain"]
  <2>1. /\ ChannelTypes /\ job[t] \in ChannelTasks /\ rev \in Revisions
        /\ setup[rev] \in Setups /\ queue \in Seq(ChannelEvents)
    BY <1>0, <1>1 DEF ChannelInv, ChannelTypes, TaskTypes, ChannelTasks, SetupTypes, Setups
  <2>2. \A lo, hi \in Nat : Carries(queue, lo, hi) => Carries(q, lo, hi)
    BY <2>1, CarriesPrepend DEF ChannelEvents, HookKinds
  <2>3. q \in Seq(ChannelEvents)
    <3>1. [kind |-> "open", n |-> 0] \in ChannelEvents
      BY DEF ChannelEvents, HookKinds
    <3>2. <<[kind |-> "open", n |-> 0]>> \in Seq(ChannelEvents)
      BY <3>1
    <3>3. first \in Seq(ChannelEvents)
      BY <2>1, <3>2, ConcatProperties
    <3> QED BY <2>1, <3>3
  <2> HIDE DEF queue, first
  <2>4. /\ SetupTypes' /\ setup'[rev].phase = "draining" /\ setup'[rev].deferred = q
        /\ \A r \in Revisions : r # rev => setup'[r] = setup[r]
    BY <1>3, <2>1, <2>3 DEF ChannelTypes, SetupTypes, Setups, Phases
  <2>5. /\ j \in ChannelTasks /\ Go(t, j) /\ j.at = "drain" /\ j.rev = rev
        /\ j.ch = job[t].ch /\ j.inside = job[t].inside
    <3>1. "drain" \in ChannelStages
      BY DEF ChannelStages
    <3>2. j \in ChannelTasks /\ Go(t, j)
      BY <1>1, <1>3, <2>1, <3>1, StageSet DEF ChannelTypes
    <3>3. j.at = "drain" /\ j.rev = rev /\ j.ch = job[t].ch /\ j.inside = job[t].inside
      BY <1>0, <2>1 DEF ChannelTasks
    <3> QED BY <3>2, <3>3
  <2> HIDE DEF j
  <2>6. WorkOK(t, j)
    BY <1>1, <2>1, <2>5 DEF WorkOK, Workers, ChannelTypes, AtWork
  <2>7. TaskTypes' /\ AtWork' /\ job'[t] = j /\ OthersGoOn(t)
    BY <1>1, <2>1, <2>5, <2>6, TaskMoves, TaskSet DEF ChannelTypes, OthersGoOn
  <2>8. ChannelTypes'
    BY <1>1, <2>1, <2>4, <2>7, SpareKept DEF ChannelTypes, HolderTypes, RecordTypes,
       HeardTypes, RouteTypes
  <2>9. SetupMoves(rev)
    BY <1>0, <1>1, <2>4, <2>5, <2>7 DEF SetupMoves, BearsAsBefore, BeforeDrain, WhileDraining
  <2>10. setup[rev].phase = "installing" /\ queue = setup[rev].deferred
    BY <1>0, <1>1 DEF ChannelInv, PhasesInOrder, BeforeDrain, queue
  <2>11. ASSUME rev = holder.revision PROVE FlowOK'
    <3>1. \A u \in Workers : /\ HasToTell(u, rev)' <=> HasToTell(u, rev)
                             /\ HasToTell(u, rev) => job'[u].n = job[u].n
      <4> TAKE u \in Workers
      <4>1. CASE u = t
        BY <1>1, <2>5, <2>7, <4>1 DEF HasToTell
      <4>2. CASE u # t
        BY <2>1, <2>7, <4>2, HolderNumbers DEF OthersGoOn, HasToTell
      <4> QED BY <4>1, <4>2
    <3>2. ASSUME NEW ch \in Channels, ch = holder.channel, holder.state # "gone"
          PROVE  \E hi \in 1..Top(ch)' : \E lo \in 2..(hi + 1) : Flowing(rev, ch, lo, hi)'
      <4>1. ch # NoChannel /\ setup[rev].phase # "cancelled" /\ Top(ch)' = Top(ch)
        BY <1>1, <2>1, <2>10, <3>2, HolderNumbers DEF Top
      <4>2. PICK hi \in 1..Top(ch) : \E lo \in 2..(hi + 1) : Flowing(rev, ch, lo, hi)
        BY <2>11, <3>2, <4>1 DEF ChannelInv, FlowOK
      <4>3. PICK lo \in 2..(hi + 1) : Flowing(rev, ch, lo, hi)
        BY <4>2
      <4>4. lo \in Nat /\ hi \in Nat
        OBVIOUS
      <4>5. Carries(q, lo, hi)
        BY <2>2, <2>10, <4>3, <4>4 DEF Flowing
      <4>6. Flowing(rev, ch, lo, hi)'
        BY <1>1, <2>4, <3>1, <4>1, <4>3, <4>5 DEF Flowing
      <4> QED BY <4>1, <4>6
    <3>3. holder.channel # NoChannel => holder.channel \in Channels
      BY <2>1, HolderNumbers
    <3> QED BY <1>1, <2>4, <2>11, <3>2, <3>3 DEF FlowOK, Unheard
  <2> QED BY <2>1, <2>8, <2>9, <2>11, SetupMovesKeep
<1> QED BY <1>0, <1>1, <1>2, <1>3

LEMMA CancelKeeps ==
  ASSUME ChannelInv, Cancel
  PROVE  ChannelInv'
<1> DEFINE t == "installer"
           stage == IF job[t].at = "cancel" THEN "drain" ELSE "run"
           j == [job[t] EXCEPT !.at = stage, !.kind = "end"]
<1>0. PICK rev : rev = job[t].rev
  OBVIOUS
<1>1. /\ t \in ChannelThreads /\ job[t].at \in {"cancel", "cancelClosed"} /\ Go(t, j)
      /\ setup' = [setup EXCEPT ![rev] = [phase |-> "cancelled", deferred |-> <<>>]]
      /\ UNCHANGED <<holder, chan, mutation, route, heard, spare>>
  BY <1>0 DEF Cancel, ChannelThreads
<1>2. ChannelTypes /\ job[t] \in ChannelTasks /\ rev \in Revisions /\ setup[rev] \in Setups
  BY <1>0, <1>1 DEF ChannelInv, ChannelTypes, TaskTypes, ChannelTasks, SetupTypes
<1>3. /\ SetupTypes' /\ setup'[rev].phase = "cancelled" /\ setup'[rev].deferred = <<>>
      /\ \A r \in Revisions : r # rev => setup'[r] = setup[r]
  <2>1. [phase |-> "cancelled", deferred |-> <<>>] \in Setups
    BY DEF Setups, Phases
  <2> QED BY <1>1, <1>2, <2>1 DEF ChannelTypes, SetupTypes
<1>4. /\ j \in ChannelTasks /\ j.at \in {"drain", "run"} /\ j.kind = "end" /\ j.rev = rev
      /\ j.ch = job[t].ch /\ j.inside = job[t].inside
  BY <1>0, <1>2 DEF ChannelTasks, ChannelStages, HookKinds
<1> HIDE DEF j
<1>5. WorkOK(t, j)
  BY <1>1, <1>2, <1>4 DEF WorkOK, Workers, ChannelTypes, AtWork
<1>6. TaskTypes' /\ AtWork' /\ job'[t] = j /\ OthersGoOn(t)
  BY <1>1, <1>2, <1>4, <1>5, TaskMoves, TaskSet DEF ChannelTypes, OthersGoOn
<1>7. ChannelTypes'
  BY <1>1, <1>2, <1>3, <1>6, SpareKept DEF ChannelTypes, HolderTypes, RecordTypes,
     HeardTypes, RouteTypes
<1>8. SetupMoves(rev)
  BY <1>0, <1>1, <1>3, <1>4, <1>6 DEF SetupMoves, BearsAsBefore, BeforeDrain, WhileDraining
<1>9. setup[rev].phase = "installing"
  BY <1>0, <1>1 DEF ChannelInv, PhasesInOrder, BeforeDrain
<1>10. ASSUME rev = holder.revision PROVE FlowOK'
  <2>1. heard[rev].messages = <<>> /\ \A u \in Workers : ~HasToTell(u, rev)
    BY <1>9, <1>10 DEF ChannelInv, FlowOK, Unheard
  <2>2. \A u \in Workers : ~HasToTell(u, rev)'
    <3> TAKE u \in Workers
    <3>1. CASE u = t
      BY <1>4, <1>6, <3>1 DEF HasToTell
    <3>2. CASE u # t
      BY <1>2, <1>6, <2>1, <3>2, HolderNumbers DEF OthersGoOn, HasToTell
    <3> QED BY <3>1, <3>2
  <2> QED BY <1>1, <1>3, <1>10, <2>1, <2>2 DEF FlowOK, Unheard
<1> QED BY <1>2, <1>7, <1>8, <1>10, SetupMovesKeep

LEMMA DrainEventsKeeps ==
  ASSUME ChannelInv, DrainEvents
  PROVE  ChannelInv'
<1> DEFINE t == "installer"
           s == setup[job[t].rev]
<1>0. PICK rev : rev = job[t].rev
  OBVIOUS
<1>1. /\ t \in ChannelThreads /\ job[t].at = "drain" /\ ChannelTypes
      /\ UNCHANGED <<holder, chan, mutation, route, heard, spare>>
      /\ job[t] \in ChannelTasks /\ rev \in Revisions /\ setup[rev] \in Setups /\ s = setup[rev]
      /\ setup[rev].deferred \in Seq(ChannelEvents) /\ WorkOK(t, job[t])
      /\ setup[rev].phase \in {"draining", "cancelled"}
  BY <1>0 DEF DrainEvents, At, ChannelThreads, ChannelInv, ChannelTypes, TaskTypes,
     ChannelTasks, SetupTypes, Setups, AtWork, PhasesInOrder, WhileDraining
<1>2. mutation' \in ChannelThreads \cup {Nobody} /\ RevisionsLeft'
  BY <1>1, SpareKept DEF ChannelTypes, HolderTypes
<1>3. CASE GoTo(t, "clearNew") /\ setup' = setup
  <2> DEFINE j == [job[t] EXCEPT !.at = "clearNew"]
  <2>1. j \in ChannelTasks /\ Go(t, j) /\ WorkOK(t, j) /\ Continues(t, j)
    BY <1>1, <1>3, StageGoesOn
    DEF ChannelStages, HasNoMessage, BeforeDrain, WhileDraining, Workers
  <2> HIDE DEF j
  <2> QED BY <1>1, <1>2, <1>3, <2>1, QuietStep, QuietKeeps
<1>4. CASE /\ setup[rev].deferred = <<>> /\ setup[rev].phase # "cancelled"
           /\ setup' = [setup EXCEPT ![rev].phase = "active"] /\ Go(t, IdleTask)
  <2>1. /\ SetupTypes' /\ setup'[rev].phase = "active" /\ setup'[rev].deferred = <<>>
        /\ \A r \in Revisions : r # rev => setup'[r] = setup[r]
    BY <1>1, <1>4 DEF ChannelTypes, SetupTypes, Setups, Phases
  <2>2. TaskTypes' /\ AtWork' /\ job'[t] = IdleTask /\ OthersGoOn(t)
    BY <1>1, <1>4, TaskMoves, TaskSet, IdleTaskTyped, IdleWorks DEF ChannelTypes, OthersGoOn
  <2>3. ChannelTypes'
    BY <1>1, <1>2, <2>1, <2>2 DEF ChannelTypes, HolderTypes, RecordTypes, HeardTypes,
       RouteTypes
  <2>4. SetupMoves(rev)
    BY <1>0, <1>1, <2>1, <2>2 DEF SetupMoves, BearsAsBefore, BeforeDrain, WhileDraining,
       IdleTask
  <2>5. ASSUME rev = holder.revision PROVE FlowOK'
    <3>1. \A u \in Workers : HasToTell(u, rev)' <=> HasToTell(u, rev)
      <4> TAKE u \in Workers
      <4>1. CASE u = t
        BY <1>1, <2>2, <4>1 DEF HasToTell, IdleTask
      <4>2. CASE u # t
        BY <1>1, <2>2, <4>2, HolderNumbers DEF OthersGoOn, HasToTell
      <4> QED BY <4>1, <4>2
    <3>2. \A u \in Workers : HasToTell(u, rev) => job'[u].n = job[u].n
      <4> TAKE u \in Workers
      <4>1. CASE u = t
        BY <1>1, <4>1 DEF HasToTell
      <4>2. CASE u # t
        BY <1>1, <2>2, <4>2, HolderNumbers DEF OthersGoOn
      <4> QED BY <4>1, <4>2
    <3>3. ASSUME NEW ch \in Channels, ch = holder.channel, holder.state # "gone"
          PROVE  \E hi \in 1..Top(ch)' : \E lo \in 2..(hi + 1) : Flowing(rev, ch, lo, hi)'
      <4>1. ch # NoChannel /\ Top(ch)' = Top(ch)
        BY <1>1, HolderNumbers DEF Top
      <4>2. PICK hi \in 1..Top(ch) : \E lo \in 2..(hi + 1) : Flowing(rev, ch, lo, hi)
        BY <1>4, <2>5, <3>3, <4>1 DEF ChannelInv, FlowOK
      <4>3. PICK lo \in 2..(hi + 1) : Flowing(rev, ch, lo, hi)
        BY <4>2
      <4>4. Flowing(rev, ch, lo, hi)'
        BY <1>1, <1>4, <2>1, <3>1, <3>2, <4>1, <4>3 DEF Flowing
      <4> QED BY <4>1, <4>4
    <3>4. holder.channel # NoChannel => holder.channel \in Channels
      BY <1>1, HolderNumbers
    <3> QED BY <1>1, <2>1, <2>5, <3>3, <3>4 DEF FlowOK, Unheard
  <2> QED BY <1>1, <2>3, <2>4, <2>5, SetupMovesKeep
<1>5. CASE /\ setup[rev].deferred # <<>>
           /\ setup' = [setup EXCEPT ![rev].deferred = Tail(@)]
           /\ Go(t, [job[t] EXCEPT !.at = "run", !.kind = Head(setup[rev].deferred).kind,
                                   !.n = Head(setup[rev].deferred).n])
  <2> DEFINE q == setup[rev].deferred
             e == Head(q)
             j == [job[t] EXCEPT !.at = "run", !.kind = e.kind, !.n = e.n]
  <2>1. /\ e \in ChannelEvents /\ Tail(q) \in Seq(ChannelEvents) /\ e = q[1]
        /\ q \in Seq(ChannelEvents) /\ Without(Tail(q), q, 1)
    BY <1>1, <1>5, TailWithout
  <2>2. e.kind \in HookKinds /\ e.n \in Nat
    BY <2>1 DEF ChannelEvents
  <2>3. setup[rev].phase = "draining"
    BY <1>1, <1>5 DEF ChannelInv, PhasesInOrder
  <2>4. /\ SetupTypes' /\ setup'[rev].phase = "draining" /\ setup'[rev].deferred = Tail(q)
        /\ \A r \in Revisions : r # rev => setup'[r] = setup[r]
    <3>1. setup[rev].deferred = q
      OBVIOUS
    <3> HIDE DEF q, e, j
    <3>2. [setup[rev] EXCEPT !.deferred = Tail(q)] \in Setups
      BY <1>1, <2>1 DEF Setups
    <3>3. setup' = [setup EXCEPT ![rev] = [setup[rev] EXCEPT !.deferred = Tail(q)]]
      BY <1>1, <1>5, <3>1 DEF ChannelTypes, SetupTypes
    <3> QED BY <1>1, <2>3, <3>2, <3>3 DEF ChannelTypes, SetupTypes, Setups
  <2>5. /\ j \in ChannelTasks /\ Go(t, j) /\ j.at = "run" /\ j.kind = e.kind /\ j.n = e.n
        /\ j.rev = rev /\ j.ch = job[t].ch /\ j.inside = job[t].inside
    <3>1. Go(t, j)
      BY <1>5
    <3> HIDE DEF q, e
    <3> QED BY <1>0, <1>1, <2>2, <3>1 DEF ChannelTasks, ChannelStages
  <2> HIDE DEF q, e, j
  <2>6. WorkOK(t, j)
    BY <1>1, <2>5 DEF WorkOK, Workers
  <2>7. TaskTypes' /\ AtWork' /\ job'[t] = j /\ OthersGoOn(t)
    BY <1>1, <2>5, <2>6, TaskMoves, TaskSet DEF ChannelTypes, OthersGoOn
  <2>8. ChannelTypes'
    BY <1>1, <1>2, <2>4, <2>7 DEF ChannelTypes, HolderTypes, RecordTypes, HeardTypes,
       RouteTypes
  <2>9. SetupMoves(rev)
    BY <1>0, <1>1, <2>4, <2>5, <2>7 DEF SetupMoves, BearsAsBefore, BeforeDrain, WhileDraining
  <2>10. ASSUME rev = holder.revision PROVE FlowOK'
    <3>1. \A u \in Workers : ~HasToTell(u, rev)
      <4> TAKE u \in Workers
      <4>1. CASE u = t
        BY <1>1, <4>1 DEF HasToTell
      <4>2. CASE u = "callback"
        BY <2>3, <4>2 DEF ChannelInv, PhasesInOrder, Telling, HasToTell
      <4> QED BY <4>1, <4>2 DEF Workers
    <3>2. \A u \in Workers : HasToTell(u, rev)' <=> u = t /\ e.kind = "message"
      <4> TAKE u \in Workers
      <4>1. CASE u = t
        BY <2>5, <2>7, <4>1 DEF HasToTell
      <4>2. CASE u # t
        BY <1>1, <2>7, <3>1, <4>2, HolderNumbers DEF OthersGoOn, HasToTell
      <4> QED BY <4>1, <4>2
    <3>3. ASSUME NEW ch \in Channels, ch = holder.channel, holder.state # "gone"
          PROVE  \E hi \in 1..Top(ch)' : \E lo \in 2..(hi + 1) : Flowing(rev, ch, lo, hi)'
      <4>1. ch # NoChannel /\ Top(ch)' = Top(ch)
        BY <1>1, HolderNumbers DEF Top
      <4>2. PICK hi \in 1..Top(ch) : \E lo \in 2..(hi + 1) : Flowing(rev, ch, lo, hi)
        BY <2>3, <2>10, <3>3, <4>1 DEF ChannelInv, FlowOK
      <4>3. PICK lo \in 2..(hi + 1) : Flowing(rev, ch, lo, hi)
        BY <4>2
      <4>4. lo \in Nat /\ hi \in Nat /\ lo <= hi + 1 /\ Carries(q, lo, hi)
        BY <4>3 DEF Flowing, q
      <4>5. CASE e.kind # "message"
        <5>1. Carries(Tail(q), lo, hi)
          BY <2>1, <4>4, <4>5, CarriesWithout
        <5>2. Flowing(rev, ch, lo, hi)'
          BY <1>1, <2>4, <3>1, <3>2, <4>1, <4>3, <4>5, <5>1 DEF Flowing
        <5> QED BY <4>1, <5>2
      <4>6. CASE e.kind = "message"
        <5>1. e.n = lo /\ lo <= hi /\ Carries(Tail(q), lo + 1, hi)
          <6>1. \A k \in 1..(1 - 1) : q[k].kind # "message"
            OBVIOUS
          <6> QED BY <2>1, <4>4, <4>6, <6>1, CarriesWithout
        <5>2. lo + 1 \in 2..(hi + 1) /\ (lo + 1) - 1 = lo /\ (lo + 1) - 2 = lo - 1
          BY <4>4, <5>1
        <5>3. \A u \in Workers : HasToTell(u, rev)' => job'[u].n = (lo + 1) - 1
          BY <2>5, <2>7, <3>2, <5>1, <5>2
        <5>4. \E u \in Workers : HasToTell(u, rev)'
          BY <3>2, <4>6 DEF Workers
        <5>5. heard'[rev].messages # <<>> =>
                heard'[rev].messages[Len(heard'[rev].messages)] = (lo + 1) - 2
          BY <1>1, <3>1, <4>3, <5>2 DEF Flowing
        <5>6. chan'[ch].hooks["message"] \in {0, rev}
          BY <1>1, <4>3, <5>1 DEF Flowing
        <5>7. Flowing(rev, ch, lo + 1, hi)'
          BY <1>1, <2>4, <4>1, <4>3, <5>1, <5>3, <5>4, <5>5, <5>6 DEF Flowing
        <5> QED BY <4>1, <5>2, <5>7
      <4> QED BY <4>5, <4>6
    <3>4. holder.channel # NoChannel => holder.channel \in Channels
      BY <1>1, HolderNumbers
    <3> QED BY <1>1, <2>4, <2>10, <3>3, <3>4 DEF FlowOK, Unheard
  <2> QED BY <1>1, <2>8, <2>9, <2>10, SetupMovesKeep
<1> QED BY <1>0, <1>1, <1>3, <1>4, <1>5 DEF DrainEvents

(***************************************************************************)
(* RTC's events.                                                           *)
(***************************************************************************)
\* What happens to a channel: it opens, receives or closes.
Grows(ch, kind, state) ==
  \/ chan[ch].state = "new" /\ kind = "open" /\ state = "open"
  \/ chan[ch].state = "open" /\ kind = "message" /\ state = "open"
  \/ chan[ch].state = "open" /\ kind = "end" /\ state = "closed"

LEMMA HappensDoes ==
  ASSUME ChannelTypes, RecordsOK, NEW ch \in Channels, NEW kind \in HookKinds,
         NEW state \in {"open", "closed"}, Happens(ch, kind, state), Grows(ch, kind, state)
  PROVE  /\ ChannelTypes' /\ RecordsOK' /\ Top(ch)' >= Top(ch)
         /\ Top(ch) \in Nat /\ Top(ch)' \in Nat
         /\ \A c \in Channels : /\ chan'[c].hooks = chan[c].hooks
                                /\ c # ch => chan'[c] = chan[c]
         /\ \A lo \in 1..(Top(ch) + 1) :
              Carries(chan[ch].events, lo, Top(ch)) =>
                Carries(chan'[ch].events, lo, Top(ch)')
         /\ UNCHANGED <<holder, setup, job, mutation, route, heard, spare>>
<1> DEFINE e == [kind |-> kind, n |-> chan[ch].sent + 1]
<1>1. /\ UNCHANGED <<holder, setup, job, mutation, route, heard, spare>>
      /\ chan' = [chan EXCEPT ![ch].state = state, ![ch].sent = @ + 1,
                              ![ch].events = Append(@, e)]
  BY DEF Happens
<1>2. /\ chan[ch].sent \in Nat /\ chan[ch].events \in Seq(ChannelEvents)
      /\ chan[ch].state \in {"new", "open", "closed"} /\ chan[ch] \in ChannelRecords
  BY DEF ChannelTypes, RecordTypes, ChannelRecords
<1>3. e \in ChannelEvents /\ e.kind = kind /\ e.n = chan[ch].sent + 1
  BY <1>2 DEF ChannelEvents
<1> HIDE DEF e
<1>4. Append(chan[ch].events, e) \in Seq(ChannelEvents)
  BY <1>2, <1>3
<1>5. /\ chan'[ch].state = state /\ chan'[ch].sent = chan[ch].sent + 1
      /\ chan'[ch].events = Append(chan[ch].events, e)
      /\ chan'[ch].hooks = chan[ch].hooks
      /\ \A c \in Channels : c # ch => chan'[c] = chan[c]
  BY <1>1, <1>2 DEF ChannelTypes, RecordTypes, ChannelRecords
<1>6. RecordTypes'
  BY <1>1, <1>2, <1>4 DEF ChannelTypes, RecordTypes, ChannelRecords
<1>7. ChannelTypes'
  BY <1>1, <1>6, SpareKept DEF ChannelTypes, HolderTypes, SetupTypes, TaskTypes,
     HeardTypes, RouteTypes, AtWork
<1>8. /\ chan[ch].state = "new" <=> chan[ch].sent = 0
      /\ \E lo \in 2..(Top(ch) + 1) : Carries(chan[ch].events, lo, Top(ch))
  BY DEF RecordsOK
<1>9. /\ Top(ch) \in Nat /\ Top(ch)' \in Nat /\ Top(ch)' >= Top(ch)
      /\ \/ kind # "message" /\ Top(ch)' = Top(ch)
         \/ kind = "message" /\ Top(ch)' = Top(ch) + 1 /\ e.n = Top(ch) + 1
      /\ state = "closed" => chan'[ch].sent >= 2
  <2>1. Top(ch) = CASE chan[ch].state = "new" -> 1
                    [] chan[ch].state = "open" -> chan[ch].sent
                    [] OTHER -> chan[ch].sent - 1
    BY DEF Top
  <2>2. Top(ch)' = IF state = "open" THEN chan[ch].sent + 1 ELSE chan[ch].sent
    BY <1>2, <1>5 DEF Top
  <2>3. CASE chan[ch].state = "new" /\ kind = "open" /\ state = "open"
    BY <1>2, <1>8, <2>1, <2>2, <2>3
  <2>4. CASE chan[ch].state = "open" /\ kind = "message" /\ state = "open"
    BY <1>2, <1>3, <1>8, <2>1, <2>2, <2>4
  <2>5. CASE chan[ch].state = "open" /\ kind = "end" /\ state = "closed"
    BY <1>2, <1>5, <1>8, <2>1, <2>2, <2>5
  <2> QED BY <2>3, <2>4, <2>5 DEF Grows
<1>10. ASSUME NEW lo \in 1..(Top(ch) + 1), Carries(chan[ch].events, lo, Top(ch))
       PROVE  Carries(chan'[ch].events, lo, Top(ch)')
  <2>1. lo \in Nat /\ lo <= Top(ch) + 1
    BY <1>9
  <2> QED BY <1>2, <1>3, <1>5, <1>9, <1>10, <2>1, CarriesAppend
<1>11. RecordsOK'
  <2>1. ASSUME NEW c \in Channels
        PROVE  /\ chan'[c].state = "new" <=> chan'[c].sent = 0
               /\ chan'[c].state = "closed" => chan'[c].sent >= 2
               /\ \E lo \in 2..(Top(c)' + 1) : Carries(chan'[c].events, lo, Top(c)')
    <3>1. CASE c # ch
      <4>1. Top(c)' = Top(c)
        BY <1>5, <3>1 DEF Top
      <4> QED BY <1>5, <3>1, <4>1 DEF RecordsOK
    <3>2. CASE c = ch
      <4>1. PICK lo \in 2..(Top(ch) + 1) : Carries(chan[ch].events, lo, Top(ch))
        BY <1>8
      <4>2. lo \in 1..(Top(ch) + 1) /\ lo \in 2..(Top(ch)' + 1)
        BY <1>9
      <4>3. Carries(chan'[ch].events, lo, Top(ch)')
        BY <1>10, <4>1, <4>2
      <4>4. /\ chan'[c].state = "new" <=> chan'[c].sent = 0
            /\ chan'[c].state = "closed" => chan'[c].sent >= 2
        BY <1>2, <1>5, <1>9, <3>2
      <4> QED BY <3>2, <4>2, <4>3, <4>4
    <3> QED BY <3>1, <3>2
  <2> QED BY <2>1 DEF RecordsOK
<1> QED BY <1>1, <1>5, <1>7, <1>9, <1>10, <1>11

LEMMA HappensKeeps ==
  ASSUME ChannelInv, NEW ch \in Channels, NEW kind \in HookKinds,
         NEW state \in {"open", "closed"}, Happens(ch, kind, state), Grows(ch, kind, state)
  PROVE  ChannelInv'
<1>1. /\ ChannelTypes /\ RecordsOK /\ ChannelTypes' /\ RecordsOK'
      /\ Top(ch) \in Nat /\ Top(ch)' \in Nat /\ Top(ch)' >= Top(ch)
      /\ \A c \in Channels : /\ chan'[c].hooks = chan[c].hooks
                             /\ c # ch => chan'[c] = chan[c]
      /\ \A lo \in 1..(Top(ch) + 1) :
           Carries(chan[ch].events, lo, Top(ch)) => Carries(chan'[ch].events, lo, Top(ch)')
      /\ UNCHANGED <<holder, setup, job, mutation, route, heard, spare>>
  BY HappensDoes DEF ChannelInv
<1>2. RevisionsOwned' /\ PhasesInOrder'
  BY <1>1 DEF ChannelInv, RevisionsOwned, Bears, PhasesInOrder
<1>3. HeardInv'
  BY <1>1, HeardKept DEF ChannelInv
<1>4. \A u \in Workers : /\ HasToTell(u, holder.revision)' <=> HasToTell(u, holder.revision)
                         /\ job'[u].n = job[u].n
  BY <1>1 DEF HasToTell
<1>5. FlowOK'
  <2>1. CASE holder.channel # ch
    <3>1. holder.channel # NoChannel => chan'[holder.channel] = chan[holder.channel]
      BY <1>1, <2>1, HolderNumbers
    <3> QED BY <1>1, <1>4, <3>1, FlowKept DEF ChannelInv
  <2>2. CASE holder.channel = ch
    <3> DEFINE rev == holder.revision
    <3>1. setup'[rev].phase \in Unheard =>
            heard'[rev].messages = <<>> /\ \A u \in Workers : ~(HasToTell(u, rev))'
      BY <1>1, <1>4 DEF ChannelInv, FlowOK
    <3>2. ASSUME holder'.state # "gone", setup'[rev].phase # "cancelled"
          PROVE  \E hi \in 1..Top(ch)' : \E lo \in 2..(hi + 1) : Flowing(rev, ch, lo, hi)'
      <4>1. ch # NoChannel
        BY <1>1, HolderNumbers
      <4>2. \E hi \in 1..Top(ch) : \E lo \in 2..(hi + 1) : Flowing(rev, ch, lo, hi)
        BY <1>1, <2>2, <3>2, <4>1 DEF ChannelInv, FlowOK
      <4>3. PICK hi \in 1..Top(ch) : \E lo \in 2..(hi + 1) : Flowing(rev, ch, lo, hi)
        BY <4>2
      <4>4. PICK lo \in 2..(hi + 1) : Flowing(rev, ch, lo, hi)
        BY <4>3
      <4>5. hi \in 1..Top(ch)' /\ hi + 1 \in 1..(Top(ch) + 1)
        BY <1>1
      <4>6. Carries(chan'[ch].events, hi + 1, Top(ch)')
        BY <1>1, <4>4, <4>5 DEF Flowing
      <4>7. Flowing(rev, ch, lo, hi)'
        BY <1>1, <1>4, <4>4, <4>6 DEF Flowing
      <4> QED BY <4>5, <4>7
    <3> QED BY <1>1, <2>2, <3>1, <3>2 DEF FlowOK
  <2> QED BY <2>1, <2>2
<1> QED BY <1>1, <1>2, <1>3, <1>5 DEF ChannelInv

LEMMA TransportKeeps ==
  ASSUME ChannelInv, NEW ch \in Channels,
         TransportOpens(ch) \/ MessageArrives(ch) \/ TransportCloses(ch)
  PROVE  ChannelInv'
<1>1. CASE TransportOpens(ch)
  BY <1>1, HappensKeeps DEF TransportOpens, Grows, HookKinds
<1>2. CASE MessageArrives(ch)
  BY <1>2, HappensKeeps DEF MessageArrives, Grows, HookKinds
<1>3. CASE TransportCloses(ch)
  BY <1>3, HappensKeeps DEF TransportCloses, Grows, HookKinds
<1> QED BY <1>1, <1>2, <1>3

(***************************************************************************)
(* What the application is told.                                           *)
(***************************************************************************)
\* The work of a worker ends with the event.
LEMMA EventEnds ==
  ASSUME ChannelInv, NEW t \in Workers, job[t].at \in Telling, Go(t, AfterEvent(t))
  PROVE  /\ t \in ChannelThreads /\ TaskTypes' /\ AtWork' /\ OthersGoOn(t)
         /\ StageKept(t) /\ BearsAsBefore(t) /\ job'[t].at \in {"drain", "drained"}
         /\ job'[t].rev = job[t].rev /\ job'[t].ch = job[t].ch
<1> DEFINE j == AfterEvent(t)
<1>1. t \in ChannelThreads /\ TaskTypes /\ AtWork
  BY DEF Workers, ChannelThreads, ChannelInv, ChannelTypes
<1>2. /\ j \in ChannelTasks /\ j.at = IF t = "installer" THEN "drain" ELSE "drained"
      /\ j.rev = job[t].rev /\ j.ch = job[t].ch
  BY <1>1, AfterEventTyped DEF Workers
<1>3. WorkOK(t, j)
  BY <1>1, AfterEventWorks DEF Telling
<1> HIDE DEF j
<1>4. Go(t, j)
  BY DEF j
<1>5. TaskTypes' /\ AtWork' /\ job'[t] = j /\ OthersGoOn(t)
  BY <1>1, <1>2, <1>3, <1>4, TaskMoves, TaskSet DEF OthersGoOn
<1>6. StageKept(t) /\ BearsAsBefore(t)
  BY <1>2, <1>5 DEF StageKept, BearsAsBefore, BeforeDrain, WhileDraining, Telling
<1> QED BY <1>1, <1>2, <1>5, <1>6

\* Only one thread has a message of a revision in hand.
LEMMA OneTells ==
  ASSUME ChannelInv, NEW t \in Workers, job[t].at \in Telling, NEW u \in Workers, u # t
  PROVE  ~HasToTell(u, job[t].rev)
<1>1. CASE t = "installer" /\ u = "callback"
  BY <1>1 DEF ChannelInv, PhasesInOrder, HasToTell, Telling, WhileDraining
<1>2. CASE t = "callback" /\ u = "installer"
  BY <1>2 DEF ChannelInv, PhasesInOrder, HasToTell, Telling, WhileDraining
<1> QED BY <1>1, <1>2 DEF Workers

\* A message that is not told any more: its lease went, or the channel has not
\* opened and nothing was told before.
LEMMA DroppedKeeps ==
  ASSUME ChannelInv, NEW t \in Workers, job[t].at \in {"run", "tell"},
         job[t].kind = "message", ~OpenLease(job[t].ch, job[t].rev), Go(t, AfterEvent(t)),
         UNCHANGED <<holder, chan, setup, mutation, route, heard, spare>>
  PROVE  ChannelInv'
<1>1. /\ t \in ChannelThreads /\ TaskTypes' /\ AtWork' /\ OthersGoOn(t)
      /\ StageKept(t) /\ BearsAsBefore(t) /\ job'[t].at \in {"drain", "drained"}
      /\ ChannelTypes
  BY EventEnds DEF Telling, ChannelInv
<1>2. ChannelTypes'
  BY <1>1, SpareKept DEF ChannelTypes, HolderTypes, RecordTypes, SetupTypes, HeardTypes,
     RouteTypes
<1>3. RevisionsOwned'
  BY <1>1, <1>2, RecordsSame, OwnedKept DEF ChannelInv, ChannelTypes
<1>4. PhasesInOrder'
  BY <1>1, <1>2, PhasesKept, HolderNumbers DEF ChannelInv
<1>5. HeardInv' /\ RecordsOK'
  BY <1>1, <1>2, HeardKept, RecordsOKKept DEF ChannelInv
<1>6. FlowOK'
  <2> DEFINE rev == holder.revision
  <2>1. \A u \in Workers : u # t => job'[u] = job[u] /\ (HasToTell(u, rev)' <=> HasToTell(u, rev))
    BY <1>1, HolderNumbers DEF OthersGoOn, HasToTell
  <2>2. ~HasToTell(t, rev)'
    BY <1>1 DEF HasToTell
  <2>3. CASE job[t].rev # rev
    <3>1. ~HasToTell(t, rev)
      BY <2>3 DEF HasToTell
    <3> QED BY <1>1, <1>2, <2>1, <2>2, <3>1, FlowKept DEF ChannelInv
  <2>4. CASE job[t].rev = rev
    <3>1. HasToTell(t, rev)
      BY <2>4 DEF HasToTell
    <3>2. setup[rev].phase \notin Unheard
      BY <3>1 DEF ChannelInv, FlowOK
    <3>3. \A u \in Workers : ~HasToTell(u, rev)'
      BY <2>1, <2>2, <2>4, OneTells DEF Telling
    <3>4. ASSUME NEW ch \in Channels, ch = holder.channel, holder.state # "gone"
          PROVE  \E hi \in 1..Top(ch)' : \E lo \in 2..(hi + 1) : Flowing(rev, ch, lo, hi)'
      <4>1. ch # NoChannel /\ Top(ch)' = Top(ch) /\ setup[rev].phase # "cancelled"
        BY <1>1, <3>2, HolderNumbers DEF Top, Unheard
      <4>2. job[t].ch = ch
        BY <1>1, <2>4, <3>4, <4>1 DEF ChannelInv, RevisionsOwned, Bears
      <4>3. ~holder.opened
        <5>1. holder.state \in {"new", "live"}
          BY <1>1, <3>4, HolderNumbers DEF Holders
        <5> QED BY <2>4, <3>4, <4>2, <5>1 DEF OpenLease, LeaseIsCurrent, ChannelInv, HeardInv
      <4>4. heard[rev].messages = <<>>
        BY <1>1, <4>3, HolderNumbers DEF ChannelInv, HeardInv, Once
      <4>5. PICK hi \in 1..Top(ch) : \E lo \in 2..(hi + 1) : Flowing(rev, ch, lo, hi)
        BY <3>4, <4>1 DEF ChannelInv, FlowOK
      <4>6. PICK lo \in 2..(hi + 1) : Flowing(rev, ch, lo, hi)
        BY <4>5
      <4>7. Flowing(rev, ch, lo, hi)'
        BY <3>3, <4>1, <4>4, <4>6 DEF Flowing
      <4> QED BY <4>1, <4>7
    <3>5. holder.channel # NoChannel => holder.channel \in Channels
      BY <1>1, HolderNumbers
    <3> QED BY <3>2, <3>4, <3>5 DEF FlowOK
  <2> QED BY <2>3, <2>4
<1> QED BY <1>2, <1>3, <1>4, <1>5, <1>6 DEF ChannelInv

LEMMA HandleMessageKeeps ==
  ASSUME ChannelInv, NEW t \in Workers, HandleMessage(t)
  PROVE  ChannelInv'
<1>1. /\ job[t].at = "run" /\ job[t].kind = "message"
      /\ UNCHANGED <<holder, chan, setup, mutation, route, heard, spare>>
      /\ t \in ChannelThreads /\ ChannelTypes /\ job[t] \in ChannelTasks /\ WorkOK(t, job[t])
  BY DEF HandleMessage, At, Workers, ChannelThreads, ChannelInv, ChannelTypes, TaskTypes,
     AtWork
<1>2. CASE ~OpenLease(job[t].ch, job[t].rev)
  BY <1>1, <1>2, DroppedKeeps DEF HandleMessage
<1>3. CASE OpenLease(job[t].ch, job[t].rev)
  <2> DEFINE j == [job[t] EXCEPT !.at = "tell"]
  <2>1. Go(t, j)
    BY <1>3 DEF HandleMessage
  <2>2. /\ j \in ChannelTasks /\ j.at = "tell" /\ j.ch = job[t].ch /\ j.rev = job[t].rev
        /\ j.kind = job[t].kind /\ j.n = job[t].n /\ j.inside = job[t].inside
    BY <1>1 DEF ChannelTasks, ChannelStages
  <2> HIDE DEF j
  <2>3. WorkOK(t, j)
    BY <1>1, <2>2 DEF WorkOK, Workers
  <2>4. Continues(t, j)
    BY <1>1, <2>2 DEF Continues, BeforeDrain, WhileDraining, Telling
  <2>5. mutation' \in ChannelThreads \cup {Nobody}
    BY <1>1 DEF ChannelTypes, HolderTypes
  <2> QED BY <1>1, <2>1, <2>2, <2>3, <2>4, <2>5, QuietStep, QuietKeeps
<1> QED BY <1>2, <1>3

LEMMA CommitOpenKeeps ==
  ASSUME ChannelInv, NEW t \in Workers, CommitOpen(t)
  PROVE  ChannelInv'
<1>1. /\ job[t].at = "commit" /\ Go(t, AfterEvent(t))
      /\ UNCHANGED <<chan, setup, mutation, route, spare>>
  BY DEF CommitOpen, At
<1>2. /\ t \in ChannelThreads /\ TaskTypes' /\ AtWork' /\ OthersGoOn(t)
      /\ StageKept(t) /\ BearsAsBefore(t) /\ job'[t].at \in {"drain", "drained"}
      /\ ChannelTypes
  BY <1>1, EventEnds DEF Telling, ChannelInv
<1>3. \A u \in Workers, rev \in Revisions :
        /\ HasToTell(u, rev)' <=> HasToTell(u, rev)
        /\ HasToTell(u, rev) => job'[u].n = job[u].n
  <2> TAKE u \in Workers, rev \in Revisions
  <2>1. CASE u = t
    BY <1>1, <1>2, <2>1 DEF HasToTell
  <2>2. CASE u # t
    BY <1>2, <2>2, HolderNumbers DEF OthersGoOn, HasToTell
  <2> QED BY <2>1, <2>2
<1>4. CASE holder' = holder /\ heard' = heard
  <2>1. ChannelTypes'
    BY <1>1, <1>2, <1>4, SpareKept DEF ChannelTypes, HolderTypes, RecordTypes, SetupTypes,
       HeardTypes, RouteTypes
  <2>2. RevisionsOwned'
    BY <1>1, <1>2, <1>4, <2>1, RecordsSame, OwnedKept DEF ChannelInv, ChannelTypes
  <2>3. PhasesInOrder'
    BY <1>1, <1>2, <1>4, <2>1, PhasesKept, HolderNumbers DEF ChannelInv
  <2>4. HeardInv' /\ RecordsOK'
    BY <1>1, <1>2, <1>4, <2>1, HeardKept, RecordsOKKept DEF ChannelInv
  <2>5. FlowOK'
    BY <1>1, <1>2, <1>3, <1>4, <2>1, FlowKept, HolderNumbers DEF ChannelInv
  <2> QED BY <2>1, <2>2, <2>3, <2>4, <2>5 DEF ChannelInv
<1>5. CASE /\ LeaseIsCurrent(job[t].ch, job[t].rev, FALSE) /\ ~holder.opened
           /\ holder' = [holder EXCEPT !.opened = TRUE, !.pending = FALSE]
           /\ heard' = [heard EXCEPT ![job[t].rev].opens = @ + 1]
  <2> DEFINE rev == holder.revision
  <2>1. /\ job[t].rev = rev /\ holder.state = "live" /\ rev \in Revisions
        /\ heard[rev] \in Hearings
    BY <1>2, <1>5, HolderNumbers DEF LeaseIsCurrent, ChannelTypes, HeardTypes
  <2>2. /\ holder' \in Holders /\ holder'.revision = rev /\ holder'.channel = holder.channel
        /\ holder'.state = holder.state /\ holder'.opened
    BY <1>2, <1>5, HolderNumbers DEF Holders
  <2>3. heard[rev].opens = 0
    BY <1>5 DEF ChannelInv, HeardInv, Once
  <2>4. /\ HeardTypes' /\ heard'[rev].opens = 1
        /\ heard'[rev].messages = heard[rev].messages
        /\ \A r \in Revisions : r # rev => heard'[r] = heard[r]
    <3>1. heard' = [heard EXCEPT ![rev] = [heard[rev] EXCEPT !.opens = 1]]
      BY <1>2, <1>5, <2>1, <2>3 DEF ChannelTypes, HeardTypes, Hearings
    <3>2. [heard[rev] EXCEPT !.opens = 1] \in Hearings
      BY <2>1 DEF Hearings
    <3> QED BY <1>2, <2>1, <3>1, <3>2 DEF ChannelTypes, HeardTypes, Hearings
  <2>5. ChannelTypes'
    BY <1>1, <1>2, <2>2, <2>4, SpareKept DEF ChannelTypes, HolderTypes, RecordTypes,
       SetupTypes, RouteTypes
  <2>6. RevisionsOwned'
    BY <1>1, <1>2, <2>2, <2>5, RecordsSame, OwnedKept DEF ChannelInv, ChannelTypes
  <2>7. PhasesInOrder'
    BY <1>1, <1>2, <2>2, <2>5, PhasesKept, HolderNumbers DEF ChannelInv
  <2>8. RecordsOK'
    BY <1>1, <1>2, RecordsOKKept DEF ChannelInv
  <2>9. HeardInv'
    <3>1. ASSUME NEW r \in Revisions
          PROVE  /\ heard'[r].opens <= 1
                 /\ heard'[r].messages # <<>> => heard'[r].opens = 1
                 /\ Consecutive(heard'[r].messages)
                 /\ r > rev => heard'[r] = [opens |-> 0, messages |-> <<>>]
      <4>1. CASE r = rev
        BY <1>2, <2>4, <4>1, HolderNumbers DEF ChannelInv, HeardInv
      <4>2. CASE r # rev
        BY <2>4, <4>2 DEF ChannelInv, HeardInv
      <4> QED BY <4>1, <4>2
    <3> QED BY <2>1, <2>2, <2>4, <3>1 DEF HeardInv, Once
  <2>10. FlowOK'
    BY <1>1, <1>2, <1>3, <2>1, <2>2, <2>4, <2>5, FlowKept DEF ChannelInv
  <2> QED BY <2>5, <2>6, <2>7, <2>8, <2>9, <2>10 DEF ChannelInv
<1> QED BY <1>4, <1>5 DEF CommitOpen

\* One more message is heard, the next one.
LEMMA NextHeard ==
  ASSUME NEW messages \in Seq(Nat), NEW n \in Nat, Consecutive(messages),
         messages # <<>> => messages[Len(messages)] = n - 1
  PROVE  LET more == Append(messages, n)
         IN more \in Seq(Nat) /\ Consecutive(more) /\ more # <<>> /\ more[Len(more)] = n
<1> DEFINE more == Append(messages, n)
<1>1. /\ more \in Seq(Nat) /\ Len(messages) \in Nat /\ Len(more) = Len(messages) + 1
      /\ more[Len(messages) + 1] = n /\ more # <<>>
      /\ \A i \in 1..Len(messages) : more[i] = messages[i] /\ messages[i] \in Nat
  <2>1. more \in Seq(Nat) /\ Len(messages) \in Nat /\ Len(more) = Len(messages) + 1
    OBVIOUS
  <2>2. more[Len(messages) + 1] = n
    OBVIOUS
  <2>3. \A i \in 1..Len(messages) : more[i] = messages[i] /\ messages[i] \in Nat
    OBVIOUS
  <2>4. more # <<>>
    <3>1. Len(more) # 0
      BY <2>1
    <3> HIDE DEF more
    <3> QED BY <3>1
  <2> QED BY <2>1, <2>2, <2>3, <2>4
<1> HIDE DEF more
<1>2. ASSUME NEW i \in 1..(Len(more) - 1) PROVE more[i + 1] = more[i] + 1
  <2>1. CASE i = Len(messages)
    <3>1. messages # <<>> /\ i \in 1..Len(messages)
      BY <1>1, <2>1
    <3> QED BY <1>1, <2>1, <3>1
  <2>2. CASE i # Len(messages)
    <3>1. i \in 1..(Len(messages) - 1) /\ i + 1 \in 1..Len(messages) /\ i \in 1..Len(messages)
      BY <1>1, <2>2
    <3> QED BY <1>1, <3>1 DEF Consecutive
  <2> QED BY <2>1, <2>2
<1> QED BY <1>1, <1>2 DEF Consecutive, more

\* After it was told, the work ends or goes on with retiring the peer.
LEMMA ToldTask ==
  ASSUME ChannelInv, NEW t \in Workers, job[t].at = "tell",
         \/ Go(t, AfterEvent(t)) /\ holder' = holder
         \/ GoTo(t, "retire") /\ holder' = [holder EXCEPT !.state = "gone"]
  PROVE  /\ t \in ChannelThreads /\ TaskTypes' /\ AtWork' /\ OthersGoOn(t)
         /\ StageKept(t) /\ BearsAsBefore(t)
         /\ job'[t].at \in {"drain", "drained", "retire"}
         /\ holder' \in Holders /\ holder'.revision = holder.revision
         /\ holder'.channel = holder.channel /\ holder'.opened = holder.opened
         /\ holder'.state \in {holder.state, "gone"}
<1>1. t \in ChannelThreads /\ ChannelTypes /\ holder \in Holders
  BY HolderNumbers DEF ChannelInv
<1>2. CASE Go(t, AfterEvent(t)) /\ holder' = holder
  BY <1>1, <1>2, EventEnds DEF Telling
<1>3. CASE GoTo(t, "retire") /\ holder' = [holder EXCEPT !.state = "gone"]
  <2> DEFINE j == [job[t] EXCEPT !.at = "retire"]
  <2>1. j \in ChannelTasks /\ Go(t, j)
    BY <1>1, <1>3, StageSet DEF ChannelStages, ChannelTypes
  <2>2. /\ j.at = "retire" /\ j.ch = job[t].ch /\ j.rev = job[t].rev
        /\ j.inside = job[t].inside
    BY <1>1, HolderNumbers DEF ChannelTasks
  <2> HIDE DEF j
  <2>3. WorkOK(t, j)
    BY <1>1, <2>2 DEF ChannelTypes, AtWork, WorkOK, Workers
  <2>4. TaskTypes' /\ AtWork' /\ job'[t] = j /\ OthersGoOn(t)
    BY <1>1, <2>1, <2>3, TaskMoves, TaskSet DEF ChannelTypes, OthersGoOn
  <2>5. StageKept(t) /\ BearsAsBefore(t)
    BY <2>2, <2>4 DEF StageKept, BearsAsBefore, BeforeDrain, WhileDraining, Telling
  <2>6. /\ holder' \in Holders /\ holder'.revision = holder.revision
        /\ holder'.channel = holder.channel /\ holder'.opened = holder.opened
        /\ holder'.state = "gone"
    BY <1>1, <1>3 DEF Holders
  <2> QED BY <1>1, <2>2, <2>4, <2>5, <2>6
<1> QED BY <1>2, <1>3

LEMMA TellMessageKeeps ==
  ASSUME ChannelInv, NEW t \in Workers, TellMessage(t)
  PROVE  ChannelInv'
<1>1. /\ job[t].at = "tell" /\ UNCHANGED <<chan, setup, mutation, route, spare>>
      /\ t \in ChannelThreads /\ ChannelTypes /\ job[t] \in ChannelTasks
      /\ job[t].kind = "message"
  BY HolderNumbers DEF TellMessage, At, ChannelInv, ChannelTypes, AtWork, WorkOK
<1>2. CASE ~OpenLease(job[t].ch, job[t].rev)
  BY <1>1, <1>2, DroppedKeeps DEF TellMessage
<1>3. CASE OpenLease(job[t].ch, job[t].rev)
  <2> DEFINE rev == holder.revision
             ch == holder.channel
             n == job[t].n
             more == Append(heard[rev].messages, n)
  <2>1. /\ job[t].rev = rev /\ job[t].ch = ch /\ holder.state = "live" /\ holder.opened
        /\ rev \in Revisions /\ heard[rev] \in Hearings /\ n \in Nat
    BY <1>1, <1>3, HolderNumbers DEF OpenLease, LeaseIsCurrent, ChannelTypes, HeardTypes,
       ChannelTasks
  <2>2. ch \in Channels /\ ch # NoChannel
    BY <1>1, <2>1, HolderNumbers DEF ChannelTypes, AtWork, WorkOK
  <2>3. /\ TaskTypes' /\ AtWork' /\ OthersGoOn(t) /\ StageKept(t) /\ BearsAsBefore(t)
        /\ job'[t].at \in {"drain", "drained", "retire"}
        /\ holder' \in Holders /\ holder'.revision = rev /\ holder'.channel = ch
        /\ holder'.opened = holder.opened /\ holder'.state \in {holder.state, "gone"}
    BY <1>1, <1>3, ToldTask DEF TellMessage
  <2>4. HasToTell(t, rev)
    BY <1>1, <2>1 DEF HasToTell
  <2>5. setup[rev].phase \notin Unheard /\ setup[rev].phase # "cancelled"
    BY <2>4 DEF ChannelInv, FlowOK, Unheard
  <2>6. PICK hi \in 1..Top(ch) : \E lo \in 2..(hi + 1) : Flowing(rev, ch, lo, hi)
    BY <2>1, <2>2, <2>5 DEF ChannelInv, FlowOK
  <2>7. PICK lo \in 2..(hi + 1) : Flowing(rev, ch, lo, hi)
    BY <2>6
  <2>8. /\ n = lo - 1 /\ lo \in Nat /\ hi \in Nat /\ lo - 2 = n - 1
        /\ heard[rev].messages # <<>> => heard[rev].messages[Len(heard[rev].messages)] = n - 1
    BY <2>1, <2>4, <2>7 DEF Flowing
  <2>9. heard[rev].messages \in Seq(Nat) /\ Consecutive(heard[rev].messages)
    BY <2>1 DEF Hearings, ChannelInv, HeardInv
  <2>10. more \in Seq(Nat) /\ Consecutive(more) /\ more # <<>> /\ more[Len(more)] = n
    BY <2>1, <2>8, <2>9, NextHeard
  <2> HIDE DEF more
  <2>11. /\ HeardTypes' /\ heard'[rev].messages = more /\ heard'[rev].opens = heard[rev].opens
         /\ \A r \in Revisions : r # rev => heard'[r] = heard[r]
    <3>1. heard' = [heard EXCEPT ![rev] = [heard[rev] EXCEPT !.messages = more]]
      BY <1>1, <1>3, <2>1 DEF TellMessage, ChannelTypes, HeardTypes, Hearings, more
    <3>2. [heard[rev] EXCEPT !.messages = more] \in Hearings
      BY <2>1, <2>10 DEF Hearings
    <3> QED BY <1>1, <2>1, <3>1, <3>2 DEF ChannelTypes, HeardTypes, Hearings
  <2>12. ChannelTypes'
    BY <1>1, <2>3, <2>11, SpareKept DEF ChannelTypes, HolderTypes, RecordTypes, SetupTypes,
       RouteTypes
  <2>13. RevisionsOwned'
    BY <1>1, <2>3, <2>12, RecordsSame, OwnedKept DEF ChannelInv, ChannelTypes
  <2>14. PhasesInOrder'
    BY <1>1, <2>3, <2>12, PhasesKept, HolderNumbers DEF ChannelInv
  <2>15. RecordsOK'
    BY <1>1, RecordsOKKept DEF ChannelInv
  <2>16. HeardInv'
    <3>1. heard[rev].opens = 1
      BY <2>1 DEF ChannelInv, HeardInv, Once
    <3>2. ASSUME NEW r \in Revisions
          PROVE  /\ heard'[r].opens <= 1
                 /\ heard'[r].messages # <<>> => heard'[r].opens = 1
                 /\ Consecutive(heard'[r].messages)
                 /\ r > rev => heard'[r] = [opens |-> 0, messages |-> <<>>]
      <4>1. CASE r = rev
        BY <1>1, <2>10, <2>11, <3>1, <4>1, HolderNumbers
      <4>2. CASE r # rev
        BY <2>11, <4>2 DEF ChannelInv, HeardInv
      <4> QED BY <4>1, <4>2
    <3> QED BY <2>1, <2>3, <2>11, <3>1, <3>2 DEF HeardInv, Once
  <2>17. FlowOK'
    <3>1. \A u \in Workers : ~HasToTell(u, rev)'
      <4> TAKE u \in Workers
      <4>1. CASE u = t
        BY <2>3, <4>1 DEF HasToTell
      <4>2. CASE u # t
        BY <1>1, <2>1, <2>3, <4>2, OneTells, HolderNumbers DEF OthersGoOn, HasToTell, Telling
      <4> QED BY <4>1, <4>2
    <3>2. Top(ch)' = Top(ch) /\ chan[ch].hooks["message"] \in {0, rev}
      <4>1. Top(ch)' = Top(ch)
        BY <1>1, <2>3 DEF Top
      <4>2. chan[ch].hooks["message"] \in {0, rev}
        BY <2>4, <2>7 DEF Flowing
      <4> QED BY <4>1, <4>2
    <3>3. Flowing(rev, ch, lo, hi)'
      BY <1>1, <2>3, <2>7, <2>8, <2>10, <2>11, <3>1, <3>2 DEF Flowing
    <3> QED BY <1>1, <2>3, <2>5, <3>2, <3>3 DEF FlowOK
  <2> QED BY <2>12, <2>13, <2>14, <2>15, <2>16, <2>17 DEF ChannelInv
<1> QED BY <1>2, <1>3

(***************************************************************************)
(* RTC calls a hook.                                                       *)
(***************************************************************************)
LEMMA CarriesNone ==
  ASSUME NEW q, NEW lo \in Nat, NEW hi \in Nat, NEW low \in Nat, NEW high \in Nat,
         hi < lo, high < low, Carries(q, lo, hi)
  PROVE  Carries(q, low, high)
<1>1. \A i \in 1..Len(q) : ~MessageAt(q, i)
  BY DEF Carries
<1> QED BY <1>1 DEF Carries

\* What comes while the installation holds back is queued; what was begun under
\* a cancelled one ends at once; and otherwise the event is worked on.
Takes(ch, i, rev, event) ==
  /\ i \in 1..Len(chan[ch].events) /\ event = chan[ch].events[i]
  /\ rev = chan[ch].hooks[event.kind] /\ rev # 0
  /\ \A k \in 1..(i - 1) : chan[ch].hooks[chan[ch].events[k].kind] = 0
Queues(rev, event) ==
  /\ setup[rev].phase \in {"installing", "draining"}
  /\ setup'[rev].phase = setup[rev].phase
  /\ setup'[rev].deferred = Append(setup[rev].deferred, event)
  /\ \A r \in Revisions : r # rev => setup'[r] = setup[r]
  /\ job'["callback"].at = "drained"

LEMMA CallbackDoes ==
  ASSUME ChannelTypes, NEW ch \in Channels, Callback(ch)
  PROVE  \E i \in Nat, rev \in Revisions, event \in ChannelEvents :
           /\ Takes(ch, i, rev, event) /\ ChannelTypes'
           /\ UNCHANGED <<holder, mutation, route, heard, spare>>
           /\ job["callback"].at = "idle" /\ OthersGoOn("callback")
           /\ job'["callback"].ch = ch /\ job'["callback"].rev = rev
           /\ job'["callback"].kind = event.kind /\ job'["callback"].n = event.n
           /\ \A c \in Channels : /\ chan'[c].hooks = chan[c].hooks
                                  /\ chan'[c].state = chan[c].state
                                  /\ chan'[c].sent = chan[c].sent
                                  /\ c # ch => chan'[c].events = chan[c].events
           /\ Without(chan'[ch].events, chan[ch].events, i)
           /\ \/ Queues(rev, event)
              \/ /\ setup' = setup /\ setup[rev].phase = "cancelled"
                 /\ job'["callback"].at = "drained"
              \/ /\ setup' = setup /\ setup[rev].phase = "active"
                 /\ job'["callback"].at = "run"
<1> DEFINE t == "callback"
<1>1. PICK i \in Deliverable(ch) :
        LET event == chan[ch].events[i]
            rev == chan[ch].hooks[event.kind]
            held == Submitted(rev, event)
        IN /\ chan' = [chan EXCEPT ![ch].events = RemoveAt(@, i)]
           /\ setup' = held
           /\ Go("callback", [IdleTask EXCEPT
                !.at = IF held # setup \/ setup[rev].phase = "cancelled"
                       THEN "drained" ELSE "run",
                !.ch = ch, !.rev = rev, !.kind = event.kind, !.n = event.n,
                !.inside = ch])
  BY DEF Callback
<1> DEFINE event == chan[ch].events[i]
           rev == chan[ch].hooks[event.kind]
           held == Submitted(rev, event)
           stage == IF held # setup \/ setup[rev].phase = "cancelled"
                    THEN "drained" ELSE "run"
           j == [IdleTask EXCEPT !.at = stage, !.ch = ch, !.rev = rev,
                                 !.kind = event.kind, !.n = event.n, !.inside = ch]
<1>2. /\ chan' = [chan EXCEPT ![ch].events = RemoveAt(@, i)] /\ setup' = held
      /\ Go(t, j) /\ job[t].at = "idle" /\ t \in ChannelThreads
      /\ UNCHANGED <<holder, mutation, route, heard, spare>>
  BY <1>1 DEF Callback, At, ChannelThreads
<1>3. /\ chan[ch] \in ChannelRecords /\ chan[ch].events \in Seq(ChannelEvents)
      /\ chan[ch].hooks \in [HookKinds -> Revisions]
      /\ i \in 1..Len(chan[ch].events) /\ i \in Nat
  BY DEF ChannelTypes, RecordTypes, ChannelRecords, Deliverable
<1>4. event \in ChannelEvents /\ event.kind \in HookKinds /\ event.n \in Nat
  <2>1. event \in ChannelEvents
    BY <1>3, EventsNumbered
  <2> QED BY <2>1 DEF ChannelEvents
<1>5. rev \in Revisions /\ setup[rev] \in Setups
  BY <1>3, <1>4 DEF ChannelTypes, SetupTypes
<1>6. Takes(ch, i, rev, event)
  BY <1>3 DEF Takes, Deliverable
<1>7. /\ RemoveAt(chan[ch].events, i) \in Seq(ChannelEvents)
      /\ Without(RemoveAt(chan[ch].events, i), chan[ch].events, i)
  BY <1>3, RemovedWithout
<1>8. /\ RecordTypes' /\ chan'[ch].events = RemoveAt(chan[ch].events, i)
      /\ \A c \in Channels : /\ chan'[c].hooks = chan[c].hooks
                             /\ chan'[c].state = chan[c].state
                             /\ chan'[c].sent = chan[c].sent
                             /\ c # ch => chan'[c].events = chan[c].events
  <2>1. [chan[ch] EXCEPT !.events = RemoveAt(chan[ch].events, i)] \in ChannelRecords
    BY <1>3, <1>7 DEF ChannelRecords
  <2>2. chan' = [chan EXCEPT ![ch] = [chan[ch] EXCEPT !.events = RemoveAt(chan[ch].events, i)]]
    BY <1>2 DEF ChannelTypes, RecordTypes
  <2> QED BY <1>3, <2>1, <2>2 DEF ChannelTypes, RecordTypes, ChannelRecords
<1> HIDE DEF event, rev
<1>9. /\ j \in ChannelTasks /\ j.at = stage /\ j.ch = ch /\ j.rev = rev /\ j.inside = ch
      /\ j.kind = event.kind /\ j.n = event.n
  <2>1. IdleTask \in ChannelTasks /\ stage \in ChannelStages
    BY IdleTaskTyped DEF ChannelStages
  <2> HIDE DEF stage
  <2> QED BY <1>4, <1>5, <2>1 DEF ChannelTasks, AnyChannel
<1>10. /\ SetupTypes'
       /\ \/ /\ setup[rev].phase \in {"installing", "draining"} /\ stage = "drained"
             /\ setup'[rev].phase = setup[rev].phase
             /\ setup'[rev].deferred = Append(setup[rev].deferred, event)
             /\ \A r \in Revisions : r # rev => setup'[r] = setup[r]
          \/ setup' = setup /\ setup[rev].phase = "cancelled" /\ stage = "drained"
          \/ setup' = setup /\ setup[rev].phase = "active" /\ stage = "run"
  <2>1. CASE setup[rev].phase \in {"installing", "draining"}
    <3> DEFINE d == setup[rev].deferred
               more == Append(d, event)
    <3>1. d \in Seq(ChannelEvents) /\ setup \in [Revisions -> Setups]
      BY <1>5 DEF Setups, ChannelTypes, SetupTypes
    <3>2. more \in Seq(ChannelEvents) /\ more # d
      <4>1. more \in Seq(ChannelEvents) /\ Len(more) = Len(d) + 1 /\ Len(d) \in Nat
        BY <1>4, <3>1
      <4> QED BY <4>1
    <3>3. held = [setup EXCEPT ![rev] = [setup[rev] EXCEPT !.deferred = more]]
      BY <1>5, <2>1, <3>1 DEF Submitted
    <3> HIDE DEF held, more
    <3>4. setup[rev].deferred = d
      OBVIOUS
    <3> HIDE DEF d
    <3>5. [setup[rev] EXCEPT !.deferred = more] \in Setups
      BY <1>5, <3>2 DEF Setups
    <3>6. /\ setup' \in [Revisions -> Setups] /\ setup'[rev].phase = setup[rev].phase
          /\ setup'[rev].deferred = more
          /\ \A r \in Revisions : r # rev => setup'[r] = setup[r]
      BY <1>2, <1>5, <3>1, <3>3, <3>5 DEF Setups
    <3>7. held # setup
      BY <1>2, <3>2, <3>4, <3>6
    <3> QED BY <2>1, <3>6, <3>7 DEF SetupTypes, more, d
  <2>2. CASE setup[rev].phase \in {"active", "cancelled"}
    <3>1. held = setup
      BY <2>2 DEF Submitted
    <3> QED BY <1>2, <2>2, <3>1 DEF ChannelTypes, SetupTypes
  <2> QED BY <1>5, <2>1, <2>2 DEF Setups, Phases
<1> HIDE DEF j, held
<1>11. WorkOK(t, j)
  BY <1>9 DEF WorkOK, Workers, stage
<1>12. TaskTypes' /\ AtWork' /\ job'[t] = j /\ OthersGoOn(t)
  BY <1>2, <1>9, <1>11, TaskMoves, TaskSet DEF ChannelTypes, OthersGoOn
<1>13. ChannelTypes'
  BY <1>2, <1>8, <1>10, <1>12, SpareKept DEF ChannelTypes, HolderTypes, HeardTypes, RouteTypes
<1> HIDE DEF stage
<1>14. \/ Queues(rev, event)
       \/ setup' = setup /\ setup[rev].phase = "cancelled" /\ job'[t].at = "drained"
       \/ setup' = setup /\ setup[rev].phase = "active" /\ job'[t].at = "run"
  BY <1>9, <1>10, <1>12 DEF Queues
<1> QED BY <1>2, <1>3, <1>4, <1>5, <1>6, <1>7, <1>8, <1>9, <1>12, <1>13, <1>14

LEMMA CallbackKeeps ==
  ASSUME ChannelInv, NEW ch \in Channels, Callback(ch)
  PROVE  ChannelInv'
<1> DEFINE t == "callback"
<1>1. PICK i \in Nat, rev \in Revisions, event \in ChannelEvents :
           /\ Takes(ch, i, rev, event) /\ ChannelTypes'
           /\ UNCHANGED <<holder, mutation, route, heard, spare>>
           /\ job["callback"].at = "idle" /\ OthersGoOn("callback")
           /\ job'["callback"].ch = ch /\ job'["callback"].rev = rev
           /\ job'["callback"].kind = event.kind /\ job'["callback"].n = event.n
           /\ \A c \in Channels : /\ chan'[c].hooks = chan[c].hooks
                                  /\ chan'[c].state = chan[c].state
                                  /\ chan'[c].sent = chan[c].sent
                                  /\ c # ch => chan'[c].events = chan[c].events
           /\ Without(chan'[ch].events, chan[ch].events, i)
           /\ \/ Queues(rev, event)
              \/ /\ setup' = setup /\ setup[rev].phase = "cancelled"
                 /\ job'["callback"].at = "drained"
              \/ /\ setup' = setup /\ setup[rev].phase = "active"
                 /\ job'["callback"].at = "run"
  BY CallbackDoes DEF ChannelInv
<1>2. /\ ChannelTypes /\ t \in ChannelThreads /\ "installer" \in ChannelThreads
      /\ job'["installer"] = job["installer"] /\ holder.revision \in Revisions
      /\ chan[ch].events \in Seq(ChannelEvents) /\ event.kind \in HookKinds
      /\ setup[rev].deferred \in Seq(ChannelEvents)
  BY <1>1, HolderNumbers DEF ChannelInv, ChannelThreads, OthersGoOn, ChannelTypes,
     RecordTypes, ChannelRecords, ChannelEvents, SetupTypes, Setups
<1>3. rev # 0 /\ rev = chan[ch].hooks[event.kind] /\ Bears(rev, ch)
  BY <1>1, <1>2 DEF Takes, ChannelInv, RevisionsOwned
<1>4. \A c \in Channels : Top(c)' = Top(c) /\ Top(c) \in Nat
  BY <1>1, <1>2 DEF Top, ChannelInv, RecordsOK, ChannelTypes, RecordTypes, ChannelRecords
<1>5. /\ \A r \in Revisions : setup'[r].phase = setup[r].phase
      /\ \A r \in Revisions : r # rev => setup'[r] = setup[r]
  BY <1>1 DEF Queues
\* What is left of RTC's events.
<1>6. ASSUME NEW lo \in Nat, Carries(chan[ch].events, lo, Top(ch))
      PROVE  /\ event.kind # "message" => Carries(chan'[ch].events, lo, Top(ch))
             /\ event.kind = "message" =>
                  /\ event.n = lo /\ lo <= Top(ch)
                  /\ Carries(chan'[ch].events, lo + 1, Top(ch))
  <2>1. /\ event = chan[ch].events[i] /\ i \in 1..Len(chan[ch].events)
        /\ event.kind = "message" =>
             \A k \in 1..(i - 1) : chan[ch].events[k].kind # "message"
    BY <1>1 DEF Takes
  <2> DEFINE q == chan[ch].events
             r == chan'[ch].events
  <2>2. Without(r, q, i) /\ q \in Seq(ChannelEvents) /\ Top(ch) \in Nat
    BY <1>1, <1>2, <1>4
  <2> HIDE DEF q, r
  <2>3. Carries(q, lo, Top(ch))
    BY <1>6 DEF q
  <2>4. /\ q[i].kind # "message" => Carries(r, lo, Top(ch))
        /\ q[i].kind = "message" /\ (\A k \in 1..(i - 1) : q[k].kind # "message") =>
             q[i].n = lo /\ lo <= Top(ch) /\ Carries(r, lo + 1, Top(ch))
    BY <1>6, <2>2, <2>3, CarriesWithout
  <2> QED BY <2>1, <2>4 DEF q, r
<1>7. RevisionsOwned'
  <2>1. ASSUME NEW u \in ChannelThreads PROVE Bears(job[u].rev, job[u].ch)'
    <3>1. CASE u = t
      BY <1>1, <1>3, <3>1 DEF Bears
    <3>2. CASE u # t
      BY <1>1, <3>2 DEF ChannelInv, RevisionsOwned, Bears, OthersGoOn
    <3> QED BY <3>1, <3>2
  <2>2. \A c \in Channels, k \in HookKinds : Bears(chan[c].hooks[k], c)'
    BY <1>1 DEF ChannelInv, RevisionsOwned, Bears
  <2>3. holder'.channel # NoChannel => holder'.revision # 0
    BY <1>1 DEF ChannelInv, RevisionsOwned
  <2> QED BY <2>1, <2>2, <2>3 DEF RevisionsOwned
<1>8. PhasesInOrder'
  <2>1. ASSUME NEW r \in Revisions
        PROVE  /\ setup'[r].phase \in {"active", "cancelled"} => setup'[r].deferred = <<>>
               /\ r > holder'.revision => setup'[r].phase = "cancelled"
    <3>1. CASE r = rev
      BY <1>1, <1>5, <3>1 DEF ChannelInv, PhasesInOrder, Queues
    <3>2. CASE r # rev
      BY <1>1, <1>5, <3>2 DEF ChannelInv, PhasesInOrder
    <3> QED BY <3>1, <3>2
  <2>2. job'[t].at \in Telling => setup'[job'[t].rev].phase = "active"
    BY <1>1 DEF Telling, Queues
  <2>3. job["installer"].rev \in Revisions
    BY <1>2 DEF ChannelTypes, TaskTypes, ChannelTasks
  <2>4. /\ job["installer"].at \in BeforeDrain =>
             setup'[job["installer"].rev].phase = "installing"
        /\ job["installer"].at \in WhileDraining =>
             setup'[job["installer"].rev].phase \in {"draining", "cancelled"}
    BY <1>5, <2>3 DEF ChannelInv, PhasesInOrder
  <2> QED BY <1>2, <2>1, <2>2, <2>4 DEF PhasesInOrder
<1>9. HeardInv'
  BY <1>1, <1>2, HeardKept DEF ChannelInv
<1>10. RecordsOK'
  <2>1. ASSUME NEW c \in Channels
        PROVE  /\ chan'[c].state = "new" <=> chan'[c].sent = 0
               /\ chan'[c].state = "closed" => chan'[c].sent >= 2
               /\ \E lo \in 2..(Top(c)' + 1) : Carries(chan'[c].events, lo, Top(c)')
    <3>1. CASE c # ch
      BY <1>1, <1>4, <3>1 DEF ChannelInv, RecordsOK
    <3>2. CASE c = ch
      <4>1. PICK lo \in 2..(Top(ch) + 1) : Carries(chan[ch].events, lo, Top(ch))
        BY DEF ChannelInv, RecordsOK
      <4>2. lo \in Nat /\ Top(ch) \in Nat
        BY <1>4
      <4>3. CASE event.kind # "message"
        BY <1>1, <1>4, <1>6, <3>2, <4>1, <4>2, <4>3 DEF ChannelInv, RecordsOK
      <4>4. CASE event.kind = "message"
        <5>1. lo <= Top(ch) /\ Carries(chan'[ch].events, lo + 1, Top(ch))
          BY <1>6, <4>1, <4>2, <4>4
        <5>2. lo + 1 \in 2..(Top(ch) + 1)
          BY <4>2, <5>1
        <5> QED BY <1>1, <1>4, <3>2, <5>1, <5>2 DEF ChannelInv, RecordsOK
      <4> QED BY <4>3, <4>4
    <3> QED BY <3>1, <3>2
  <2> QED BY <2>1 DEF RecordsOK
<1>11. ASSUME NEW r \in Revisions
       PROVE  /\ HasToTell("installer", r)' <=> HasToTell("installer", r)
              /\ job'["installer"].n = job["installer"].n
              /\ ~HasToTell(t, r)
              /\ HasToTell(t, r)' <=> /\ r = rev /\ event.kind = "message"
                                   /\ job'[t].at = "run"
  BY <1>1, <1>2, <1>11 DEF HasToTell, Queues
<1>12. FlowOK'
  <2> DEFINE now == holder.revision
             hc == holder.channel
  <2>0. /\ HasToTell("installer", now)' <=> HasToTell("installer", now)
        /\ job'["installer"].n = job["installer"].n
        /\ ~HasToTell(t, now)
        /\ HasToTell(t, now)' <=> now = rev /\ event.kind = "message" /\ job'[t].at = "run"
    BY <1>1, <1>2 DEF HasToTell, Queues
  <2>1. setup'[now].phase \in Unheard =>
          heard'[now].messages = <<>> /\ \A u \in Workers : ~HasToTell(u, now)'
    <3> HAVE setup'[now].phase \in Unheard
    <3>1. setup[now].phase \in Unheard
      BY <1>2, <1>5
    <3>2. heard[now].messages = <<>> /\ \A u \in Workers : ~HasToTell(u, now)
      BY <3>1 DEF ChannelInv, FlowOK
    <3>3. ~HasToTell("installer", now)'
      BY <1>2, <2>0, <3>2 DEF Workers
    <3>4. ~HasToTell(t, now)'
      BY <1>1, <1>2, <2>0, <3>1 DEF Unheard, Queues
    <3> QED BY <1>1, <3>2, <3>3, <3>4 DEF Workers
  <2>2. CASE hc # ch
    <3>1. rev # now
      BY <1>3, <2>2 DEF Bears
    <3>2. \A u \in Workers : HasToTell(u, now)' <=> HasToTell(u, now)
      BY <1>2, <2>0, <3>1 DEF Workers
    <3>3. \A u \in Workers : HasToTell(u, now) => job'[u].n = job[u].n
      BY <1>2, <2>0 DEF Workers
    <3>4. setup'[now] = setup[now]
      BY <1>2, <1>5, <3>1
    <3>5. hc # NoChannel => /\ chan'[hc].state = chan[hc].state
                            /\ chan'[hc].sent = chan[hc].sent
                            /\ chan'[hc].events = chan[hc].events
                            /\ chan'[hc].hooks["message"] = chan[hc].hooks["message"]
      BY <1>1, <1>2, <2>2, HolderNumbers
    <3> QED BY <1>1, <1>2, <3>2, <3>3, <3>4, <3>5, FlowKept DEF ChannelInv
  <2>3. ASSUME hc = ch, holder.state # "gone", setup[now].phase # "cancelled"
        PROVE  \E hi \in 1..Top(ch)' : \E lo \in 2..(hi + 1) : Flowing(now, ch, lo, hi)'
    <3>1. ch # NoChannel /\ Top(ch) \in Nat /\ Top(ch)' = Top(ch) /\ now \in Revisions
      BY <1>2, <1>4, HolderNumbers
    <3>2. PICK hi \in 1..Top(ch) : \E lo \in 2..(hi + 1) : Flowing(now, ch, lo, hi)
      BY <2>3, <3>1 DEF ChannelInv, FlowOK
    <3>3. PICK lo \in 2..(hi + 1) : Flowing(now, ch, lo, hi)
      BY <3>2
    <3> DEFINE messages == heard[now].messages
    <3>4. /\ lo \in Nat /\ hi \in Nat /\ lo <= hi + 1 /\ hi + 1 \in Nat /\ hi + 2 \in Nat
          /\ lo >= 2 /\ (hi + 1) + 1 = hi + 2 /\ hi <= Top(ch)
      BY <3>1
    <3>5. /\ Carries(setup[now].deferred, lo, hi)
          /\ Carries(chan[ch].events, hi + 1, Top(ch))
          /\ \A u \in Workers : HasToTell(u, now) => job[u].n = lo - 1
          /\ messages # <<>> =>
               messages[Len(messages)] =
                 IF \E u \in Workers : HasToTell(u, now) THEN lo - 2 ELSE lo - 1
          /\ messages # <<>> \/ (\E u \in Workers : HasToTell(u, now)) \/ lo <= hi
             => chan[ch].hooks["message"] \in {0, now}
      BY <3>3 DEF Flowing
    <3>6. CASE event.kind # "message"
      <4>1. \A u \in Workers : /\ HasToTell(u, now)' <=> HasToTell(u, now)
                               /\ HasToTell(u, now) => job'[u].n = job[u].n
        BY <1>2, <2>0, <3>6 DEF Workers
      <4>2. Carries(chan'[ch].events, hi + 1, Top(ch))
        BY <1>6, <3>4, <3>5, <3>6
      <4>3. Carries(setup'[now].deferred, lo, hi)
        <5>1. CASE setup'[now].deferred = setup[now].deferred
          BY <3>5, <5>1
        <5>2. CASE rev = now /\ Queues(rev, event)
          BY <1>2, <3>4, <3>5, <3>6, <5>2, CarriesAppend DEF Queues
        <5> QED BY <1>1, <1>5, <3>1, <5>1, <5>2
      <4>4. Flowing(now, ch, lo, hi)'
        BY <1>1, <3>1, <3>5, <4>1, <4>2, <4>3 DEF Flowing
      <4> QED BY <3>1, <4>4
    <3>7. CASE event.kind = "message"
      <4>1. /\ event.n = hi + 1 /\ hi + 1 \in 1..Top(ch)
            /\ Carries(chan'[ch].events, (hi + 1) + 1, Top(ch))
        BY <1>6, <3>1, <3>4, <3>5, <3>7
      <4>2. chan'[ch].hooks["message"] = rev
        BY <1>1, <1>3, <3>7
      <4>3. CASE rev = now /\ Queues(rev, event)
        <5>1. Carries(setup'[now].deferred, lo, hi + 1)
          BY <1>2, <3>4, <3>5, <3>7, <4>1, <4>3, CarriesAppend DEF Queues
        <5>2. \A u \in Workers : /\ HasToTell(u, now)' <=> HasToTell(u, now)
                                 /\ HasToTell(u, now) => job'[u].n = job[u].n
          BY <1>2, <2>0, <4>3 DEF Workers, Queues
        <5>3. lo \in 2..((hi + 1) + 1)
          BY <3>4
        <5>4. Flowing(now, ch, lo, hi + 1)'
          BY <1>1, <3>1, <3>5, <4>1, <4>2, <4>3, <5>1, <5>2 DEF Flowing
        <5> QED BY <3>1, <4>1, <5>3, <5>4
      <4>4. CASE rev = now /\ setup' = setup /\ setup[rev].phase = "active"
                 /\ job'[t].at = "run"
        <5>1. setup[now].deferred = <<>>
          BY <3>1, <4>4 DEF ChannelInv, PhasesInOrder
        <5>2. lo = hi + 1
          <6>1. \A n \in lo..hi : FALSE
            BY <3>5, <5>1 DEF Carries
          <6> QED BY <3>4, <6>1
        <5>3. Carries(setup'[now].deferred, hi + 2, hi + 1)
          <6>1. hi + 1 < hi + 2
            BY <3>4
          <6>2. Carries(<<>>, hi + 2, hi + 1)
            BY <3>4, <6>1, CarriesEmpty
          <6> QED BY <4>4, <5>1, <6>2
        <5>4. ~HasToTell("installer", now)
          BY <4>4 DEF ChannelInv, PhasesInOrder, HasToTell, WhileDraining
        <5>5. /\ \A u \in Workers : ~HasToTell(u, now)
              /\ \A u \in Workers : HasToTell(u, now)' <=> u = t
          BY <1>2, <2>0, <3>7, <4>4, <5>4 DEF Workers
        <5>6. \A u \in Workers : HasToTell(u, now)' => job'[u].n = (hi + 2) - 1
          BY <1>1, <3>4, <4>1, <5>5
        <5>7. messages # <<>> => messages[Len(messages)] = (hi + 2) - 2
          BY <3>4, <3>5, <5>2, <5>5
        <5>8. (\E u \in Workers : HasToTell(u, now)') /\ hi + 2 \in 2..((hi + 1) + 1)
          BY <3>4, <5>5 DEF Workers
        <5>9. Flowing(now, ch, hi + 2, hi + 1)'
          BY <1>1, <3>1, <3>4, <4>1, <4>2, <4>4, <5>3, <5>6, <5>7, <5>8 DEF Flowing
        <5> QED BY <3>1, <4>1, <5>8, <5>9
      <4>5. CASE rev # now
        <5>1. messages = <<>> /\ (\A u \in Workers : ~HasToTell(u, now)) /\ ~(lo <= hi)
          BY <1>1, <1>3, <3>5, <4>2, <4>5
        <5>2. \A u \in Workers : ~HasToTell(u, now)'
          BY <1>2, <2>0, <4>5, <5>1 DEF Workers
        <5>3. Carries(setup'[now].deferred, hi + 2, hi + 1)
          BY <1>5, <3>1, <3>4, <3>5, <4>5, <5>1, CarriesNone
        <5>4. hi + 2 \in 2..((hi + 1) + 1) /\ ~(hi + 2 <= hi + 1)
          BY <3>4
        <5>5. Flowing(now, ch, hi + 2, hi + 1)'
          BY <1>1, <3>1, <3>4, <4>1, <5>1, <5>2, <5>3, <5>4 DEF Flowing
        <5> QED BY <3>1, <4>1, <5>4, <5>5
      <4> QED BY <1>1, <2>3, <4>3, <4>4, <4>5
    <3> QED BY <3>6, <3>7
  <2>4. CASE hc = ch
    <3>1. setup'[now].phase = setup[now].phase
      BY <1>2, <1>5
    <3> QED BY <1>1, <2>1, <2>3, <2>4, <3>1 DEF FlowOK
  <2> QED BY <2>2, <2>4
<1> QED BY <1>1, <1>7, <1>8, <1>9, <1>10, <1>12 DEF ChannelInv

(***************************************************************************)
(* The control channel: the invariant and what follows from it.            *)
(***************************************************************************)
LEMMA ChannelInitHolds ==
  ASSUME ChannelInit
  PROVE  ChannelInv
<1>1. /\ 0 \in Revisions /\ MaxIncoming \in Nat /\ \A rev \in Revisions : rev \in Nat
      /\ IdleTask \in ChannelTasks /\ NoLease \in Leases /\ NoChannel \notin Channels
  BY RevisionNumbers, IdleTaskTyped
<1>2. /\ holder \in Holders /\ holder.channel = NoChannel /\ holder.revision = 0
      /\ ~holder.opened /\ mutation = Nobody
  BY <1>1 DEF ChannelInit, Holders, AnyChannel
<1>3. /\ \A ch \in Channels : /\ chan[ch].state = "new" /\ chan[ch].sent = 0
                              /\ chan[ch].events = <<>>
                              /\ \A k \in HookKinds : chan[ch].hooks[k] = 0
      /\ RecordTypes
  <2>1. [k \in HookKinds |-> 0] \in [HookKinds -> Revisions]
    BY <1>1
  <2>2. <<>> \in Seq(ChannelEvents)
    OBVIOUS
  <2>3. [state |-> "new", sent |-> 0, events |-> <<>>,
         hooks |-> [k \in HookKinds |-> 0]] \in ChannelRecords
    BY <2>1, <2>2 DEF ChannelRecords
  <2> QED BY <2>3 DEF ChannelInit, RecordTypes
<1>4. /\ \A rev \in Revisions : setup[rev].phase = "cancelled" /\ setup[rev].deferred = <<>>
      /\ SetupTypes
  BY DEF ChannelInit, SetupTypes, Setups, Phases
<1>5. /\ \A t \in ChannelThreads : job[t] = IdleTask
      /\ TaskTypes /\ AtWork
  BY <1>1, IdleWorks DEF ChannelInit, TaskTypes, AtWork
<1>6. /\ \A rev \in Revisions : heard[rev] = [opens |-> 0, messages |-> <<>>]
      /\ HeardTypes
  BY DEF ChannelInit, HeardTypes, Hearings
<1>7. RouteTypes
  BY <1>1 DEF ChannelInit, RouteTypes
<1>8. RevisionsLeft
  <2>1. spare \in [incoming : 0..MaxIncoming, messages : Nat, routes : Nat]
    BY ChannelAssumption DEF ChannelInit
  <2> QED BY <1>1, <1>2, <2>1 DEF RevisionsLeft, Occupancy
<1>9. ChannelTypes
  BY <1>2, <1>3, <1>4, <1>5, <1>6, <1>7, <1>8 DEF ChannelTypes, HolderTypes
<1>10. RevisionsOwned
  BY <1>2, <1>3, <1>5 DEF RevisionsOwned, Bears, IdleTask
<1>11. "installer" \in ChannelThreads /\ "callback" \in ChannelThreads
  BY DEF ChannelThreads
<1>12. PhasesInOrder
  BY <1>4, <1>5, <1>11 DEF PhasesInOrder, IdleTask, BeforeDrain, WhileDraining, Telling
<1>13. HeardInv
  <2>1. ASSUME NEW rev \in Revisions
        PROVE  heard[rev].opens = 0 /\ heard[rev].messages = <<>> /\ Consecutive(heard[rev].messages)
    BY <1>6 DEF Consecutive
  <2> QED BY <1>1, <1>2, <1>6, <2>1 DEF HeardInv, Once
<1>14. RecordsOK
  <2>1. ASSUME NEW ch \in Channels
        PROVE  \E lo \in 2..(Top(ch) + 1) : Carries(chan[ch].events, lo, Top(ch))
    <3>1. Top(ch) = 1 /\ Carries(<<>>, 2, 1)
      <4>1. Top(ch) = 1
        BY <1>3 DEF Top
      <4>2. Carries(<<>>, 2, 1)
        BY CarriesEmpty
      <4> QED BY <4>1, <4>2
    <3> QED BY <1>3, <3>1
  <2> QED BY <1>3, <2>1 DEF RecordsOK
<1>15. FlowOK
  BY <1>1, <1>2, <1>5, <1>6, <1>11 DEF FlowOK, HasToTell, IdleTask, Workers, ChannelThreads
<1> QED BY <1>9, <1>10, <1>12, <1>13, <1>14, <1>15 DEF ChannelInv

LEMMA ChannelStepKeeps ==
  ASSUME ChannelInv, [ChannelNext]_channelVars
  PROVE  ChannelInv'
<1> USE DEF Workers
<1>0. ChannelTypes /\ HeardInv /\ \A t \in Workers \cup {"manager"} : t \in ChannelThreads
  BY DEF ChannelInv, ChannelThreads
<1>1. CASE UNCHANGED channelVars
  <2>1. UNCHANGED <<holder, chan, setup, job, mutation, route, heard, spare>>
    BY <1>1 DEF channelVars
  <2>2. /\ holder' \in Holders /\ HolderKept /\ RouteTypes' /\ RevisionsLeft'
        /\ mutation' \in ChannelThreads \cup {Nobody}
    BY <1>0, <2>1, SpareKept, HolderStays DEF ChannelTypes, HolderTypes, RouteTypes
  <2> QED BY <1>0, <2>1, <2>2, QuietRest, QuietKeeps
<1>2. ASSUME NEW ch \in Channels, Incoming(ch) PROVE ChannelInv'
  BY <1>2, IncomingKeeps
<1>3. ASSUME NEW ch \in Channels, Callback(ch) PROVE ChannelInv'
  BY <1>3, CallbackKeeps
<1>4. ASSUME NEW ch \in Channels,
             TransportOpens(ch) \/ MessageArrives(ch) \/ TransportCloses(ch)
      PROVE  ChannelInv'
  BY <1>4, TransportKeeps
<1>5. CASE Register
  BY <1>0, <1>5, RegisterDoes, QuietKeeps DEF ChannelThreads
<1>6. CASE PurgeOld
  BY <1>0, <1>6, PurgeOldDoes, QuietKeeps
<1>7. CASE CheckLease
  BY <1>0, <1>7, CheckLeaseDoes, QuietKeeps
<1>8. CASE InstallChannelHook \/ Installed \/ Cancel \/ DrainEvents
  BY <1>8, InstallChannelHookKeeps, InstalledKeeps, CancelKeeps, DrainEventsKeeps
<1>9. CASE Drained
  BY <1>0, <1>9, DrainedDoes, QuietKeeps
<1>10. ASSUME NEW t \in Workers,
              HandleOpen(t) \/ CommitOpen(t) \/ HandleMessage(t) \/ TellMessage(t)
       PROVE  ChannelInv'
  BY <1>0, <1>10, HandleOpenDoes, QuietKeeps, CommitOpenKeeps, HandleMessageKeeps,
     TellMessageKeeps
<1>11. ASSUME NEW t \in Workers, HandleEnd(t) PROVE ChannelInv'
  BY <1>0, <1>11, HandleEndDoes, QuietKeeps, GoingKeeps
<1>12. ASSUME NEW t \in Workers, PurgeEnd(t) PROVE ChannelInv'
  BY <1>0, <1>12, PurgeEndDoes, QuietKeeps
<1>13. ASSUME NEW t \in Workers \cup {"manager"},
              LeaveToCallback(t) \/ LockToClear(t) \/ ClearHooks(t)
       PROVE  ChannelInv'
  BY <1>0, <1>13, LeaveToCallbackDoes, LockToClearDoes, ClearHooksDoes, QuietKeeps
<1>14. ASSUME NEW t \in Workers \cup {"manager"}, RetireChannel(t) PROVE ChannelInv'
  BY <1>0, <1>14, RetireChannelDoes, QuietKeeps, GoingKeeps
<1>15. CASE RetirePeer \/ ReleaseChannel \/ Released
  BY <1>0, <1>15, RetirePeerDoes, ReleaseChannelDoes, ReleasedDoes, QuietKeeps
<1>16. CASE ReadRoute \/ TakeRoute \/ CommitRoute \/ TargetComes \/ TargetGoes
  BY <1>0, <1>16, RoutesDo, QuietKeeps DEF ChannelThreads
<1> QED BY <1>1, <1>2, <1>3, <1>4, <1>5, <1>6, <1>7, <1>8, <1>9, <1>10, <1>11, <1>12,
           <1>13, <1>14, <1>15, <1>16 DEF ChannelNext

\* What is under way for a channel counts only under its present revision, and
\* the messages of that revision are heard, in hand, held back and with RTC, in
\* this order and without a gap.
THEOREM ChannelInvHolds == ChannelSpec => []ChannelInv
<1>1. ChannelInit => ChannelInv
  BY ChannelInitHolds
<1>2. ChannelInv /\ [ChannelNext]_channelVars => ChannelInv'
  BY ChannelStepKeeps
<1> QED BY <1>1, <1>2, PTL DEF ChannelSpec

\* Every variable of the control channel has its type.
THEOREM ChannelTypeOKHolds == ChannelSpec => []ChannelTypeOK
<1>1. ChannelInv => ChannelTypeOK
  BY DEF ChannelInv, ChannelTypes, HolderTypes, Holders, AnyChannel, RecordTypes,
     ChannelRecords, ChannelTypeOK
<1> QED BY <1>1, ChannelInvHolds, PTL

\* Under a lease the application hears of the open channel once, and then of its
\* messages in the order they were sent, whichever thread tells it and whatever
\* was held back while the callbacks were installed.
THEOREM HeardInOrderHolds == ChannelSpec => []HeardInOrder
<1>1. ChannelInv => HeardInOrder
  BY DEF ChannelInv, HeardInv, HeardInOrder, Consecutive
<1> QED BY <1>1, ChannelInvHolds, PTL

(***************************************************************************)
(* At rest.  A channel with hooks is the present one or somebody is to     *)
(* clear it; the present one has all its hooks or the installer is about   *)
(* to set them; and a route leads to an open channel or is to be purged.   *)
(***************************************************************************)
Present(ch) == holder.state # "gone" /\ holder.channel = ch
Hooked(ch) == \E k \in HookKinds : chan[ch].hooks[k] # 0

\* A thread is to clear the hooks of a channel; the installer, that of its own
\* channel when it finds the lease lost.
Clears(t, ch) ==
  \/ job[t].at \in {"purge", "clearOld", "clear"} /\ job[t].old.ch = ch
  \/ job[t].at \in {"purgeEnd", "clearNew", "lock"} /\ job[t].ch = ch
  \/ /\ t = "installer" /\ job[t].ch = ch
     /\ \/ job[t].at \in BeforeDrain
        \/ job[t].at \in WhileDraining /\ setup[job[t].rev].phase = "cancelled"
Retiring == \E t \in ChannelThreads : job[t].at = "retire"
Owed(ch) ==
  \/ ch \in holder.cleanup
  \/ \E t \in ChannelThreads : Clears(t, ch)
  \/ holder.channel = ch /\ Retiring
HooksOwed == \A ch \in Channels : Hooked(ch) => Present(ch) \/ Owed(ch)

BeforeHooks == {"purge", "clearOld", "check", "install"}
AllHooked(ch) == \A k \in HookKinds : chan[ch].hooks[k] = holder.revision
HooksAwaited ==
  job["installer"].at \in BeforeHooks /\ job["installer"].rev = holder.revision
HooksPlaced == \A ch \in Channels : Present(ch) => AllHooked(ch) \/ HooksAwaited

\* Before the peer is registered only the installer works, on the present channel,
\* and no channel has opened.
InTheInstall == BeforeHooks \cup {"drain"}
YoungTask ==
  LET j == job["installer"]
  IN /\ j.allow /\ ~j.observed /\ j.ch = holder.channel /\ j.rev = holder.revision
     /\ setup[holder.revision].phase # "cancelled"
     /\ setup[holder.revision].deferred = <<>>
     /\ j.at \in {"purge", "clearOld"} => j.old.ch # holder.channel
YoungPeer ==
  holder.state = "new" =>
    /\ job["callback"].at = "idle" /\ job["manager"].at = "idle"
    /\ holder.observed = {}
    /\ \A ch \in Channels : chan[ch].state = "new" /\ chan[ch].events = <<>>
    /\ job["installer"].at \in InTheInstall \cup {"idle"}
    /\ job["installer"].at # "idle" => YoungTask

\* A peer is retired once it is gone.
GoneFirst == \A t \in ChannelThreads : job[t].at = "retire" => holder.state = "gone"

Routes == {route.alias, route.pending} \ {NoLease}
Purges(t, lease) ==
  \/ job[t].at = "purge" /\ job[t].old = lease
  \/ job[t].at = "purgeEnd" /\ job[t].ch = lease.ch /\ job[t].rev = lease.rev
RoutesNamed ==
  /\ \A lease \in Routes : lease.ch # NoChannel
  /\ job["binder"].at # "idle" => job["binder"].old.ch # NoChannel
RoutesLead ==
  \A lease \in Routes :
    \/ OpenLease(lease.ch, lease.rev)
    \/ \E t \in ChannelThreads : Purges(t, lease)
    \/ LeaseOf(holder) = lease /\ Retiring

RestInv ==
  HooksOwed /\ HooksPlaced /\ YoungPeer /\ GoneFirst /\ RoutesNamed /\ RoutesLead

(***************************************************************************)
(* What a step does that leaves the holder its channel, and what follows.  *)
(***************************************************************************)
\* The holder gets older; the thread that ends it is to retire its channel.
HolderAges(t) ==
  /\ holder'.channel = holder.channel /\ holder'.revision = holder.revision
  /\ holder.opened => holder'.opened
  /\ \/ holder'.state = holder.state
     \/ holder.state = "new" /\ holder'.state = "live"
     \/ holder'.state = "gone" /\ job'[t].at = "retire"
\* Hooks are set for the present channel alone, and cleared for others alone.
HooksEase ==
  \A ch \in Channels :
    \/ \A k \in HookKinds : chan'[ch].hooks[k] = chan[ch].hooks[k]
    \/ ~Present(ch) /\ \A k \in HookKinds : chan'[ch].hooks[k] = 0
    \/ Present(ch) /\ \A k \in HookKinds :
                        chan'[ch].hooks[k] \in {chan[ch].hooks[k], holder.revision}
\* What is to be cleared is cleared or stays so.
ClearsOn(t) ==
  /\ \A ch \in Channels : ch \in holder.cleanup \/ Clears(t, ch) =>
       ch \in holder'.cleanup \/ Clears(t, ch)' \/ Present(ch) \/ ~Hooked(ch)'
  /\ t # "installer" => \A rev \in Revisions :
       setup[rev].phase = "cancelled" => setup'[rev].phase = "cancelled"
  /\ job[t].at = "retire" => holder.channel = NoChannel \/ job'[t].at = "retire"
  /\ job'[t].at = "retire" => holder'.state = "gone"
RoutesOn(t) ==
  \A lease \in Routes' :
    \/ OpenLease(lease.ch, lease.rev)
    \/ lease \in Routes /\ (Purges(t, lease) => Purges(t, lease)')
HooksAwaitedOn ==
  HooksAwaited => HooksAwaited' \/ \A ch \in Channels : Present(ch) => AllHooked(ch)'
Eases(t) ==
  /\ OthersGoOn(t) /\ HolderAges(t) /\ HooksEase /\ ClearsOn(t) /\ RoutesOn(t)
  /\ HooksAwaitedOn

LEMMA ClearsElsewhere ==
  ASSUME ChannelTypes, NEW t \in ChannelThreads, OthersGoOn(t),
         t # "installer" => \A rev \in Revisions :
           setup[rev].phase = "cancelled" => setup'[rev].phase = "cancelled",
         NEW ch \in Channels, NEW u \in ChannelThreads, u # t, Clears(u, ch)
  PROVE  Clears(u, ch)'
<1>1. job'[u] = job[u] /\ job[u].rev \in Revisions
  BY DEF OthersGoOn, ChannelTypes, TaskTypes, ChannelTasks
<1>2. u = "installer" => (setup[job[u].rev].phase = "cancelled" =>
                            setup'[job[u].rev].phase = "cancelled")
  BY <1>1
<1> QED BY <1>1, <1>2 DEF Clears

LEMMA OwedOn ==
  ASSUME ChannelTypes, HooksOwed, NEW t \in ChannelThreads, Eases(t)
  PROVE  HooksOwed'
<1> SUFFICES ASSUME NEW ch \in Channels, Hooked(ch)' PROVE Present(ch)' \/ Owed(ch)'
  BY DEF HooksOwed
<1>1. Present(ch) => Present(ch)' \/ Owed(ch)'
  BY DEF Present, Owed, Retiring, Eases, HolderAges
<1>2. Hooked(ch) \/ Present(ch)
  BY DEF Hooked, Eases, HooksEase
<1>3. CASE ch \in holder.cleanup
  BY <1>1, <1>3 DEF Eases, ClearsOn, Owed
<1>4. ASSUME NEW u \in ChannelThreads, Clears(u, ch) PROVE Present(ch)' \/ Owed(ch)'
  <2>1. CASE u = t
    BY <1>1, <1>4, <2>1 DEF Eases, ClearsOn, Owed
  <2>2. CASE u # t
    BY <1>4, <2>2, ClearsElsewhere DEF Eases, ClearsOn, Owed
  <2> QED BY <2>1, <2>2
<1>5. ASSUME NEW u \in ChannelThreads, holder.channel = ch, job[u].at = "retire"
      PROVE  Owed(ch)'
  <2>1. job'[u].at = "retire"
    BY <1>5, HolderNumbers DEF Eases, ClearsOn, OthersGoOn
  <2> QED BY <1>5, <2>1 DEF Eases, HolderAges, Owed, Retiring
<1> QED BY <1>1, <1>2, <1>3, <1>4, <1>5 DEF HooksOwed, Owed, Retiring

LEMMA PlacedOn ==
  ASSUME HooksPlaced, NEW t \in ChannelThreads, Eases(t)
  PROVE  HooksPlaced'
<1> SUFFICES ASSUME NEW ch \in Channels, Present(ch)' PROVE AllHooked(ch)' \/ HooksAwaited'
  BY DEF HooksPlaced
<1>1. holder'.revision = holder.revision
  BY DEF Eases, HolderAges
<1>2. Present(ch)
  BY DEF Present, Eases, HolderAges
<1>3. CASE AllHooked(ch)
  BY <1>1, <1>2, <1>3 DEF AllHooked, Eases, HooksEase
<1>4. CASE HooksAwaited
  BY <1>2, <1>4 DEF Eases, HooksAwaitedOn
<1> QED BY <1>2, <1>3, <1>4 DEF HooksPlaced

LEMMA LeadOn ==
  ASSUME ChannelTypes', RoutesNamed, RoutesLead, NEW t \in ChannelThreads, Eases(t)
  PROVE  RoutesLead'
<1> SUFFICES ASSUME NEW lease \in Routes'
             PROVE  \/ OpenLease(lease.ch, lease.rev)'
                    \/ \E u \in ChannelThreads : Purges(u, lease)'
                    \/ LeaseOf(holder)' = lease /\ Retiring'
  BY DEF RoutesLead
<1>1. CASE OpenLease(lease.ch, lease.rev)
  <2>1. lease = [ch |-> lease.ch, rev |-> lease.rev]
    BY DEF Routes, ChannelTypes, RouteTypes, Leases
  <2>2. LeaseOf(holder)' = lease
    BY <1>1, <2>1 DEF Eases, HolderAges, OpenLease, LeaseIsCurrent, LeaseOf
  <2>3. OpenLease(lease.ch, lease.rev)' \/ job'[t].at = "retire"
    BY <1>1 DEF Eases, HolderAges, OpenLease, LeaseIsCurrent
  <2> QED BY <2>2, <2>3 DEF Retiring
<1>2. ASSUME lease \in Routes, Purges(t, lease) => Purges(t, lease)', ~OpenLease(lease.ch, lease.rev)
      PROVE  \/ \E u \in ChannelThreads : Purges(u, lease)'
             \/ LeaseOf(holder)' = lease /\ Retiring'
  <2>1. ASSUME NEW u \in ChannelThreads, Purges(u, lease)
        PROVE  Purges(u, lease)'
    BY <1>2, <2>1 DEF Eases, OthersGoOn, Purges
  <2>2. ASSUME LeaseOf(holder) = lease, NEW u \in ChannelThreads, job[u].at = "retire"
        PROVE  LeaseOf(holder)' = lease /\ Retiring'
    <3>1. holder.channel # NoChannel
      BY <1>2, <2>2 DEF RoutesNamed, LeaseOf
    <3>2. job'[u].at = "retire"
      BY <2>2, <3>1 DEF Eases, ClearsOn, OthersGoOn
    <3> QED BY <2>2, <3>2 DEF Eases, HolderAges, LeaseOf, Retiring
  <2> QED BY <1>2, <2>1, <2>2 DEF RoutesLead, Retiring
<1> QED BY <1>1, <1>2 DEF Eases, RoutesOn

LEMMA GoneOn ==
  ASSUME GoneFirst, NEW t \in ChannelThreads, Eases(t)
  PROVE  GoneFirst'
  BY DEF GoneFirst, Eases, HolderAges, ClearsOn, OthersGoOn

LEMMA NamedOn ==
  ASSUME RoutesNamed, NEW t \in ChannelThreads, t # "binder", OthersGoOn(t),
         Routes' \subseteq Routes
  PROVE  RoutesNamed'
<1>1. job'["binder"] = job["binder"]
  BY DEF OthersGoOn, ChannelThreads
<1> QED BY <1>1 DEF RoutesNamed

LEMMA EasesRests ==
  ASSUME ChannelTypes, ChannelTypes', RestInv, NEW t \in ChannelThreads, Eases(t),
         YoungPeer', RoutesNamed'
  PROVE  RestInv'
  BY OwedOn, PlacedOn, LeadOn, GoneOn DEF RestInv

\* A step of another thread than the installer at its first stages: the peer is
\* not young.
Mature ==
  \/ holder.state # "new"
  \/ job["callback"].at # "idle" \/ job["manager"].at # "idle"
  \/ job["installer"].at \notin InTheInstall \cup {"idle"}
LEMMA MatureOn ==
  ASSUME YoungPeer, Mature, holder'.state = "new" => holder.state = "new"
  PROVE  YoungPeer'
  BY DEF YoungPeer, Mature

\* A step of the installer that leaves all but its stage and the hooks.
LEMMA YoungOn ==
  ASSUME YoungPeer, OthersGoOn("installer"),
         holder'.state = "new" =>
           /\ holder.state = "new" /\ holder'.channel = holder.channel
           /\ holder'.revision = holder.revision /\ holder'.observed = holder.observed,
         \A ch \in Channels :
           chan'[ch].state = chan[ch].state /\ chan'[ch].events = chan[ch].events,
         setup' = setup,
         LET j == job["installer"]
             i == job'["installer"]
         IN /\ i.allow = j.allow /\ i.observed = j.observed /\ i.ch = j.ch
            /\ i.rev = j.rev /\ i.old = j.old
            /\ holder.state = "new" => i.at \in InTheInstall \cup {"idle"}
            /\ holder.state = "new" /\ i.at # "idle" => j.at # "idle"
            /\ i.at \in {"purge", "clearOld"} => j.at \in {"purge", "clearOld"}
  PROVE  YoungPeer'
<1> SUFFICES ASSUME holder'.state = "new" PROVE YoungPeer'
  BY DEF YoungPeer
<1>1. /\ holder.state = "new" /\ holder'.channel = holder.channel
      /\ holder'.revision = holder.revision /\ holder'.observed = holder.observed
  OBVIOUS
<1>2. job'["callback"] = job["callback"] /\ job'["manager"] = job["manager"]
  BY DEF OthersGoOn, ChannelThreads
<1>3. job["installer"].at # "idle" => YoungTask
  BY <1>1 DEF YoungPeer
<1>4. job'["installer"].at # "idle" => YoungTask'
  BY <1>1, <1>3 DEF YoungTask
<1> QED BY <1>1, <1>2, <1>4 DEF YoungPeer

\* Where a thread goes with the same work, and after an event.
LEMMA GoneTo ==
  ASSUME ChannelTypes, NEW t \in ChannelThreads, NEW stage, GoTo(t, stage)
  PROVE  /\ OthersGoOn(t) /\ job'[t].at = stage
         /\ job'[t].ch = job[t].ch /\ job'[t].rev = job[t].rev
         /\ job'[t].old = job[t].old /\ job'[t].inside = job[t].inside
         /\ job'[t].allow = job[t].allow /\ job'[t].observed = job[t].observed
  BY DEF ChannelTypes, TaskTypes, ChannelTasks, GoTo, OthersGoOn
LEMMA GoneOnTo ==
  ASSUME ChannelTypes, NEW t \in ChannelThreads, Go(t, AfterEvent(t))
  PROVE  /\ OthersGoOn(t)
         /\ t \in Workers => /\ job'[t].ch = job[t].ch /\ job'[t].rev = job[t].rev
                             /\ job'[t].at = IF t = "installer" THEN "drain" ELSE "drained"
         /\ t \notin Workers => job'[t].at = "idle"
<1>1. job'[t] = AfterEvent(t) /\ OthersGoOn(t)
  BY AfterEventTyped, TaskSet DEF ChannelTypes, OthersGoOn
<1> QED BY <1>1, AfterEventTyped DEF ChannelTypes, Workers, IdleTask
LEMMA WentIdle ==
  ASSUME ChannelTypes, NEW t \in ChannelThreads, Go(t, IdleTask)
  PROVE  OthersGoOn(t) /\ job'[t] = IdleTask /\ job'[t].at = "idle"
  BY IdleTaskTyped, TaskSet DEF ChannelTypes, OthersGoOn, IdleTask

(***************************************************************************)
(* A step that touches its thread alone, or the thread and the routes.     *)
(***************************************************************************)
LEMMA TaskEases ==
  ASSUME ChannelTypes, NEW t \in ChannelThreads, OthersGoOn(t), holder' = holder,
         \A ch \in Channels, k \in HookKinds : chan'[ch].hooks[k] = chan[ch].hooks[k],
         \A rev \in Revisions :
           setup[rev].phase = "cancelled" => setup'[rev].phase = "cancelled",
         \A ch \in Channels : Clears(t, ch) => Clears(t, ch)' \/ Present(ch),
         job[t].at # "retire", job'[t].at # "retire", RoutesOn(t),
         t = "installer" => HooksAwaitedOn
  PROVE  Eases(t)
<1>1. HolderAges(t) /\ HooksEase /\ ClearsOn(t)
  BY DEF HolderAges, HooksEase, ClearsOn
<1>2. t # "installer" => HooksAwaitedOn
  BY DEF HooksAwaitedOn, HooksAwaited, OthersGoOn, ChannelThreads
<1> QED BY <1>1, <1>2 DEF Eases

LEMMA RoutesStay ==
  ASSUME NEW t, route' = route, job[t].at \notin {"purge", "purgeEnd"}
  PROVE  RoutesOn(t) /\ Routes' = Routes
  BY DEF RoutesOn, Routes, Purges

(***************************************************************************)
(* Handing in a channel.                                                   *)
(***************************************************************************)
LEMMA RegisterRests ==
  ASSUME ChannelInv, ChannelInv', RestInv, Register
  PROVE  RestInv'
<1> DEFINE t == "installer"
<1>1. /\ t \in ChannelThreads /\ job[t].at = "idle" /\ holder.state = "new"
      /\ holder' = [holder EXCEPT !.state = "live"]
      /\ UNCHANGED <<chan, setup, job, mutation, route, heard, spare>>
      /\ ChannelTypes /\ ChannelTypes' /\ holder \in Holders
  BY HolderNumbers DEF Register, At, ChannelThreads, ChannelInv
<1>2. /\ holder'.channel = holder.channel /\ holder'.revision = holder.revision
      /\ holder'.opened = holder.opened /\ holder'.state = "live"
      /\ holder'.cleanup = holder.cleanup
  BY <1>1 DEF Holders
<1>3. OthersGoOn(t) /\ HolderAges(t) /\ HooksEase /\ ClearsOn(t)
  BY <1>1, <1>2 DEF OthersGoOn, HolderAges, HooksEase, ClearsOn, Clears
<1>4. RoutesOn(t) /\ HooksAwaitedOn
  BY <1>1, <1>2 DEF RoutesOn, Routes, Purges, HooksAwaitedOn, HooksAwaited
<1>5. RoutesNamed'
  BY <1>1 DEF RestInv, RoutesNamed, Routes
<1>6. YoungPeer'
  BY <1>2 DEF YoungPeer
<1> QED BY <1>1, <1>3, <1>4, <1>5, <1>6, EasesRests DEF Eases

LEMMA PurgeOldRests ==
  ASSUME ChannelInv, ChannelInv', RestInv, PurgeOld
  PROVE  RestInv'
<1> DEFINE t == "installer"
<1>1. /\ t \in ChannelThreads /\ job[t].at = "purge" /\ GoTo(t, "clearOld")
      /\ route' = Purged(route, job[t].old)
      /\ UNCHANGED <<holder, chan, setup, mutation, heard, spare>>
      /\ ChannelTypes /\ ChannelTypes'
  BY DEF PurgeOld, At, ChannelThreads, ChannelInv
<1>2. /\ OthersGoOn(t) /\ job'[t].at = "clearOld"
      /\ job'[t].ch = job[t].ch /\ job'[t].rev = job[t].rev /\ job'[t].old = job[t].old
      /\ job'[t].allow = job[t].allow /\ job'[t].observed = job[t].observed
  BY <1>1, GoneTo
<1>3. \A lease \in Routes' : lease \in Routes /\ lease # job[t].old
  BY <1>1 DEF Routes, Purged, ChannelTypes, RouteTypes
<1>4. RoutesOn(t)
  BY <1>1, <1>3 DEF RoutesOn, Purges
<1>5. RoutesNamed'
  BY <1>2, <1>3, NamedOn, <1>1 DEF RestInv
<1>6. HooksAwaitedOn
  BY <1>1, <1>2 DEF HooksAwaitedOn, HooksAwaited, BeforeHooks
<1>7. \A ch \in Channels : Clears(t, ch) => Clears(t, ch)'
  BY <1>1, <1>2 DEF Clears, BeforeDrain, WhileDraining
<1>8. Eases(t)
  BY <1>1, <1>2, <1>4, <1>6, <1>7, TaskEases
<1>9. YoungPeer'
  BY <1>1, <1>2, YoungOn DEF RestInv, InTheInstall, BeforeHooks
<1> QED BY <1>1, <1>5, <1>8, <1>9, EasesRests

\* The installer's lease holds as long as its revision is the present one.
LEMMA LeaseHolds ==
  ASSUME ChannelInv, RestInv, HooksAwaited, NEW ch \in Channels, Present(ch)
  PROVE  LET j == job["installer"]
         IN j.ch = ch /\ LeaseIsCurrent(j.ch, j.rev, j.allow)
<1> DEFINE t == "installer"
<1>1. /\ t \in ChannelThreads /\ job[t].rev = holder.revision /\ job[t].at \in BeforeHooks
      /\ holder.channel = ch /\ holder.state \in {"live", "new"} /\ ch # NoChannel
  BY HolderNumbers DEF HooksAwaited, Present, ChannelThreads, ChannelInv, Holders
<1>2. job[t].ch = holder.channel
  BY <1>1 DEF ChannelInv, RevisionsOwned, Bears
<1>3. holder.state = "new" => job[t].allow
  BY <1>1 DEF RestInv, YoungPeer, YoungTask, BeforeHooks
<1> QED BY <1>1, <1>2, <1>3 DEF LeaseIsCurrent

LEMMA CheckLeaseRests ==
  ASSUME ChannelInv, ChannelInv', RestInv, CheckLease
  PROVE  RestInv'
<1> DEFINE t == "installer"
           j == job[t]
<1>1. /\ t \in ChannelThreads /\ job[t].at = "check"
      /\ GoTo(t, IF LeaseIsCurrent(j.ch, j.rev, j.allow) THEN "install" ELSE "clearNew")
      /\ UNCHANGED <<holder, chan, setup, mutation, route, heard, spare>>
      /\ ChannelTypes /\ ChannelTypes'
  BY DEF CheckLease, At, ChannelThreads, ChannelInv
<1>2. /\ OthersGoOn(t)
      /\ job'[t].at = IF LeaseIsCurrent(j.ch, j.rev, j.allow) THEN "install" ELSE "clearNew"
      /\ job'[t].ch = job[t].ch /\ job'[t].rev = job[t].rev /\ job'[t].old = job[t].old
      /\ job'[t].allow = job[t].allow /\ job'[t].observed = job[t].observed
  BY <1>1, GoneTo
<1>3. RoutesOn(t) /\ Routes' = Routes
  BY <1>1, RoutesStay
<1>4. RoutesNamed'
  BY <1>1, <1>2, <1>3, NamedOn DEF RestInv
<1>5. HooksAwaitedOn
  <2> SUFFICES ASSUME HooksAwaited, NEW ch \in Channels, Present(ch) PROVE HooksAwaited'
    BY DEF HooksAwaitedOn
  <2>1. LeaseIsCurrent(j.ch, j.rev, j.allow)
    BY LeaseHolds
  <2> QED BY <1>1, <1>2, <2>1 DEF HooksAwaited, BeforeHooks
<1>6. \A ch \in Channels : Clears(t, ch) => Clears(t, ch)'
  BY <1>1, <1>2 DEF Clears, BeforeDrain, WhileDraining
<1>7. Eases(t)
  BY <1>1, <1>2, <1>3, <1>5, <1>6, TaskEases
<1>8. holder.state = "new" => LeaseIsCurrent(j.ch, j.rev, j.allow)
  BY <1>1 DEF RestInv, YoungPeer, YoungTask, LeaseIsCurrent
<1>9. YoungPeer'
  BY <1>1, <1>2, <1>8, YoungOn DEF RestInv, InTheInstall, BeforeHooks
<1> QED BY <1>1, <1>4, <1>7, <1>9, EasesRests

LEMMA InstallChannelHookRests ==
  ASSUME ChannelInv, ChannelInv', RestInv, InstallChannelHook
  PROVE  RestInv'
<1> DEFINE t == "installer"
           hook == NextHook(job[t].ch, job[t].rev)
<1>1. /\ t \in ChannelThreads /\ job[t].at = "install" /\ hook # "done"
      /\ UNCHANGED <<holder, setup, route, heard, spare>>
      /\ \/ /\ LeaseIsCurrent(job[t].ch, job[t].rev, job[t].allow) /\ job' = job
            /\ chan' = [chan EXCEPT ![job[t].ch].hooks[hook] = job[t].rev]
         \/ /\ ~LeaseIsCurrent(job[t].ch, job[t].rev, job[t].allow)
            /\ GoTo(t, "cancel") /\ chan' = chan
      /\ ChannelTypes /\ ChannelTypes'
  BY DEF InstallChannelHook, At, ChannelThreads, ChannelInv
<1>2. hook \in HookKinds
  BY <1>1 DEF NextHook, HookKinds
<1>3. RoutesOn(t) /\ Routes' = Routes
  BY <1>1, RoutesStay
<1>4. CASE /\ LeaseIsCurrent(job[t].ch, job[t].rev, job[t].allow) /\ job' = job
           /\ chan' = [chan EXCEPT ![job[t].ch].hooks[hook] = job[t].rev]
  <2> HIDE DEF hook
  <2>1. /\ job[t].ch \in Channels /\ Present(job[t].ch) /\ holder.revision = job[t].rev
    BY <1>1, <1>4 DEF ChannelTypes, AtWork, WorkOK, Workers, LeaseIsCurrent, Present
  <2>2. \A ch \in Channels :
          /\ chan'[ch].state = chan[ch].state /\ chan'[ch].events = chan[ch].events
          /\ \A k \in HookKinds :
               chan'[ch].hooks[k] =
                 IF ch = job[t].ch /\ k = hook THEN job[t].rev ELSE chan[ch].hooks[k]
    <3> SUFFICES ASSUME NEW ch \in Channels
                 PROVE  /\ chan'[ch].state = chan[ch].state /\ chan'[ch].events = chan[ch].events
                        /\ \A k \in HookKinds :
                             chan'[ch].hooks[k] = IF ch = job[t].ch /\ k = hook
                                                  THEN job[t].rev ELSE chan[ch].hooks[k]
      OBVIOUS
    <3>1. chan[ch] \in ChannelRecords /\ chan[ch].hooks \in [HookKinds -> Revisions]
      BY <1>1 DEF ChannelTypes, RecordTypes, ChannelRecords
    <3>2. CASE ch = job[t].ch
      <4>1. chan'[ch] = [chan[ch] EXCEPT !.hooks[hook] = job[t].rev]
        BY <1>1, <1>4, <2>1, <3>2 DEF ChannelTypes, RecordTypes
      <4> QED BY <1>2, <3>1, <3>2, <4>1 DEF ChannelRecords
    <3>3. CASE ch # job[t].ch
      <4>1. chan'[ch] = chan[ch]
        BY <1>1, <1>4, <3>3 DEF ChannelTypes, RecordTypes
      <4> QED BY <3>3, <4>1
    <3> QED BY <3>2, <3>3
  <2>3. HooksEase
    BY <2>1, <2>2 DEF HooksEase
  <2>4. OthersGoOn(t) /\ HolderAges(t) /\ ClearsOn(t) /\ HooksAwaitedOn
    BY <1>1, <1>4 DEF OthersGoOn, HolderAges, ClearsOn, Clears, HooksAwaitedOn, HooksAwaited
  <2>5. RoutesNamed'
    BY <1>1, <1>3, <2>4, NamedOn DEF RestInv
  <2>6. YoungPeer'
    BY <1>1, <1>4, <2>2, <2>4, YoungOn DEF RestInv, InTheInstall, BeforeHooks
  <2> QED BY <1>1, <1>3, <2>3, <2>4, <2>5, <2>6, EasesRests DEF Eases
<1>5. CASE /\ ~LeaseIsCurrent(job[t].ch, job[t].rev, job[t].allow)
           /\ GoTo(t, "cancel") /\ chan' = chan
  <2>1. /\ OthersGoOn(t) /\ job'[t].at = "cancel"
        /\ job'[t].ch = job[t].ch /\ job'[t].rev = job[t].rev /\ job'[t].old = job[t].old
    BY <1>1, <1>5, GoneTo
  <2>2. RoutesNamed'
    BY <1>1, <1>3, <2>1, NamedOn DEF RestInv
  <2>3. HooksAwaitedOn
    BY <1>5, LeaseHolds DEF HooksAwaitedOn
  <2>4. \A ch \in Channels : Clears(t, ch) => Clears(t, ch)'
    BY <1>1, <2>1 DEF Clears, BeforeDrain, WhileDraining
  <2>5. Eases(t)
    BY <1>1, <1>3, <1>5, <2>1, <2>3, <2>4, TaskEases
  <2>6. holder.state # "new"
    BY <1>1, <1>5 DEF RestInv, YoungPeer, YoungTask, LeaseIsCurrent
  <2>7. YoungPeer'
    BY <1>1, <2>6, MatureOn DEF RestInv, Mature
  <2> QED BY <1>1, <2>2, <2>5, <2>7, EasesRests
<1> QED BY <1>1, <1>4, <1>5

LEMMA InstalledRests ==
  ASSUME ChannelInv, ChannelInv', RestInv, Installed
  PROVE  RestInv'
<1> DEFINE t == "installer"
           j == job[t]
           valid == LeaseIsCurrent(j.ch, j.rev, j.allow)
           queue == setup[j.rev].deferred
           draining == [phase |-> "draining",
                        deferred |-> IF j.observed
                                     THEN <<[kind |-> "open", n |-> 0]>> \o queue
                                     ELSE queue]
<1>1. /\ t \in ChannelThreads /\ job[t].at = "install" /\ NextHook(j.ch, j.rev) = "done"
      /\ UNCHANGED <<holder, chan, route, heard, spare>>
      /\ \/ /\ valid /\ GoTo(t, "drain")
            /\ setup' = [setup EXCEPT ![j.rev] = draining]
         \/ /\ valid /\ chan[j.ch].state = "closed"
            /\ GoTo(t, "cancelClosed") /\ setup' = setup
         \/ ~valid /\ GoTo(t, "cancel") /\ setup' = setup
      /\ ChannelTypes /\ ChannelTypes'
  BY DEF Installed, At, ChannelThreads, ChannelInv
<1>2. /\ OthersGoOn(t) /\ job'[t].at \in {"drain", "cancel", "cancelClosed"}
      /\ job'[t].ch = j.ch /\ job'[t].rev = j.rev
      /\ job'[t].allow = j.allow /\ job'[t].observed = j.observed
      /\ job'[t].at = "drain" => valid /\ setup' = [setup EXCEPT ![j.rev] = draining]
      /\ job'[t].at # "drain" => setup' = setup
      /\ job'[t].at = "cancelClosed" => chan[j.ch].state = "closed"
      /\ job'[t].at = "cancel" => ~valid
  <2>1. CASE valid /\ GoTo(t, "drain") /\ setup' = [setup EXCEPT ![j.rev] = draining]
    BY <1>1, <2>1, GoneTo
  <2>2. CASE valid /\ chan[j.ch].state = "closed" /\ GoTo(t, "cancelClosed") /\ setup' = setup
    BY <1>1, <2>2, GoneTo
  <2>3. CASE ~valid /\ GoTo(t, "cancel") /\ setup' = setup
    BY <1>1, <2>3, GoneTo
  <2> QED BY <1>1, <2>1, <2>2, <2>3
<1>3. /\ j.ch \in Channels /\ j.rev \in Revisions /\ setup[j.rev].phase = "installing"
      /\ setup[j.rev] \in Setups
  BY <1>1 DEF ChannelInv, PhasesInOrder, BeforeDrain, ChannelTypes, AtWork, WorkOK,
     Workers, TaskTypes, ChannelTasks, SetupTypes
<1>4. \A k \in HookKinds : chan[j.ch].hooks[k] = j.rev
  BY <1>1 DEF NextHook, HookKinds
<1> HIDE DEF valid, draining
<1>5. RoutesOn(t) /\ Routes' = Routes
  BY <1>1, RoutesStay
<1>6. RoutesNamed'
  BY <1>1, <1>2, <1>5, NamedOn DEF RestInv
<1>7. HooksAwaitedOn
  <2> SUFFICES ASSUME HooksAwaited, NEW ch \in Channels, Present(ch) PROVE AllHooked(ch)'
    BY DEF HooksAwaitedOn
  <2>1. j.ch = ch
    BY LeaseHolds
  <2> QED BY <1>1, <1>4, <2>1 DEF AllHooked, HooksAwaited
<1>8. \A ch \in Channels : Clears(t, ch) => Clears(t, ch)' \/ Present(ch)
  BY <1>1, <1>2 DEF valid, LeaseIsCurrent, Present, Clears, BeforeDrain
<1>9. \A rev \in Revisions : setup[rev].phase = "cancelled" => setup'[rev].phase = "cancelled"
  <2> SUFFICES ASSUME NEW rev \in Revisions, setup[rev].phase = "cancelled"
               PROVE  setup'[rev] = setup[rev]
    OBVIOUS
  <2>1. rev # j.rev
    BY <1>3
  <2> HIDE DEF j
  <2>2. CASE setup' = [setup EXCEPT ![j.rev] = draining]
    BY <1>1, <2>1, <2>2 DEF ChannelTypes, SetupTypes
  <2> QED BY <1>2, <2>2
<1>10. Eases(t)
  BY <1>1, <1>2, <1>5, <1>7, <1>8, <1>9, TaskEases
<1>11. YoungPeer'
  <2> SUFFICES ASSUME holder.state = "new" PROVE YoungPeer'
    BY <1>1 DEF YoungPeer
  <2>1. /\ YoungTask /\ chan[j.ch].state = "new"
        /\ job["callback"].at = "idle" /\ job["manager"].at = "idle" /\ holder.observed = {}
        /\ \A ch \in Channels : chan[ch].state = "new" /\ chan[ch].events = <<>>
    BY <1>1, <1>3 DEF RestInv, YoungPeer
  <2>2. j.ch = holder.channel /\ j.rev = holder.revision /\ valid /\ ~j.observed /\ queue = <<>>
    BY <2>1 DEF YoungTask, valid, LeaseIsCurrent
  <2>3. job'[t].at = "drain"
    BY <1>2, <2>1, <2>2
  <2>4. setup'[holder.revision].phase = "draining" /\ setup'[holder.revision].deferred = <<>>
    <3>1. setup'[j.rev] = draining
      BY <1>1, <1>2, <1>3, <2>3 DEF ChannelTypes, SetupTypes
    <3> QED BY <2>2, <3>1 DEF draining
  <2>5. job'["callback"] = job["callback"] /\ job'["manager"] = job["manager"]
    BY <1>2 DEF OthersGoOn, ChannelThreads
  <2>6. YoungTask'
    BY <1>1, <1>2, <2>1, <2>3, <2>4 DEF YoungTask
  <2> QED BY <1>1, <2>1, <2>3, <2>5, <2>6 DEF YoungPeer, InTheInstall
<1> QED BY <1>1, <1>6, <1>10, <1>11, EasesRests

LEMMA CancelRests ==
  ASSUME ChannelInv, ChannelInv', RestInv, Cancel
  PROVE  RestInv'
<1> DEFINE t == "installer"
           j == job[t]
           none == [phase |-> "cancelled", deferred |-> <<>>]
           stage == IF j.at = "cancel" THEN "drain" ELSE "run"
<1>1. /\ t \in ChannelThreads /\ job[t].at \in {"cancel", "cancelClosed"}
      /\ setup' = [setup EXCEPT ![j.rev] = none]
      /\ job' = [job EXCEPT ![t] = [j EXCEPT !.at = stage, !.kind = "end"]]
      /\ UNCHANGED <<holder, chan, mutation, route, heard, spare>>
      /\ ChannelTypes /\ ChannelTypes' /\ j \in ChannelTasks /\ j.rev \in Revisions
  BY HolderNumbers DEF Cancel, Go, ChannelThreads, ChannelInv, ChannelTypes, TaskTypes,
     ChannelTasks
<1>2. stage \in WhileDraining /\ stage # "retire"
  BY DEF WhileDraining
<1>3. OthersGoOn(t) /\ job'[t].at = stage /\ job'[t].ch = j.ch /\ job'[t].rev = j.rev
  BY <1>1 DEF ChannelTypes, TaskTypes, ChannelTasks, OthersGoOn
<1>4. setup'[j.rev] = none /\ none.phase = "cancelled"
  BY <1>1 DEF ChannelTypes, SetupTypes
<1>5. \A rev \in Revisions : setup[rev].phase = "cancelled" => setup'[rev].phase = "cancelled"
  <2> SUFFICES ASSUME NEW rev \in Revisions, setup[rev].phase = "cancelled"
               PROVE  setup'[rev].phase = "cancelled"
    OBVIOUS
  <2>1. rev # j.rev => setup'[rev] = setup[rev]
    BY <1>1 DEF ChannelTypes, SetupTypes
  <2> QED BY <1>4, <2>1
<1> HIDE DEF stage, none
<1>6. RoutesOn(t) /\ Routes' = Routes
  BY <1>1, RoutesStay
<1>7. RoutesNamed'
  BY <1>1, <1>3, <1>6, NamedOn DEF RestInv
<1>8. HooksAwaitedOn
  BY <1>1 DEF HooksAwaitedOn, HooksAwaited, BeforeHooks
<1>9. \A ch \in Channels : Clears(t, ch) => Clears(t, ch)'
  BY <1>1, <1>2, <1>3, <1>4 DEF Clears
<1>10. Eases(t)
  BY <1>1, <1>2, <1>3, <1>5, <1>6, <1>8, <1>9, TaskEases
<1>11. YoungPeer'
  BY <1>1, MatureOn DEF RestInv, Mature, InTheInstall, BeforeHooks
<1> QED BY <1>1, <1>7, <1>10, <1>11, EasesRests

LEMMA DrainEventsRests ==
  ASSUME ChannelInv, ChannelInv', RestInv, DrainEvents
  PROVE  RestInv'
<1> DEFINE t == "installer"
           j == job[t]
           s == setup[j.rev]
<1>1. /\ t \in ChannelThreads /\ job[t].at = "drain"
      /\ UNCHANGED <<holder, chan, mutation, route, heard, spare>>
      /\ \/ /\ s.deferred # <<>>
            /\ setup' = [setup EXCEPT ![j.rev].deferred = Tail(@)]
            /\ Go(t, [j EXCEPT !.at = "run", !.kind = Head(s.deferred).kind,
                               !.n = Head(s.deferred).n])
         \/ s.phase = "cancelled" /\ GoTo(t, "clearNew") /\ setup' = setup
         \/ /\ s.phase # "cancelled" /\ setup' = [setup EXCEPT ![j.rev].phase = "active"]
            /\ Go(t, IdleTask)
      /\ ChannelTypes /\ ChannelTypes' /\ j \in ChannelTasks /\ j.rev \in Revisions
  BY HolderNumbers DEF DrainEvents, At, ChannelThreads, ChannelInv, ChannelTypes, TaskTypes,
     ChannelTasks
<1>2. RoutesOn(t) /\ Routes' = Routes
  BY <1>1, RoutesStay
<1>3. HooksAwaitedOn
  BY <1>1 DEF HooksAwaitedOn, HooksAwaited, BeforeHooks
<1>4. setup[j.rev] \in Setups
  BY <1>1 DEF ChannelTypes, SetupTypes
<1>5. holder.state = "new" => s.deferred = <<>> /\ s.phase # "cancelled"
  BY <1>1 DEF RestInv, YoungPeer, YoungTask
<1>6. CASE /\ s.deferred # <<>>
           /\ setup' = [setup EXCEPT ![j.rev].deferred = Tail(@)]
           /\ Go(t, [j EXCEPT !.at = "run", !.kind = Head(s.deferred).kind,
                              !.n = Head(s.deferred).n])
  <2>1. /\ OthersGoOn(t) /\ job'[t].at = "run" /\ job'[t].ch = j.ch /\ job'[t].rev = j.rev
    BY <1>1, <1>6 DEF ChannelTypes, TaskTypes, ChannelTasks, OthersGoOn, Go
  <2>2. \A rev \in Revisions : setup'[rev].phase = setup[rev].phase
    <3> SUFFICES ASSUME NEW rev \in Revisions PROVE setup'[rev].phase = setup[rev].phase
      OBVIOUS
    <3>1. setup[rev] \in Setups
      BY <1>1 DEF ChannelTypes, SetupTypes
    <3> QED BY <1>1, <1>4, <1>6, <3>1 DEF ChannelTypes, SetupTypes, Setups
  <2>3. \A ch \in Channels : Clears(t, ch) => Clears(t, ch)'
    BY <1>1, <2>1, <2>2 DEF Clears, BeforeDrain, WhileDraining
  <2>4. Eases(t) /\ RoutesNamed'
    BY <1>1, <1>2, <1>3, <2>1, <2>2, <2>3, TaskEases, NamedOn DEF RestInv
  <2>5. YoungPeer'
    BY <1>1, <1>5, <1>6, MatureOn DEF RestInv, Mature
  <2> QED BY <1>1, <2>4, <2>5, EasesRests
<1>7. CASE s.phase = "cancelled" /\ GoTo(t, "clearNew") /\ setup' = setup
  <2>1. /\ OthersGoOn(t) /\ job'[t].at = "clearNew" /\ job'[t].ch = j.ch
    BY <1>1, <1>7, GoneTo
  <2>2. \A ch \in Channels : Clears(t, ch) => Clears(t, ch)'
    BY <1>1, <2>1 DEF Clears, BeforeDrain
  <2>3. Eases(t) /\ RoutesNamed'
    BY <1>1, <1>2, <1>3, <1>7, <2>1, <2>2, TaskEases, NamedOn DEF RestInv
  <2>4. YoungPeer'
    BY <1>1, <1>5, <1>7, MatureOn DEF RestInv, Mature
  <2> QED BY <1>1, <2>3, <2>4, EasesRests
<1>8. CASE /\ s.phase # "cancelled" /\ setup' = [setup EXCEPT ![j.rev].phase = "active"]
           /\ Go(t, IdleTask)
  <2>1. OthersGoOn(t) /\ job'[t].at = "idle"
    BY <1>1, <1>8, WentIdle
  <2>2. \A rev \in Revisions : setup[rev].phase = "cancelled" => setup'[rev].phase = "cancelled"
    BY <1>1, <1>8 DEF ChannelTypes, SetupTypes
  <2>3. \A ch \in Channels : ~Clears(t, ch)
    BY <1>1, <1>8 DEF Clears, BeforeDrain
  <2>4. Eases(t) /\ RoutesNamed'
    BY <1>1, <1>2, <1>3, <2>1, <2>2, <2>3, TaskEases, NamedOn DEF RestInv
  <2>5. job'["callback"] = job["callback"] /\ job'["manager"] = job["manager"]
    BY <2>1 DEF OthersGoOn, ChannelThreads
  <2>6. YoungPeer'
    BY <1>1, <2>1, <2>5 DEF RestInv, YoungPeer
  <2> QED BY <1>1, <2>4, <2>6, EasesRests
<1> QED BY <1>1, <1>6, <1>7, <1>8

(***************************************************************************)
(* RTC's side.                                                             *)
(***************************************************************************)
LEMMA TransportRests ==
  ASSUME ChannelInv, ChannelInv', RestInv, NEW ch \in Channels,
         TransportOpens(ch) \/ MessageArrives(ch) \/ TransportCloses(ch)
  PROVE  RestInv'
<1> DEFINE t == "installer"
<1>1. PICK kind \in HookKinds, state \in {"open", "closed"} :
        Happens(ch, kind, state) /\ (chan[ch].state = "open" \/ holder.state = "live")
  BY DEF TransportOpens, MessageArrives, TransportCloses, HookKinds
<1>2. /\ t \in ChannelThreads
      /\ UNCHANGED <<holder, setup, job, mutation, route, heard, spare>>
      /\ chan' = [chan EXCEPT ![ch].state = state, ![ch].sent = @ + 1,
                              ![ch].events = Append(@, [kind |-> kind,
                                                        n |-> chan[ch].sent + 1])]
      /\ ChannelTypes /\ ChannelTypes'
  BY <1>1 DEF Happens, ChannelThreads, ChannelInv
<1>3. \A c \in Channels : chan'[c].hooks = chan[c].hooks
  BY <1>2 DEF ChannelTypes, RecordTypes, ChannelRecords
<1>4. OthersGoOn(t) /\ HolderAges(t) /\ HooksEase /\ HooksAwaitedOn
  BY <1>2, <1>3 DEF OthersGoOn, HolderAges, HooksEase, HooksAwaitedOn, HooksAwaited
<1>5. ClearsOn(t)
  BY <1>2 DEF ClearsOn, Clears, RestInv, GoneFirst
<1>6. RoutesOn(t) /\ RoutesNamed'
  BY <1>2 DEF RoutesOn, Routes, Purges, RoutesNamed, RestInv
<1>7. YoungPeer'
  BY <1>1, <1>2, MatureOn DEF RestInv, YoungPeer, Mature
<1> QED BY <1>2, <1>4, <1>5, <1>6, <1>7, EasesRests DEF Eases

LEMMA CallbackRests ==
  ASSUME ChannelInv, ChannelInv', RestInv, NEW ch \in Channels, Callback(ch)
  PROVE  RestInv'
<1> DEFINE t == "callback"
<1>1. PICK i \in Nat, rev \in Revisions, event \in ChannelEvents :
        /\ Takes(ch, i, rev, event)
        /\ UNCHANGED <<holder, mutation, route, heard, spare>>
        /\ job[t].at = "idle" /\ OthersGoOn(t)
        /\ \A c \in Channels : /\ chan'[c].hooks = chan[c].hooks
        /\ \/ Queues(rev, event)
           \/ setup' = setup /\ job'[t].at = "drained"
           \/ setup' = setup /\ job'[t].at = "run"
  BY CallbackDoes DEF ChannelInv
<1>2. t \in ChannelThreads /\ ChannelTypes /\ ChannelTypes'
  BY DEF ChannelThreads, ChannelInv
<1>3. job'[t].at \in {"drained", "run"} /\ ~(\E c \in Channels : Clears(t, c))
  BY <1>1 DEF Queues, Clears
<1>4. \A r \in Revisions : setup'[r].phase = setup[r].phase
  BY <1>1 DEF Queues
<1>5. RoutesOn(t) /\ Routes' = Routes
  BY <1>1, RoutesStay
<1>6. Eases(t) /\ RoutesNamed'
  BY <1>1, <1>2, <1>3, <1>4, <1>5, TaskEases, NamedOn DEF RestInv
<1>7. chan[ch].events # <<>>
  BY <1>1 DEF Takes
<1>8. YoungPeer'
  BY <1>1, <1>7, MatureOn DEF RestInv, YoungPeer, Mature
<1> QED BY <1>2, <1>6, <1>8, EasesRests

LEMMA DrainedRests ==
  ASSUME ChannelInv, ChannelInv', RestInv, Drained
  PROVE  RestInv'
<1> DEFINE t == "callback"
<1>1. /\ t \in ChannelThreads /\ job[t].at = "drained"
      /\ GoTo(t, "lock") \/ Go(t, IdleTask)
      /\ UNCHANGED <<holder, chan, setup, mutation, route, heard, spare>>
      /\ ChannelTypes /\ ChannelTypes'
  BY DEF Drained, At, Go, GoTo, ChannelThreads, ChannelInv
<1>2. OthersGoOn(t) /\ job'[t].at \in {"lock", "idle"}
  BY <1>1, GoneTo, WentIdle
<1>3. \A c \in Channels : ~Clears(t, c)
  BY <1>1 DEF Clears
<1>4. RoutesOn(t) /\ Routes' = Routes
  BY <1>1, RoutesStay
<1>5. Eases(t) /\ RoutesNamed'
  BY <1>1, <1>2, <1>3, <1>4, TaskEases, NamedOn DEF RestInv
<1>6. YoungPeer'
  BY <1>1, MatureOn DEF RestInv, Mature
<1> QED BY <1>1, <1>5, <1>6, EasesRests

(***************************************************************************)
(* The work on an event.                                                   *)
(***************************************************************************)
LEMMA WorkRests ==
  ASSUME ChannelInv, ChannelInv', RestInv, NEW t \in Workers, job[t].at \in Telling,
         OthersGoOn(t), HolderAges(t), holder'.cleanup = holder.cleanup,
         job'[t].ch = job[t].ch, job'[t].rev = job[t].rev,
         job'[t].at \in {"commit", "tell", "retire", "drain", "drained"},
         t = "installer" => job'[t].at # "drained",
         job'[t].at = "retire" => holder'.state = "gone",
         UNCHANGED <<chan, setup, route>>
  PROVE  RestInv'
<1>1. t \in ChannelThreads /\ t # "binder" /\ ChannelTypes /\ ChannelTypes'
  BY DEF Workers, ChannelThreads, ChannelInv
<1>2. HooksEase
  BY DEF HooksEase
<1>3. RoutesOn(t) /\ RoutesNamed'
  BY <1>1, RoutesStay, NamedOn DEF RestInv, Telling
<1>4. HooksAwaitedOn
  <2>1. job'["installer"] = job["installer"] \/ t = "installer"
    BY DEF OthersGoOn, ChannelThreads
  <2> QED BY <2>1 DEF HooksAwaitedOn, HooksAwaited, HolderAges, BeforeHooks, Telling
<1>5. \A ch \in Channels : Clears(t, ch) => Clears(t, ch)'
  BY DEF Clears, Telling, BeforeDrain, WhileDraining, Workers
<1>6. ClearsOn(t)
  BY <1>5 DEF ClearsOn, Telling
<1>7. Eases(t)
  BY <1>2, <1>3, <1>4, <1>6 DEF Eases
<1>8. YoungPeer'
  <2>1. Mature
    BY DEF Mature, Telling, Workers, InTheInstall, BeforeHooks
  <2> QED BY <2>1, MatureOn DEF RestInv, HolderAges
<1> QED BY <1>1, <1>3, <1>7, <1>8, EasesRests

LEMMA HandleOpenRests ==
  ASSUME ChannelInv, ChannelInv', RestInv, NEW t \in Workers, HandleOpen(t)
  PROVE  RestInv'
<1> DEFINE dispatch == /\ LeaseIsCurrent(job[t].ch, job[t].rev, FALSE)
                       /\ ~holder.opened /\ ~holder.pending
           waiting == holder.pending \/ dispatch
<1>1. /\ t \in ChannelThreads /\ job[t].at = "run"
      /\ GoTo(t, "commit") \/ Go(t, AfterEvent(t))
      /\ \/ holder' = holder
         \/ holder' = [holder EXCEPT !.observed = @ \cup {job[t].ch}, !.pending = waiting]
      /\ UNCHANGED <<chan, setup, mutation, route, heard, spare>>
      /\ ChannelTypes /\ holder \in Holders
  BY HolderNumbers DEF HandleOpen, At, Go, GoTo, ChannelThreads, Workers, ChannelInv
<1> HIDE DEF waiting
<1>2. /\ holder'.revision = holder.revision /\ holder'.channel = holder.channel
      /\ holder'.opened = holder.opened /\ holder'.state = holder.state
      /\ holder'.cleanup = holder.cleanup
  BY <1>1 DEF Holders
<1>3. /\ OthersGoOn(t) /\ job'[t].ch = job[t].ch /\ job'[t].rev = job[t].rev
      /\ job'[t].at \in {"commit", "drain", "drained"}
      /\ t = "installer" => job'[t].at # "drained"
  BY <1>1, GoneTo, GoneOnTo
<1>4. HolderAges(t)
  BY <1>2 DEF HolderAges
<1>5. job[t].at \in Telling /\ UNCHANGED <<chan, setup, route>> /\ job'[t].at # "retire"
  BY <1>1, <1>3 DEF Telling
<1> QED BY <1>2, <1>3, <1>4, <1>5, WorkRests

LEMMA CommitOpenRests ==
  ASSUME ChannelInv, ChannelInv', RestInv, NEW t \in Workers, CommitOpen(t)
  PROVE  RestInv'
<1>1. /\ t \in ChannelThreads /\ job[t].at = "commit" /\ Go(t, AfterEvent(t))
      /\ \/ holder' = holder
         \/ holder' = [holder EXCEPT !.opened = TRUE, !.pending = FALSE]
      /\ UNCHANGED <<chan, setup, mutation, route, spare>>
      /\ ChannelTypes /\ holder \in Holders
  BY HolderNumbers DEF CommitOpen, At, ChannelThreads, Workers, ChannelInv
<1>2. /\ holder'.revision = holder.revision /\ holder'.channel = holder.channel
      /\ holder.opened => holder'.opened
      /\ holder'.state = holder.state /\ holder'.cleanup = holder.cleanup
  BY <1>1 DEF Holders
<1>3. /\ OthersGoOn(t) /\ job'[t].ch = job[t].ch /\ job'[t].rev = job[t].rev
      /\ job'[t].at \in {"drain", "drained"}
      /\ t = "installer" => job'[t].at # "drained"
  BY <1>1, GoneOnTo
<1>4. HolderAges(t)
  BY <1>2 DEF HolderAges
<1>5. job[t].at \in Telling /\ UNCHANGED <<chan, setup, route>> /\ job'[t].at # "retire"
  BY <1>1, <1>3 DEF Telling
<1> QED BY <1>2, <1>3, <1>4, <1>5, WorkRests

LEMMA HandleMessageRests ==
  ASSUME ChannelInv, ChannelInv', RestInv, NEW t \in Workers, HandleMessage(t)
  PROVE  RestInv'
<1>1. /\ t \in ChannelThreads /\ job[t].at = "run"
      /\ GoTo(t, "tell") \/ Go(t, AfterEvent(t))
      /\ UNCHANGED <<holder, chan, setup, mutation, route, heard, spare>>
      /\ ChannelTypes
  BY DEF HandleMessage, At, Go, GoTo, ChannelThreads, Workers, ChannelInv
<1>2. /\ OthersGoOn(t) /\ job'[t].ch = job[t].ch /\ job'[t].rev = job[t].rev
      /\ job'[t].at \in {"tell", "drain", "drained"}
      /\ t = "installer" => job'[t].at # "drained"
  BY <1>1, GoneTo, GoneOnTo
<1>3. HolderAges(t)
  BY <1>1 DEF HolderAges
<1>4. job[t].at \in Telling /\ UNCHANGED <<chan, setup, route>> /\ job'[t].at # "retire"
  BY <1>1, <1>2 DEF Telling
<1> QED BY <1>1, <1>2, <1>3, <1>4, WorkRests

LEMMA TellMessageRests ==
  ASSUME ChannelInv, ChannelInv', RestInv, NEW t \in Workers, TellMessage(t)
  PROVE  RestInv'
<1>1. /\ t \in ChannelThreads /\ job[t].at = "tell"
      /\ \/ Go(t, AfterEvent(t)) /\ holder' = holder
         \/ GoTo(t, "retire") /\ holder' = [holder EXCEPT !.state = "gone"]
      /\ UNCHANGED <<chan, setup, mutation, route, spare>>
      /\ ChannelTypes /\ holder \in Holders
  BY HolderNumbers DEF TellMessage, At, ChannelThreads, Workers, ChannelInv
<1>2. /\ OthersGoOn(t) /\ job'[t].ch = job[t].ch /\ job'[t].rev = job[t].rev
      /\ job'[t].at \in {"retire", "drain", "drained"}
      /\ t = "installer" => job'[t].at # "drained"
      /\ \/ holder' = holder /\ job'[t].at # "retire"
         \/ holder' = [holder EXCEPT !.state = "gone"] /\ job'[t].at = "retire"
  BY <1>1, GoneTo, GoneOnTo
<1>3. /\ holder'.revision = holder.revision /\ holder'.channel = holder.channel
      /\ holder'.opened = holder.opened /\ holder'.cleanup = holder.cleanup
      /\ holder' = holder \/ holder'.state = "gone"
  BY <1>1, <1>2 DEF Holders
<1>4. HolderAges(t)
  BY <1>2, <1>3 DEF HolderAges
<1>5. job'[t].at = "retire" => holder'.state = "gone"
  BY <1>1, <1>2 DEF Holders
<1>6. job[t].at \in Telling /\ UNCHANGED <<chan, setup, route>>
  BY <1>1 DEF Telling
<1> QED BY <1>2, <1>3, <1>4, <1>5, <1>6, WorkRests

(***************************************************************************)
(* The channel goes, or another one takes its place.                       *)
(***************************************************************************)
LEMMA LeavesRests ==
  ASSUME ChannelTypes, ChannelTypes', RestInv, YoungPeer',
         NEW t \in ChannelThreads, t # "binder", OthersGoOn(t),
         holder'.state = holder.state, holder'.cleanup = holder.cleanup,
         \A ch \in Channels, k \in HookKinds : chan'[ch].hooks[k] = chan[ch].hooks[k],
         t # "installer" => \A rev \in Revisions :
           setup[rev].phase = "cancelled" => setup'[rev].phase = "cancelled",
         \A ch \in Channels : holder.channel = ch \/ Clears(t, ch) => Clears(t, ch)',
         job'[t].at # "retire",
         \A ch \in Channels : Present(ch)' => HooksAwaited',
         \A lease \in Routes' :
           /\ lease \in Routes
           /\ OpenLease(lease.ch, lease.rev) \/ Purges(t, lease) => Purges(t, lease)'
           /\ holder.state # "gone" \/ LeaseOf(holder) # lease
  PROVE  RestInv'
<1>1. HooksOwed'
  <2> SUFFICES ASSUME NEW ch \in Channels, Hooked(ch)' PROVE Owed(ch)'
    BY DEF HooksOwed
  <2>1. Hooked(ch)
    BY DEF Hooked
  <2>2. CASE holder.channel = ch
    BY <2>2 DEF Owed
  <2>3. CASE ch \in holder.cleanup
    BY <2>3 DEF Owed
  <2>4. ASSUME NEW u \in ChannelThreads, Clears(u, ch) PROVE Owed(ch)'
    <3>1. u # t => Clears(u, ch)'
      BY <2>4, ClearsElsewhere
    <3> QED BY <2>4, <3>1 DEF Owed
  <2> QED BY <2>1, <2>2, <2>3, <2>4 DEF RestInv, HooksOwed, Present, Owed
<1>2. HooksPlaced'
  BY DEF HooksPlaced
<1>3. GoneFirst'
  BY DEF RestInv, GoneFirst, OthersGoOn
<1>4. RoutesNamed'
  BY NamedOn DEF RestInv
<1>5. RoutesLead'
  <2> SUFFICES ASSUME NEW lease \in Routes'
               PROVE  \E u \in ChannelThreads : Purges(u, lease)'
    BY DEF RoutesLead
  <2>1. ~(LeaseOf(holder) = lease /\ Retiring)
    BY DEF RestInv, GoneFirst, Retiring
  <2>2. ASSUME NEW u \in ChannelThreads, Purges(u, lease)
        PROVE  \E v \in ChannelThreads : Purges(v, lease)'
    BY <2>2 DEF OthersGoOn, Purges
  <2> QED BY <2>1, <2>2 DEF RestInv, RoutesLead
<1> QED BY <1>1, <1>2, <1>3, <1>4, <1>5 DEF RestInv

LEMMA HandleEndRests ==
  ASSUME ChannelInv, ChannelInv', RestInv, NEW t \in Workers, HandleEnd(t)
  PROVE  RestInv'
<1>1. /\ t \in ChannelThreads /\ t # "binder" /\ job[t].at = "run"
      /\ UNCHANGED <<chan, setup, mutation, route, heard, spare>>
      /\ \/ /\ LeaseIsCurrent(job[t].ch, job[t].rev, FALSE)
            /\ holder' = [Emptied(holder) EXCEPT !.observed = @ \ {job[t].ch}]
            /\ GoTo(t, "purgeEnd")
         \/ Go(t, AfterEvent(t)) /\ holder' = holder
      /\ ChannelTypes /\ ChannelTypes' /\ holder \in Holders /\ job[t].ch \in Channels
  BY HolderNumbers DEF HandleEnd, At, Workers, ChannelThreads, ChannelInv, ChannelTypes,
     AtWork, WorkOK
<1>2. CASE Go(t, AfterEvent(t)) /\ holder' = holder
  <2>1. /\ OthersGoOn(t) /\ job'[t].ch = job[t].ch /\ job'[t].rev = job[t].rev
        /\ job'[t].at \in {"drain", "drained"}
        /\ t = "installer" => job'[t].at # "drained"
    BY <1>1, <1>2, GoneOnTo
  <2>2. HolderAges(t)
    BY <1>2 DEF HolderAges
  <2>3. job[t].at \in Telling /\ UNCHANGED <<chan, setup, route>> /\ job'[t].at # "retire"
    BY <1>1, <2>1 DEF Telling
  <2> QED BY <1>2, <2>1, <2>2, <2>3, WorkRests
<1>3. CASE /\ LeaseIsCurrent(job[t].ch, job[t].rev, FALSE)
           /\ holder' = [Emptied(holder) EXCEPT !.observed = @ \ {job[t].ch}]
           /\ GoTo(t, "purgeEnd")
  <2>1. /\ OthersGoOn(t) /\ job'[t].at = "purgeEnd"
        /\ job'[t].ch = job[t].ch /\ job'[t].rev = job[t].rev
    BY <1>1, <1>3, GoneTo
  <2>2. /\ holder'.channel = NoChannel /\ holder'.state = holder.state
        /\ holder'.cleanup = holder.cleanup
    BY <1>1, <1>3 DEF Emptied, Holders
  <2>3. /\ holder.state = "live" /\ holder.channel = job[t].ch
        /\ holder.revision = job[t].rev
    BY <1>3 DEF LeaseIsCurrent
  <2>4. \A ch \in Channels : holder.channel = ch \/ Clears(t, ch) => Clears(t, ch)'
    BY <1>1, <2>1, <2>3 DEF Clears, BeforeDrain, WhileDraining
  <2>5. \A lease \in Routes' :
          /\ lease \in Routes
          /\ OpenLease(lease.ch, lease.rev) \/ Purges(t, lease) => Purges(t, lease)'
    BY <1>1, <2>1, <2>3 DEF Routes, Purges, OpenLease, LeaseIsCurrent
  <2>6. \A ch \in Channels : ~Present(ch)'
    BY <2>2, HolderNumbers DEF Present, ChannelInv
  <2>7. YoungPeer'
    BY <2>2, <2>3, MatureOn DEF RestInv, Mature
  <2> QED BY <1>1, <2>1, <2>2, <2>3, <2>4, <2>5, <2>6, <2>7, LeavesRests
<1> QED BY <1>1, <1>2, <1>3

LEMMA RetireChannelRests ==
  ASSUME ChannelInv, ChannelInv', RestInv, NEW t \in Workers \cup {"manager"},
         RetireChannel(t)
  PROVE  RestInv'
<1>1. /\ t \in ChannelThreads /\ t # "binder" /\ job[t].at = "retire"
      /\ UNCHANGED <<chan, setup, mutation, heard, spare>>
      /\ ChannelTypes /\ ChannelTypes' /\ holder \in Holders /\ job[t] \in ChannelTasks
  BY HolderNumbers DEF RetireChannel, At, Workers, ChannelThreads, ChannelInv
<1>2. holder.state = "gone"
  BY <1>1 DEF RestInv, GoneFirst
<1>3. CASE holder.channel = NoChannel
  <2>1. /\ holder' = [holder EXCEPT !.observed = {}] /\ route' = route
        /\ Go(t, AfterEvent(t))
    BY <1>3 DEF RetireChannel
  <2>2. /\ OthersGoOn(t) /\ job'[t].at \in {"drain", "drained", "idle"}
        /\ t = "installer" => /\ job'[t].ch = job[t].ch /\ job'[t].rev = job[t].rev
                              /\ job'[t].at = "drain"
    BY <1>1, <2>1, GoneOnTo DEF Workers
  <2>3. /\ holder'.channel = holder.channel /\ holder'.revision = holder.revision
        /\ holder'.opened = holder.opened /\ holder'.state = holder.state
        /\ holder'.cleanup = holder.cleanup
    BY <1>1, <2>1 DEF Holders
  <2>4. HolderAges(t) /\ HooksEase
    BY <1>1, <2>3 DEF HolderAges, HooksEase
  <2>5. \A ch \in Channels : Clears(t, ch) => Clears(t, ch)'
    BY <1>1, <2>2 DEF Clears, BeforeDrain, WhileDraining
  <2>6. ClearsOn(t)
    BY <1>1, <1>3, <2>2, <2>3, <2>5 DEF ClearsOn
  <2>7. RoutesOn(t) /\ RoutesNamed'
    BY <1>1, <2>1, <2>2, RoutesStay, NamedOn DEF RestInv
  <2>8. HooksAwaitedOn
    BY <1>2 DEF HooksAwaitedOn, Present
  <2>9. YoungPeer'
    BY <1>2, <2>3 DEF YoungPeer
  <2> QED BY <1>1, <2>2, <2>4, <2>6, <2>7, <2>8, <2>9, EasesRests DEF Eases
<1>4. CASE holder.channel # NoChannel
  <2>1. /\ holder' = [Emptied(holder) EXCEPT !.observed = {}]
        /\ job' = [job EXCEPT ![t] = [job[t] EXCEPT !.at = "clear", !.old = LeaseOf(holder)]]
        /\ route' = Purged(route, LeaseOf(holder))
    BY <1>4 DEF RetireChannel, Go
  <2>2. /\ OthersGoOn(t) /\ job'[t].at = "clear" /\ job'[t].old = LeaseOf(holder)
        /\ job'[t].ch = job[t].ch /\ job'[t].rev = job[t].rev
    BY <1>1, <2>1 DEF OthersGoOn, ChannelTypes, TaskTypes, ChannelTasks
  <2>3. /\ holder'.channel = NoChannel /\ holder'.state = holder.state
        /\ holder'.cleanup = holder.cleanup
    BY <1>1, <2>1 DEF Emptied, Holders
  <2>4. \A ch \in Channels : holder.channel = ch \/ Clears(t, ch) => Clears(t, ch)'
    <3>1. job'[t].old.ch = holder.channel
      BY <2>2 DEF LeaseOf
    <3> QED BY <1>1, <2>2, <3>1 DEF Clears, BeforeDrain, WhileDraining
  <2>5. \A lease \in Routes' :
          /\ lease \in Routes /\ lease # LeaseOf(holder)
          /\ OpenLease(lease.ch, lease.rev) \/ Purges(t, lease) => Purges(t, lease)'
    <3> SUFFICES ASSUME NEW lease \in Routes'
                 PROVE  /\ lease \in Routes /\ lease # LeaseOf(holder)
                        /\ ~OpenLease(lease.ch, lease.rev) /\ ~Purges(t, lease)
      OBVIOUS
    <3>1. lease \in Routes /\ lease # LeaseOf(holder)
      BY <1>1, <2>1 DEF Routes, Purged, ChannelTypes, RouteTypes
    <3>2. ~OpenLease(lease.ch, lease.rev) /\ ~Purges(t, lease)
      BY <1>1, <1>2 DEF OpenLease, LeaseIsCurrent, Purges
    <3> QED BY <3>1, <3>2
  <2>6. \A ch \in Channels : ~Present(ch)'
    BY <1>2, <2>3 DEF Present
  <2>7. YoungPeer'
    BY <1>2, <2>3 DEF YoungPeer
  <2> QED BY <1>1, <2>2, <2>3, <2>4, <2>5, <2>6, <2>7, LeavesRests
<1> QED BY <1>3, <1>4

LEMMA PurgeEndRests ==
  ASSUME ChannelInv, ChannelInv', RestInv, NEW t \in Workers, PurgeEnd(t)
  PROVE  RestInv'
<1> DEFINE lost == [ch |-> job[t].ch, rev |-> job[t].rev]
<1>1. /\ t \in ChannelThreads /\ t # "binder" /\ job[t].at = "purgeEnd"
      /\ UNCHANGED <<holder, chan, setup, mutation, heard, spare>>
      /\ route' = Purged(route, lost)
      /\ job' = [job EXCEPT ![t] = [job[t] EXCEPT !.at = "clear", !.old.ch = job[t].ch]]
      /\ ChannelTypes /\ ChannelTypes' /\ job[t] \in ChannelTasks
  BY HolderNumbers DEF PurgeEnd, At, Go, Workers, ChannelThreads, ChannelInv
<1>2. /\ OthersGoOn(t) /\ job'[t].at = "clear" /\ job'[t].old.ch = job[t].ch
      /\ job'[t].ch = job[t].ch /\ job'[t].rev = job[t].rev
  BY <1>1 DEF OthersGoOn, ChannelTypes, TaskTypes, ChannelTasks, Leases
<1>3. \A lease \in Routes' : lease \in Routes /\ lease # lost /\ lease \in Leases
  BY <1>1 DEF Routes, Purged, ChannelTypes, RouteTypes
<1>4. RoutesOn(t)
  <2> SUFFICES ASSUME NEW lease \in Routes'
               PROVE  lease \in Routes /\ ~Purges(t, lease)
    BY DEF RoutesOn
  <2>1. lease = [ch |-> lease.ch, rev |-> lease.rev]
    BY <1>3 DEF Leases
  <2> QED BY <1>1, <1>3, <2>1 DEF Purges
<1>5. RoutesNamed'
  BY <1>1, <1>2, <1>3, NamedOn DEF RestInv
<1>6. HooksAwaitedOn
  <2>1. job'["installer"] = job["installer"] \/ t = "installer"
    BY <1>2 DEF OthersGoOn, ChannelThreads
  <2> QED BY <1>1, <2>1 DEF HooksAwaitedOn, HooksAwaited, BeforeHooks
<1>7. \A ch \in Channels : Clears(t, ch) => Clears(t, ch)'
  BY <1>1, <1>2 DEF Clears
<1>8. Eases(t)
  BY <1>1, <1>2, <1>4, <1>6, <1>7, TaskEases
<1>9. Mature
  BY <1>1 DEF Mature, Workers, InTheInstall, BeforeHooks
<1>10. YoungPeer'
  BY <1>1, <1>9, MatureOn DEF RestInv
<1> QED BY <1>1, <1>5, <1>8, <1>10, EasesRests

(***************************************************************************)
(* Clearing the hooks of a channel that is not used any more.              *)
(***************************************************************************)
LEMMA LeaveToCallbackRests ==
  ASSUME ChannelInv, ChannelInv', RestInv, NEW t \in Workers \cup {"manager"},
         LeaveToCallback(t)
  PROVE  RestInv'
<1>1. PICK ch \in ToClear(t) :
        /\ ByCallback(t, ch)
        /\ holder' = [holder EXCEPT !.cleanup = @ \cup {ch}]
        /\ Go(t, AfterEvent(t))
        /\ UNCHANGED <<chan, setup, mutation, route, heard, spare>>
  BY DEF LeaveToCallback
<1>2. /\ t = "callback" /\ t \in ChannelThreads /\ t \in Workers
      /\ job[t].at \in {"clear", "clearOld", "clearNew", "lock"}
      /\ ChannelTypes /\ ChannelTypes' /\ holder \in Holders
  BY <1>1, ClearedTyped, HolderNumbers DEF ChannelInv, ChannelThreads, Workers
<1>3. /\ holder'.channel = holder.channel /\ holder'.revision = holder.revision
      /\ holder'.opened = holder.opened /\ holder'.state = holder.state
      /\ holder'.cleanup = holder.cleanup \cup {ch}
  BY <1>1, <1>2 DEF Holders
<1>4. OthersGoOn(t) /\ job'[t].at = "drained"
  BY <1>1, <1>2, GoneOnTo
<1>5. HolderAges(t) /\ HooksEase
  BY <1>1, <1>3 DEF HolderAges, HooksEase
<1>6. ClearsOn(t)
  <2>1. \A c \in Channels : Clears(t, c) => c = ch
    BY <1>1, <1>2 DEF Clears, ToClear
  <2> QED BY <1>1, <1>2, <1>3, <1>4, <2>1 DEF ClearsOn
<1>7. RoutesOn(t) /\ RoutesNamed'
  BY <1>1, <1>2, <1>4, RoutesStay, NamedOn DEF RestInv
<1>8. HooksAwaitedOn
  BY <1>2, <1>3, <1>4 DEF HooksAwaitedOn, HooksAwaited, OthersGoOn, ChannelThreads
<1>9. YoungPeer'
  BY <1>2, <1>3, MatureOn DEF RestInv, Mature
<1> QED BY <1>2, <1>4, <1>5, <1>6, <1>7, <1>8, <1>9, EasesRests DEF Eases

\* Nothing but the mutex changes.
LEMMA LockRests ==
  ASSUME RestInv, UNCHANGED <<holder, chan, setup, job, route>>
  PROVE  RestInv'
<1>1. HooksOwed' /\ HooksPlaced'
  BY DEF RestInv, HooksOwed, Hooked, Present, Owed, Clears, Retiring, HooksPlaced,
     AllHooked, HooksAwaited
<1>2. YoungPeer' /\ GoneFirst'
  BY DEF RestInv, YoungPeer, YoungTask, GoneFirst
<1>3. RoutesNamed' /\ RoutesLead'
  BY DEF RestInv, RoutesNamed, RoutesLead, Routes, OpenLease, LeaseIsCurrent, Purges,
     LeaseOf, Retiring
<1> QED BY <1>1, <1>2, <1>3 DEF RestInv

LEMMA AfterClearingIs ==
  ASSUME ChannelTypes, NEW t \in Workers \cup {"manager"}, Go(t, AfterClearing(t)),
         job[t].at \in {"clear", "clearOld", "clearNew", "lock"}
  PROVE  /\ OthersGoOn(t) /\ job'[t].at # "retire"
         /\ job[t].at = "clearOld" =>
              /\ job'[t].at = "check" /\ job'[t].ch = job[t].ch /\ job'[t].rev = job[t].rev
              /\ job'[t].old = job[t].old /\ job'[t].allow = job[t].allow
              /\ job'[t].observed = job[t].observed
         /\ job[t].at = "clear" /\ t = "installer" =>
              /\ job'[t].at = "drain" /\ job'[t].ch = job[t].ch
              /\ job'[t].rev = job[t].rev
<1>1. t \in ChannelThreads
  BY DEF Workers, ChannelThreads
<1>2. CASE job[t].at = "clearOld"
  <2>1. GoTo(t, "check")
    BY <1>2 DEF AfterClearing, Go, GoTo
  <2> QED BY <1>1, <1>2, <2>1, GoneTo
<1>3. CASE job[t].at \in {"clearNew", "lock"}
  BY <1>1, <1>3, WentIdle DEF AfterClearing
<1>4. CASE job[t].at = "clear" /\ t = "manager"
  <2>1. GoTo(t, "released")
    BY <1>4 DEF AfterClearing, Go, GoTo
  <2> QED BY <1>1, <1>4, <2>1, GoneTo
<1>5. CASE job[t].at = "clear" /\ t # "manager"
  <2>1. Go(t, AfterEvent(t))
    BY <1>5 DEF AfterClearing
  <2> QED BY <1>1, <1>5, <2>1, GoneOnTo DEF Workers
<1> QED BY <1>2, <1>3, <1>4, <1>5

LEMMA ClearHooksRests ==
  ASSUME ChannelInv, ChannelInv', RestInv, NEW t \in Workers \cup {"manager"},
         ClearHooks(t)
  PROVE  RestInv'
<1> DEFINE none == [k \in HookKinds |-> 0]
<1>1. PICK ch \in ToClear(t) :
        /\ chan' = IF Unused(ch) THEN [chan EXCEPT ![ch].hooks = none] ELSE chan
        /\ holder' = [holder EXCEPT !.cleanup = @ \ {ch}]
        /\ Go(t, AfterClearing(t))
        /\ UNCHANGED <<setup, route, heard, spare>>
  BY DEF ClearHooks
<1>2. /\ t \in ChannelThreads /\ t # "binder" /\ ch \in Channels
      /\ job[t].at \in {"clear", "clearOld", "clearNew", "lock"}
      /\ ChannelTypes /\ ChannelTypes' /\ holder \in Holders
  BY ClearedTyped, HolderNumbers DEF ChannelInv, ChannelThreads, Workers
<1>3. /\ holder'.channel = holder.channel /\ holder'.revision = holder.revision
      /\ holder'.opened = holder.opened /\ holder'.state = holder.state
      /\ holder'.observed = holder.observed
      /\ holder'.cleanup = holder.cleanup \ {ch}
  BY <1>1, <1>2 DEF Holders
<1>4. /\ OthersGoOn(t) /\ job'[t].at # "retire"
      /\ job[t].at = "clearOld" =>
           /\ job'[t].at = "check" /\ job'[t].ch = job[t].ch /\ job'[t].rev = job[t].rev
           /\ job'[t].old = job[t].old /\ job'[t].allow = job[t].allow
           /\ job'[t].observed = job[t].observed
      /\ job[t].at = "clear" /\ t = "installer" =>
           job'[t].at = "drain" /\ job'[t].ch = job[t].ch /\ job'[t].rev = job[t].rev
  BY <1>1, <1>2, AfterClearingIs
<1>5. \A k \in HookKinds : none[k] = 0
  OBVIOUS
<1> HIDE DEF none
<1>6. \A c \in Channels :
        /\ chan'[c].state = chan[c].state /\ chan'[c].events = chan[c].events
        /\ IF c = ch /\ Unused(ch) THEN \A k \in HookKinds : chan'[c].hooks[k] = 0
           ELSE chan'[c].hooks = chan[c].hooks
  BY <1>1, <1>2, <1>5 DEF ChannelTypes, RecordTypes, ChannelRecords
<1>7. holder.state = "new" =>
        /\ t = "installer" /\ job[t].at = "clearOld" /\ holder.channel # ch
  <2> SUFFICES ASSUME holder.state = "new"
               PROVE  t = "installer" /\ job[t].at = "clearOld" /\ holder.channel # ch
    OBVIOUS
  <2>1. t = "installer" /\ job[t].at \in InTheInstall
    BY <1>2 DEF RestInv, YoungPeer, Workers
  <2>2. job[t].at = "clearOld" /\ YoungTask
    BY <1>2, <2>1 DEF RestInv, YoungPeer, InTheInstall, BeforeHooks
  <2> QED BY <2>1, <2>2 DEF YoungTask, ToClear
<1>8. Unused(ch) <=> ~Present(ch)
  BY <1>2, <1>7 DEF Unused, Present, Holders
<1>9. HolderAges(t) /\ HooksEase
  BY <1>3, <1>6, <1>8 DEF HolderAges, HooksEase
<1>10. ClearsOn(t)
  <2>1. ASSUME NEW c \in Channels, c \in holder.cleanup \/ Clears(t, c)
        PROVE  c \in holder'.cleanup \/ Clears(t, c)' \/ Present(c) \/ ~Hooked(c)'
    <3>1. CASE c = ch
      BY <1>6, <1>8, <3>1 DEF Hooked
    <3>2. CASE c # ch /\ c \in holder.cleanup
      BY <1>3, <3>2
    <3>3. CASE c # ch /\ Clears(t, c)
      <4>1. t = "installer" /\ job[t].ch = c
        BY <1>2, <3>3 DEF Clears, ToClear
      <4>2. \/ job[t].at = "clearOld"
            \/ job[t].at = "clear" /\ setup[job[t].rev].phase = "cancelled"
        BY <1>2, <3>3 DEF Clears, ToClear, BeforeDrain, WhileDraining
      <4> QED BY <1>1, <1>4, <4>1, <4>2 DEF Clears, BeforeDrain, WhileDraining
    <3> QED BY <2>1, <3>1, <3>2, <3>3
  <2> QED BY <1>1, <1>2, <1>4, <2>1 DEF ClearsOn
<1>11. RoutesOn(t) /\ RoutesNamed'
  BY <1>1, <1>2, <1>4, RoutesStay, NamedOn DEF RestInv
<1>12. HooksAwaitedOn
  <2>1. t # "installer" => job'["installer"] = job["installer"]
    BY <1>4 DEF OthersGoOn, ChannelThreads
  <2> QED BY <1>2, <1>3, <1>4, <2>1 DEF HooksAwaitedOn, HooksAwaited, BeforeHooks
<1>13. YoungPeer'
  <2>1. CASE holder.state = "new"
    BY <1>1, <1>3, <1>4, <1>6, <1>7, <2>1, YoungOn DEF RestInv, InTheInstall, BeforeHooks
  <2>2. CASE holder.state # "new"
    BY <1>3, <2>2 DEF YoungPeer
  <2> QED BY <2>1, <2>2
<1> QED BY <1>2, <1>4, <1>9, <1>10, <1>11, <1>12, <1>13, EasesRests DEF Eases

(***************************************************************************)
(* The manager, and the thread that hands in a channel.                    *)
(***************************************************************************)
LEMMA ManagerRests ==
  ASSUME ChannelInv, ChannelInv', RestInv, RetirePeer \/ ReleaseChannel \/ Released
  PROVE  RestInv'
<1> DEFINE t == "manager"
<1>1. /\ t \in ChannelThreads /\ t # "binder" /\ ChannelTypes /\ ChannelTypes'
      /\ holder \in Holders
      /\ UNCHANGED <<chan, setup, mutation, route, heard, spare>>
      /\ job[t].at \in {"idle", "released"}
  BY HolderNumbers DEF RetirePeer, ReleaseChannel, Released, At, ChannelThreads, ChannelInv
<1>2. RoutesOn(t)
  BY <1>1, RoutesStay
<1>3. \A ch \in Channels : ~Clears(t, ch)
  BY <1>1 DEF Clears
<1>4. CASE RetirePeer
  <2>1. /\ holder.state = "live" /\ GoTo(t, "retire")
        /\ holder' = [holder EXCEPT !.state = "gone"]
    BY <1>4 DEF RetirePeer
  <2>2. OthersGoOn(t) /\ job'[t].at = "retire"
    BY <1>1, <2>1, GoneTo
  <2>3. /\ holder'.channel = holder.channel /\ holder'.revision = holder.revision
        /\ holder'.opened = holder.opened /\ holder'.state = "gone"
        /\ holder'.cleanup = holder.cleanup
    BY <1>1, <2>1 DEF Holders
  <2>4. HolderAges(t) /\ HooksEase /\ ClearsOn(t)
    BY <1>1, <1>3, <2>2, <2>3 DEF HolderAges, HooksEase, ClearsOn
  <2>5. RoutesNamed'
    BY <1>1, <2>2, NamedOn DEF RestInv, Routes
  <2>6. HooksAwaitedOn
    BY <2>2, <2>3 DEF HooksAwaitedOn, HooksAwaited, OthersGoOn, ChannelThreads
  <2>7. YoungPeer'
    BY <2>3 DEF YoungPeer
  <2> QED BY <1>1, <1>2, <2>2, <2>4, <2>5, <2>6, <2>7, EasesRests DEF Eases
<1>5. CASE ReleaseChannel \/ Released
  <2>1. /\ holder' = holder /\ Mature
        /\ \/ \E ch \in holder.cleanup :
                job' = [job EXCEPT ![t] = [IdleTask EXCEPT !.at = "clear", !.old.ch = ch]]
           \/ Go(t, IdleTask)
    BY <1>5 DEF ReleaseChannel, Released, At, Mature, Go
  <2>2. OthersGoOn(t) /\ job'[t].at \in {"clear", "idle"}
    <3>1. CASE Go(t, IdleTask)
      BY <1>1, <3>1, WentIdle
    <3>2. ASSUME NEW ch,
                 job' = [job EXCEPT ![t] = [IdleTask EXCEPT !.at = "clear", !.old.ch = ch]]
          PROVE  OthersGoOn(t) /\ job'[t].at = "clear"
      BY <1>1, <3>2 DEF OthersGoOn, ChannelTypes, TaskTypes, IdleTask
    <3> QED BY <2>1, <3>1, <3>2
  <2>3. Eases(t)
    BY <1>1, <1>2, <1>3, <2>1, <2>2, TaskEases
  <2>4. RoutesNamed' /\ YoungPeer'
    BY <1>1, <2>1, <2>2, NamedOn, MatureOn DEF RestInv, Routes
  <2> QED BY <1>1, <2>3, <2>4, EasesRests
<1> QED BY <1>4, <1>5

LEMMA IncomingRests ==
  ASSUME ChannelInv, ChannelInv', RestInv, NEW ch \in Channels, Incoming(ch)
  PROVE  RestInv'
<1> DEFINE t == "installer"
           r == holder.revision + 1
           none == [k \in HookKinds |-> 0]
<1>1. /\ t \in ChannelThreads /\ t # "binder" /\ ChannelTypes /\ ChannelTypes'
      /\ holder \in Holders /\ job[t].at = "idle" /\ holder.channel # ch
      /\ UNCHANGED <<mutation, route, heard>> /\ NoChannel \notin Channels
  BY HolderNumbers DEF Incoming, At, ChannelThreads, ChannelInv
<1>2. RoutesOn(t) /\ Routes' = Routes
  BY <1>1, RoutesStay
<1>3. CASE holder.state = "gone"
  <2>1. /\ chan' = [chan EXCEPT ![ch].hooks = none]
        /\ UNCHANGED <<holder, setup, job>>
    BY <1>3 DEF Incoming
  <2>2. \A k \in HookKinds : none[k] = 0
    OBVIOUS
  <2> HIDE DEF none
  <2>3. \A c \in Channels :
          \/ chan'[c].hooks = chan[c].hooks
          \/ \A k \in HookKinds : chan'[c].hooks[k] = 0
    BY <1>1, <2>1, <2>2 DEF ChannelTypes, RecordTypes, ChannelRecords
  <2>4. OthersGoOn(t) /\ HolderAges(t) /\ HooksEase /\ ClearsOn(t) /\ HooksAwaitedOn
    BY <1>1, <1>3, <2>1, <2>3 DEF OthersGoOn, HolderAges, HooksEase, Present, ClearsOn,
       Clears, HooksAwaitedOn, HooksAwaited
  <2>5. RoutesNamed'
    BY <1>1, <1>2, <2>4, NamedOn DEF RestInv
  <2>6. YoungPeer'
    BY <1>3, <2>1 DEF YoungPeer
  <2> QED BY <1>1, <1>2, <2>4, <2>5, <2>6, EasesRests DEF Eases
<1>4. CASE holder.state # "gone"
  <2> DEFINE seen == ch \in holder.observed
             allow == holder.state = "new"
             stage == IF holder.channel = NoChannel THEN "check" ELSE "purge"
             admitted == [holder EXCEPT !.channel = ch, !.revision = @ + 1,
                                        !.opened = FALSE, !.pending = FALSE]
             j == [IdleTask EXCEPT !.at = stage, !.ch = ch, !.rev = admitted.revision,
                                   !.old = LeaseOf(holder), !.observed = seen,
                                   !.allow = allow]
  <2>1. /\ holder' = admitted /\ chan' = chan /\ job' = [job EXCEPT ![t] = j]
        /\ setup' = [setup EXCEPT ![admitted.revision].phase = "installing"]
    BY <1>4 DEF Incoming, Go
  <2>2. /\ admitted.revision = r /\ admitted.channel = ch /\ admitted.state = holder.state
        /\ admitted.cleanup = holder.cleanup /\ admitted.observed = holder.observed
    BY <1>1 DEF Holders
  <2>3. /\ j.at = stage /\ j.ch = ch /\ j.rev = r /\ j.old = LeaseOf(holder)
        /\ j.observed = seen /\ j.allow = allow
    <3> HIDE DEF admitted, seen, allow, stage
    <3> QED BY <2>2 DEF IdleTask
  <2>4. OthersGoOn(t) /\ job'[t] = j
    <3> HIDE DEF j
    <3> QED BY <1>1, <2>1 DEF OthersGoOn, ChannelTypes, TaskTypes
  <2>5. /\ holder'.revision = r /\ holder'.channel = ch /\ holder'.state = holder.state
        /\ holder'.cleanup = holder.cleanup /\ holder'.observed = holder.observed
    BY <2>1, <2>2
  <2>6. /\ job'[t].at \in {"check", "purge"} /\ job'[t].ch = ch /\ job'[t].rev = r
        /\ job'[t].old = LeaseOf(holder) /\ job'[t].observed = seen
        /\ job'[t].allow = allow
        /\ holder.channel # NoChannel => job'[t].at = "purge"
    BY <2>3, <2>4
  <2> HIDE DEF j, admitted, stage
  <2>7. \A c \in Channels : holder.channel = c \/ Clears(t, c) => Clears(t, c)'
    BY <1>1, <2>6 DEF Clears, LeaseOf, BeforeDrain, WhileDraining
  <2>8. \A c \in Channels : Present(c)' => HooksAwaited'
    BY <2>5, <2>6 DEF HooksAwaited, BeforeHooks
  <2>9. \A lease \in Routes' :
          /\ lease \in Routes
          /\ OpenLease(lease.ch, lease.rev) \/ Purges(t, lease) => Purges(t, lease)'
    <3> SUFFICES ASSUME NEW lease \in Routes, OpenLease(lease.ch, lease.rev)
                 PROVE  Purges(t, lease)'
      BY <1>1, <1>2 DEF Purges
    <3>1. lease = [ch |-> lease.ch, rev |-> lease.rev]
      BY <1>1 DEF Routes, ChannelTypes, RouteTypes, Leases
    <3>2. LeaseOf(holder) = lease /\ holder.channel # NoChannel
      BY <3>1 DEF OpenLease, LeaseIsCurrent, LeaseOf, RestInv, RoutesNamed
    <3> QED BY <2>6, <3>2 DEF Purges
  <2>10. YoungPeer'
    <3> SUFFICES ASSUME holder.state = "new" PROVE YoungPeer'
      BY <2>5 DEF YoungPeer
    <3>1. r \in Revisions /\ setup[r].deferred = <<>> /\ setup[r] \in Setups
      BY <1>1, NextRevision, HolderNumbers
      DEF ChannelTypes, SetupTypes, ChannelInv, PhasesInOrder
    <3>2. setup'[r].phase = "installing" /\ setup'[r].deferred = <<>>
      <4>1. setup' = [setup EXCEPT ![r].phase = "installing"]
        BY <2>1, <2>2
      <4> HIDE DEF r
      <4>2. setup'[r] = [setup[r] EXCEPT !.phase = "installing"]
        BY <1>1, <3>1, <4>1 DEF ChannelTypes, SetupTypes
      <4> QED BY <3>1, <4>2 DEF Setups
    <3>3. /\ job["callback"].at = "idle" /\ job["manager"].at = "idle"
          /\ holder.observed = {}
          /\ \A c \in Channels : chan[c].state = "new" /\ chan[c].events = <<>>
      BY DEF RestInv, YoungPeer
    <3>4. job'["callback"] = job["callback"] /\ job'["manager"] = job["manager"]
      BY <2>4 DEF OthersGoOn, ChannelThreads
    <3>5. allow /\ ~seen
      BY <3>3
    <3> HIDE DEF allow, seen
    <3>6. job'[t].allow /\ ~job'[t].observed
      BY <2>6, <3>5
    <3>7. YoungTask'
      BY <1>1, <2>5, <2>6, <3>2, <3>6 DEF YoungTask, LeaseOf
    <3> QED BY <2>1, <2>5, <2>6, <3>3, <3>4, <3>7 DEF YoungPeer, InTheInstall, BeforeHooks
  <2> QED BY <1>1, <1>4, <2>1, <2>4, <2>5, <2>6, <2>7, <2>8, <2>9, <2>10, LeavesRests
<1> QED BY <1>3, <1>4

(***************************************************************************)
(* Routes, and the invariant.                                              *)
(***************************************************************************)
LEMMA BinderEases ==
  ASSUME ChannelInv, ChannelInv', RestInv, OthersGoOn("binder"),
         job["binder"].at \in {"idle", "bind", "consume"} \/ job' = job,
         job'["binder"].at \in {"idle", "bind", "consume"} \/ job' = job,
         UNCHANGED <<holder, chan, setup>>, RoutesOn("binder"), RoutesNamed'
  PROVE  RestInv'
<1> DEFINE t == "binder"
<1>1. t \in ChannelThreads /\ ChannelTypes /\ ChannelTypes'
  BY DEF ChannelThreads, ChannelInv
<1>2. HolderAges(t) /\ HooksEase
  BY DEF HolderAges, HooksEase
<1>3. ClearsOn(t)
  <2>1. \A ch \in Channels : Clears(t, ch) => Clears(t, ch)'
    BY DEF Clears
  <2>2. job'[t].at = "retire" => holder'.state = "gone"
    BY <1>1 DEF RestInv, GoneFirst
  <2>3. job[t].at = "retire" => job'[t].at = "retire"
    OBVIOUS
  <2> QED BY <2>1, <2>2, <2>3 DEF ClearsOn
<1>4. HooksAwaitedOn
  BY DEF HooksAwaitedOn, HooksAwaited, OthersGoOn, ChannelThreads
<1>5. YoungPeer'
  <2>1. \A u \in {"installer", "callback", "manager"} : job'[u] = job[u]
    BY DEF OthersGoOn, ChannelThreads
  <2> QED BY <2>1 DEF RestInv, YoungPeer, YoungTask
<1> QED BY <1>1, <1>2, <1>3, <1>4, <1>5, EasesRests DEF Eases

LEMMA RoutesRest ==
  ASSUME ChannelInv, ChannelInv', RestInv,
         ReadRoute \/ TakeRoute \/ CommitRoute \/ TargetComes \/ TargetGoes
  PROVE  RestInv'
<1> DEFINE t == "binder"
<1>1. /\ t \in ChannelThreads /\ ChannelTypes /\ RouteTypes /\ RoutesNamed
      /\ UNCHANGED <<holder, chan, setup>> /\ NoLease.ch = NoChannel
  BY DEF ChannelThreads, ChannelInv, ChannelTypes, RestInv, NoLease,
         ReadRoute, TakeRoute, CommitRoute, TargetComes, TargetGoes
<1>2. CASE ReadRoute
  <2>1. /\ job[t].at = "idle" /\ holder.channel # NoChannel /\ route' = route
        /\ job' = [job EXCEPT ![t] = [IdleTask EXCEPT !.at = "bind", !.old = LeaseOf(holder)]]
    BY <1>2 DEF ReadRoute, At, Go
  <2>2. /\ OthersGoOn(t) /\ job'[t].at = "bind" /\ job'[t].old.ch = holder.channel
    BY <1>1, <2>1 DEF OthersGoOn, ChannelTypes, TaskTypes, IdleTask, LeaseOf
  <2>3. RoutesOn(t) /\ Routes' = Routes
    BY <2>1, RoutesStay
  <2>4. RoutesNamed'
    BY <1>1, <2>1, <2>2, <2>3 DEF RoutesNamed
  <2> QED BY <1>1, <2>1, <2>2, <2>3, <2>4, BinderEases
<1>3. CASE TakeRoute
  <2>1. /\ job[t].at = "idle" /\ route.pending # NoLease
        /\ route' = [route EXCEPT !.pending = NoLease]
        /\ job' = [job EXCEPT ![t] = [IdleTask EXCEPT !.at = "consume", !.old = route.pending]]
    BY <1>3 DEF TakeRoute, At, Go
  <2>2. /\ OthersGoOn(t) /\ job'[t].at = "consume" /\ job'[t].old = route.pending
    BY <1>1, <2>1 DEF OthersGoOn, ChannelTypes, TaskTypes, IdleTask
  <2>3. Routes' \subseteq Routes /\ route.pending \in Routes
    BY <1>1, <2>1 DEF Routes, RouteTypes
  <2>4. RoutesNamed'
    BY <1>1, <2>2, <2>3 DEF RoutesNamed
  <2>5. RoutesOn(t)
    BY <2>1, <2>3 DEF RoutesOn, Purges
  <2> QED BY <1>1, <2>1, <2>2, <2>4, <2>5, BinderEases
<1>4. CASE CommitRoute
  <2> DEFINE old == job[t].old
  <2>1. /\ job[t].at \in {"bind", "consume"} /\ Go(t, IdleTask)
        /\ \/ route' = route
           \/ /\ OpenLease(old.ch, old.rev)
              /\ \/ route' = [route EXCEPT !.alias = old]
                 \/ route' = [route EXCEPT !.pending = old]
    BY <1>4 DEF CommitRoute, Routable
  <2>2. OthersGoOn(t) /\ job'[t].at = "idle"
    BY <1>1, <2>1, WentIdle
  <2>3. old.ch # NoChannel
    BY <1>1, <2>1 DEF RoutesNamed
  <2>4. \A lease \in Routes' :
          lease \in Routes \/ (lease = old /\ OpenLease(old.ch, old.rev))
    BY <1>1, <2>1 DEF Routes, RouteTypes
  <2>5. RoutesNamed'
    BY <1>1, <2>2, <2>3, <2>4 DEF RoutesNamed
  <2>6. RoutesOn(t)
    BY <2>1, <2>4 DEF RoutesOn, Purges
  <2> QED BY <1>1, <2>1, <2>2, <2>5, <2>6, BinderEases
<1>5. CASE TargetComes \/ TargetGoes
  <2>1. /\ job' = job
        /\ \/ route' = [route EXCEPT !.target = TRUE]
           \/ route' = [target |-> FALSE, alias |-> NoLease, pending |-> NoLease]
    BY <1>5 DEF TargetComes, TargetGoes
  <2>2. OthersGoOn(t) /\ Routes' \subseteq Routes
    BY <1>1, <2>1 DEF OthersGoOn, Routes, RouteTypes
  <2>3. RoutesNamed' /\ RoutesOn(t)
    BY <1>1, <2>1, <2>2 DEF RoutesNamed, RoutesOn, Purges
  <2> QED BY <1>1, <2>1, <2>2, <2>3, BinderEases
<1> QED BY <1>2, <1>3, <1>4, <1>5

LEMMA RestInit ==
  ASSUME ChannelInit
  PROVE  RestInv
<1>1. \A t \in ChannelThreads : job[t].at = "idle" /\ job[t].old.ch = NoChannel
  BY DEF ChannelInit, IdleTask, NoLease
<1>2. /\ \A ch \in Channels : /\ chan[ch].state = "new" /\ chan[ch].events = <<>>
                              /\ \A k \in HookKinds : chan[ch].hooks[k] = 0
      /\ \A ch \in Channels : ~Hooked(ch)
  <2>1. \A ch \in Channels : /\ chan[ch].state = "new" /\ chan[ch].events = <<>>
                             /\ \A k \in HookKinds : chan[ch].hooks[k] = 0
    BY DEF ChannelInit
  <2> QED BY <2>1 DEF Hooked
<1>3. /\ holder.revision = 0 /\ holder.observed = {} /\ route.alias = NoLease
      /\ route.pending = NoLease
  BY DEF ChannelInit
<1>4. HooksOwed /\ HooksPlaced
  BY <1>2, <1>3 DEF HooksOwed, HooksPlaced, AllHooked
<1>5. YoungPeer /\ GoneFirst
  BY <1>1, <1>2, <1>3 DEF YoungPeer, GoneFirst, ChannelThreads
<1>6. RoutesNamed /\ RoutesLead
  BY <1>1, <1>3 DEF RoutesNamed, RoutesLead, Routes, ChannelThreads
<1> QED BY <1>4, <1>5, <1>6 DEF RestInv

LEMMA RestStep ==
  ASSUME ChannelInv, ChannelInv', RestInv, [ChannelNext]_channelVars
  PROVE  RestInv'
<1> USE DEF Workers
<1>1. CASE UNCHANGED channelVars
  BY <1>1, LockRests DEF channelVars
<1>2. ASSUME NEW ch \in Channels,
             \/ Incoming(ch) \/ Callback(ch)
             \/ TransportOpens(ch) \/ MessageArrives(ch) \/ TransportCloses(ch)
      PROVE  RestInv'
  BY <1>2, IncomingRests, CallbackRests, TransportRests
<1>3. CASE Register \/ PurgeOld \/ CheckLease
  BY <1>3, RegisterRests, PurgeOldRests, CheckLeaseRests
<1>4. CASE InstallChannelHook \/ Installed \/ Cancel \/ DrainEvents \/ Drained
  BY <1>4, InstallChannelHookRests, InstalledRests, CancelRests, DrainEventsRests,
     DrainedRests
<1>5. ASSUME NEW t \in Workers,
             \/ HandleOpen(t) \/ CommitOpen(t) \/ HandleMessage(t) \/ TellMessage(t)
             \/ HandleEnd(t) \/ PurgeEnd(t)
      PROVE  RestInv'
  BY <1>5, HandleOpenRests, CommitOpenRests, HandleMessageRests, TellMessageRests,
     HandleEndRests, PurgeEndRests
<1>6. ASSUME NEW t \in Workers \cup {"manager"},
             LeaveToCallback(t) \/ LockToClear(t) \/ ClearHooks(t) \/ RetireChannel(t)
      PROVE  RestInv'
  <2>1. CASE LockToClear(t)
    BY <2>1, LockRests DEF LockToClear
  <2> QED BY <1>6, <2>1, LeaveToCallbackRests, ClearHooksRests, RetireChannelRests
<1>7. CASE RetirePeer \/ ReleaseChannel \/ Released
  BY <1>7, ManagerRests
<1>8. CASE ReadRoute \/ TakeRoute \/ CommitRoute \/ TargetComes \/ TargetGoes
  BY <1>8, RoutesRest
<1> QED BY <1>1, <1>2, <1>3, <1>4, <1>5, <1>6, <1>7, <1>8 DEF ChannelNext

\* Once no thread is at it, the channel of the peer has all its callbacks, of its
\* present revision, no other channel has any, and a route leads only to a channel
\* that is in use and open: whoever takes a channel away has its callbacks and its
\* routes in hand until they are cleared, in whatever order the threads go on.
THEOREM ChannelsSettleHolds == ChannelSpec => []ChannelsSettle
<1>1. ChannelInit => ChannelInv /\ RestInv
  BY ChannelInitHolds, RestInit
<1>2. ChannelInv /\ RestInv /\ [ChannelNext]_channelVars => ChannelInv' /\ RestInv'
  BY ChannelStepKeeps, RestStep
<1>3. ChannelInv /\ RestInv => ChannelsSettle
  <2> SUFFICES ASSUME ChannelInv, RestInv, AtRest, holder.cleanup = {}
               PROVE  /\ \A ch \in Channels, k \in HookKinds :
                           chan[ch].hooks[k] =
                             IF holder.state # "gone" /\ ch = holder.channel
                             THEN holder.revision ELSE 0
                      /\ \A lease \in Routes : OpenLease(lease.ch, lease.rev)
    BY DEF ChannelsSettle, Routes
  <2>1. \A t \in ChannelThreads : job[t].at = "idle"
    BY DEF AtRest, At
  <2>2. ~Retiring /\ ~HooksAwaited
    BY <2>1 DEF Retiring, HooksAwaited, BeforeHooks, ChannelThreads
  <2>3. ASSUME NEW t \in ChannelThreads
        PROVE  /\ \A ch \in Channels : ~Clears(t, ch)
               /\ \A lease \in Routes : ~Purges(t, lease)
    BY <2>1 DEF Clears, BeforeDrain, WhileDraining, Purges
  <2>4. ASSUME NEW ch \in Channels, NEW k \in HookKinds
        PROVE  chan[ch].hooks[k] = IF Present(ch) THEN holder.revision ELSE 0
    BY <2>2, <2>3 DEF RestInv, HooksPlaced, AllHooked, HooksOwed, Hooked, Owed
  <2>5. \A lease \in Routes : OpenLease(lease.ch, lease.rev)
    BY <2>2, <2>3 DEF RestInv, RoutesLead
  <2> QED BY <2>4, <2>5 DEF Present
<1> QED BY <1>1, <1>2, <1>3, PTL DEF ChannelSpec
===============================================================================
