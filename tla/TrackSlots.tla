------------------------------- MODULE TrackSlots -------------------------------
(***************************************************************************)
(* The three track slots of one viewer peer of VDONinjaPeerManager.  Every *)
(* change of a slot takes a new revision and makes an event for the        *)
(* application; a track has callbacks for its end that count only under    *)
(* the lease (slot, revision) they were set with.  Slots are changed by    *)
(* offers, by RTC that hands in a track, by the end of a track and by the  *)
(* retirement of the peer, each on a thread of its own; callbacks are set  *)
(* and cleared outside of the locks, and RTC keeps an end that no callback *)
(* has taken.                                                              *)
(*                                                                         *)
(* The work of a thread on an event is a queue of steps: set its track's   *)
(* callbacks, tell the application, clear the callbacks of tracks that are *)
(* in no slot.                                                             *)
(***************************************************************************)
EXTENDS Integers, Sequences

CONSTANTS
  Copies,       \* the tracks that RTC may create for a media section
  SlotBudgets   \* bounds: the offers that come, by their media sections, and how
                \* many tracks RTC hands in, how many end, how often it connects

ASSUME SlotAssumption ==
  SlotBudgets \subseteq
    [offers : Seq(Seq({"video", "alpha", "audio"})), tracks : Nat, ends : Nat,
     connects : Nat]

VARIABLES
  slots,    \* the PeerInfo: its slots and revisions
  tracks,   \* per track, RTC's side of it
  task,     \* per thread, what it does
  told,     \* per slot, the newest event the application heard
  allowance \* what is left of the budget

slotVars == <<slots, tracks, task, told, allowance>>

SlotKinds == {"video", "alpha", "audio"}
EndHooks == {"closed", "error"}
SlotThreads == {"offer", "track", "end", "manager", "state"}
\* An offer has a media section for the video, one for its alpha, one for audio.
Sections == {"video", "alpha", "audio"}
Tracks == [mid : Sections, copy : Copies]
NoTrack == [mid |-> "none", copy |-> "none"]
NoHook == [kind |-> "none", rev |-> 0]

NoEvent == [kind |-> "none", rev |-> 0, seq |-> 0, track |-> NoTrack, retired |-> NoTrack]
IdleJob == [at |-> "idle", event |-> NoEvent, queue |-> <<>>, todo |-> <<>>,
            lease |-> NoHook, sections |-> <<>>, shut |-> {}, inside |-> <<NoTrack, "none">>]

Does(t, stage) == task[t].at = stage
Set(t, j) == task' = [task EXCEPT ![t] = j]

(***************************************************************************)
(* Slots and leases.                                                       *)
(***************************************************************************)
\* isTrackSlotLeaseCurrent
HasLease(h, lease) ==
  /\ slots.registered /\ ~slots.retired
  /\ slots.slot[lease.kind] = h /\ slots.rev[lease.kind] = lease.rev

EventFor(kind, h) ==
  [kind |-> kind, rev |-> slots.rev[kind] + 1, seq |-> slots.seq + 1,
   track |-> h, retired |-> slots.slot[kind]]
Stored(kind, h) ==
  [slots EXCEPT !.slot[kind] = h, !.rev[kind] = @ + 1, !.seq = @ + 1]

\* updateTrackSlot's guards.
MayStore(kind, h, expected) ==
  /\ h # NoTrack => ~slots.retired
  /\ slots.slot[kind] # h /\ slots.slot[kind] = expected

\* The steps of a thread that has stored an event.
Committed(j, event) ==
  [j EXCEPT !.at = IF event.track = NoTrack THEN "tell" ELSE "install",
            !.event = event, !.lease = [kind |-> event.kind, rev |-> event.rev]]
Only(h) == IF h = NoTrack THEN <<>> ELSE <<h>>
\* Mutant: the track that left its slot is forgotten.
OnlyNew(event) == Only(event.track)
TracksOf(event) == Only(event.track) \o Only(event.retired)

(***************************************************************************)
(* Setting and clearing the callbacks of a track.                          *)
(***************************************************************************)
\* RTC replaces a callback only while no other thread is in it.
Unlocked(t, h, hook) == \A u \in SlotThreads \ {t} : task[u].inside # <<h, hook>>

\* Clearing goes on with the next track, then with the next event.
ClearNext(t, j) ==
  IF j.todo # <<>> THEN [j EXCEPT !.at = "clear"]
  ELSE IF j.queue # <<>>
  THEN [j EXCEPT !.at = "tell", !.event = Head(j.queue), !.queue = Tail(@)]
  ELSE [IdleJob EXCEPT !.at = IF t = "offer" THEN "sections" ELSE "idle",
                       !.sections = j.sections]
AfterTrack(t, j) == ClearNext(t, [j EXCEPT !.todo = Tail(@)])

\* installTrackLifecycleCallbacks: for a new event, or to give a track that came
\* back its callbacks again.
Installing(j) == j.at \in {"install", "installError", "reinstall", "reinstallError"}
HookedTrack(j) ==
  IF j.at \in {"install", "installError"} THEN j.event.track ELSE Head(j.todo)

InstallTrackHook(t) ==
  LET j == task[t]
      h == HookedTrack(j)
      hook == IF j.at \in {"install", "reinstall"} THEN "closed" ELSE "error"
  IN /\ Installing(j) /\ Unlocked(t, h, hook)
     /\ tracks' = [tracks EXCEPT ![h].hooks[hook] = j.lease]
     /\ Set(t,
          CASE j.at = "install"   /\ HasLease(h, j.lease) -> [j EXCEPT !.at = "installError"]
            [] j.at = "reinstall" /\ HasLease(h, j.lease) -> [j EXCEPT !.at = "reinstallError"]
            [] j.at = "installError" /\ HasLease(h, j.lease) -> [j EXCEPT !.at = "dispatch"]
            [] j.at = "reinstallError" /\ HasLease(h, j.lease) -> AfterTrack(t, j)
            [] j.at \in {"install", "installError"} /\ ~HasLease(h, j.lease) ->
                 [j EXCEPT !.at = "clear", !.todo = TracksOf(j.event)]
            [] OTHER -> [j EXCEPT !.at = "detach"])
     /\ UNCHANGED <<slots, told, allowance>>

\* The lease of a track that is in a slot.
CurrentKinds(h) ==
  {k \in SlotKinds : slots.registered /\ ~slots.retired /\ slots.slot[k] = h}

\* clearRetiredTrackCallbacksIfUnused
ClearTrack(t) ==
  LET j == task[t]
  IN /\ Does(t, "clear")
     /\ Set(t, IF CurrentKinds(Head(j.todo)) # {} THEN AfterTrack(t, j)
               ELSE [j EXCEPT !.at = "detach"])
     /\ UNCHANGED <<slots, tracks, told, allowance>>

Detach(t) ==
  LET h == Head(task[t].todo)
  IN /\ Does(t, "detach") /\ \A hook \in EndHooks : Unlocked(t, h, hook)
     /\ tracks' = [tracks EXCEPT ![h].hooks = [hook \in EndHooks |-> NoHook]]
     /\ Set(t, [task[t] EXCEPT !.at = "recheck"])
     /\ UNCHANGED <<slots, told, allowance>>

\* A track that came back while its callbacks were cleared gets them again.
Recheck(t) ==
  LET j == task[t]
      h == Head(j.todo)
  IN /\ Does(t, "recheck")
     /\ IF CurrentKinds(h) = {} THEN Set(t, AfterTrack(t, j))
        ELSE \E k \in CurrentKinds(h) :
          Set(t, [j EXCEPT !.at = "reinstall",
                           !.lease = [kind |-> k, rev |-> slots.rev[k]]])
     /\ UNCHANGED <<slots, tracks, told, allowance>>

(***************************************************************************)
(* Telling the application.                                                *)
(***************************************************************************)
\* The end of dispatchCommittedTrackSlotEvent: a track that closed while its
\* callbacks were set is retired first; an event whose lease is lost is not told.
Dispatch(t) ==
  LET j == task[t]
      h == j.event.track
      lasts == HasLease(h, j.lease)
      ended == EventFor(j.event.kind, NoTrack)
      both == TracksOf(j.event)
  IN /\ Does(t, "dispatch")
     /\ IF lasts /\ tracks[h].closed
        THEN /\ slots' = Stored(j.event.kind, NoTrack)
             /\ Set(t, [j EXCEPT !.at = "tell", !.event = ended, !.todo = both])
        ELSE /\ UNCHANGED slots
             /\ Set(t, IF lasts THEN [j EXCEPT !.at = "tell"]
                       ELSE [j EXCEPT !.at = "clear", !.todo = both])
     /\ UNCHANGED <<tracks, told, allowance>>

\* dispatchTrackSlotEvent; the application keeps the newest event of a slot.
Tell(t) ==
  LET j == task[t]
      event == j.event
  IN /\ Does(t, "tell")
     /\ told' = IF event.seq > told[event.kind].seq
                THEN [told EXCEPT ![event.kind] = [seq |-> event.seq, track |-> event.track]]
                ELSE told
     /\ Set(t, ClearNext(t, [j EXCEPT !.todo = TracksOf(event) \o @]))
     /\ UNCHANGED <<slots, tracks, allowance>>

(***************************************************************************)
(* Offers: prepareViewerTracks.                                            *)
(***************************************************************************)
\* An offer without an active alpha section retires the alpha track.
Offer ==
  /\ Does("offer", "idle") /\ allowance.offers # <<>> /\ slots.registered
  /\ allowance' = [allowance EXCEPT !.offers = Tail(@)]
  /\ LET sections == Head(allowance.offers)
         j == [IdleJob EXCEPT !.sections = sections, !.at = "sections"]
         withAlpha == \E i \in DOMAIN sections : sections[i] = "alpha"
     IN IF ~withAlpha /\ slots.slot["alpha"] # NoTrack
        THEN /\ slots' = Stored("alpha", NoTrack)
             /\ Set("offer", Committed(j, EventFor("alpha", NoTrack)))
        ELSE Set("offer", j) /\ UNCHANGED slots
  /\ UNCHANGED <<tracks, told>>

\* The slot a section's track is meant for, by the slots as they are read; none
\* when the section has its track.
SlotFor(section) ==
  CASE section = "audio" -> IF slots.slot["audio"] = NoTrack THEN "audio" ELSE "none"
    [] slots.slot["video"] = NoTrack -> "video"
    [] section = slots.slot["video"].mid -> "none"
    [] section = "alpha" /\ slots.slot["alpha"] = NoTrack -> "alpha"
    [] OTHER -> "none"

ReadSection ==
  LET j == task["offer"]
      section == Head(j.sections)
      kind == SlotFor(section)
  IN /\ Does("offer", "sections")
     /\ Set("offer",
          IF j.sections = <<>> THEN IdleJob
          ELSE IF kind = "none" THEN [j EXCEPT !.sections = Tail(@)]
          ELSE [j EXCEPT !.at = "add", !.event.kind = kind,
                         !.event.track = slots.slot[IF kind = "alpha" THEN "video" ELSE kind]])
     /\ UNCHANGED <<slots, tracks, told, allowance>>

\* RTC makes a new track for the section; it may bind the alpha section to the
\* video's.  The slot must still be as it was read.
AddTrack ==
  LET j == task["offer"]
      section == Head(j.sections)
      rest == [IdleJob EXCEPT !.sections = Tail(j.sections)]
  IN /\ Does("offer", "add")
     /\ \E h \in Tracks :
          LET kind == IF j.event.kind = "alpha" /\ h.mid # section THEN "video"
                      ELSE j.event.kind
              expected == IF kind = "alpha" THEN NoTrack ELSE j.event.track
          IN /\ h.mid = section \/ (j.event.kind = "alpha" /\ h.mid = "video")
             /\ ~tracks[h].made
             /\ tracks' = [tracks EXCEPT ![h].made = TRUE]
             /\ IF MayStore(kind, h, expected)
                THEN /\ slots' = Stored(kind, h)
                     /\ Set("offer", Committed(rest, EventFor(kind, h)))
                ELSE /\ Set("offer", [rest EXCEPT !.at = "sections"])
                     /\ UNCHANGED slots
     /\ UNCHANGED <<told, allowance>>

(***************************************************************************)
(* RTC's callbacks.                                                        *)
(***************************************************************************)
\* classifyIncomingTrack
SlotOf(h) ==
  IF h.mid = "audio" THEN "audio"
  ELSE IF /\ slots.slot["alpha"] # NoTrack /\ h.mid = slots.slot["alpha"].mid
          /\ slots.slot["alpha"].mid # slots.slot["video"].mid
       THEN "alpha" ELSE "video"

\* handleIncomingTrack looks at the peer before it takes the slots' lock.  RTC
\* hands in a new track, or one again that it made before.
TrackComes ==
  /\ Does("track", "idle") /\ allowance.tracks > 0
  /\ slots.registered /\ ~slots.retired
  /\ allowance' = [allowance EXCEPT !.tracks = @ - 1]
  /\ \E h \in Tracks :
       /\ ~tracks[h].closed
       /\ tracks' = [tracks EXCEPT ![h].made = TRUE]
       /\ Set("track", [IdleJob EXCEPT !.at = "store", !.event.track = h])
  /\ UNCHANGED <<slots, told>>

StoreTrack ==
  LET h == task["track"].event.track
      kind == SlotOf(h)
  IN /\ Does("track", "store")
     /\ IF slots.slot[kind] # h /\ ~slots.retired
        THEN /\ slots' = Stored(kind, h)
             /\ Set("track", Committed(IdleJob, EventFor(kind, h)))
             /\ UNCHANGED tracks
        ELSE /\ slots.retired => \A hook \in EndHooks : Unlocked("track", h, hook)
             /\ tracks' = IF slots.retired
                          THEN [tracks EXCEPT ![h].hooks = [hook \in EndHooks |-> NoHook]]
                          ELSE tracks
             /\ Set("track", IdleJob) /\ UNCHANGED slots
     /\ UNCHANGED <<told, allowance>>

TrackEnds ==
  /\ allowance.ends > 0
  /\ allowance' = [allowance EXCEPT !.ends = @ - 1]
  /\ \E h \in Tracks, how \in EndHooks :
       /\ tracks[h].made /\ ~tracks[h].closed
       /\ tracks' = [tracks EXCEPT ![h].closed = (how = "closed"), ![h].owed = @ \cup {how}]
  /\ UNCHANGED <<slots, task, told>>

\* handleTrackTerminal; after an error it closes the track.
EndCallback ==
  /\ Does("end", "idle")
  /\ \E h \in Tracks, hook \in EndHooks :
       LET lease == tracks[h].hooks[hook]
           fails == hook = "error" /\ ~tracks[h].closed
           j == [IdleJob EXCEPT !.inside = <<h, hook>>]
       IN /\ hook \in tracks[h].owed /\ lease # NoHook
          /\ tracks' = IF HasLease(h, lease) /\ fails
                       THEN [tracks EXCEPT ![h].closed = TRUE, ![h].owed = {"closed"}]
                       ELSE [tracks EXCEPT ![h].owed = @ \ {hook}]
          /\ IF HasLease(h, lease)
             THEN /\ slots' = Stored(lease.kind, NoTrack)
                  /\ Set("end", Committed(j, EventFor(lease.kind, NoTrack)))
             ELSE UNCHANGED <<slots, task>>
  /\ UNCHANGED <<told, allowance>>

\* RTC reports that it is connected: the look at the peer, and the stores.
Connected ==
  /\ Does("state", "idle") /\ allowance.connects > 0
  /\ slots.registered /\ ~slots.retired
  /\ allowance' = [allowance EXCEPT !.connects = @ - 1]
  /\ Set("state", [IdleJob EXCEPT !.at = "connected"])
  /\ UNCHANGED <<slots, tracks, told>>
StoreConnected ==
  /\ Does("state", "connected")
  /\ slots' = [slots EXCEPT !.retired = FALSE]
  /\ Set("state", IdleJob)
  /\ UNCHANGED <<tracks, told, allowance>>

(***************************************************************************)
(* Retirement.                                                             *)
(***************************************************************************)
\* retirePeerForDeferredCleanup; later releasePeerResources does the same to
\* what it finds.
RetireViewer ==
  /\ Does("manager", "idle") /\ slots.registered
  /\ slots' = [slots EXCEPT !.retired = TRUE]
  /\ Set("manager", [IdleJob EXCEPT !.at = "unregister"])
  /\ UNCHANGED <<tracks, told, allowance>>

Unregister ==
  /\ Does("manager", "unregister")
  /\ slots' = [slots EXCEPT !.registered = FALSE]
  /\ Set("manager", [IdleJob EXCEPT !.at = "slots", !.shut = SlotKinds])
  /\ UNCHANGED <<tracks, told, allowance>>

ReleaseTracks ==
  /\ Does("manager", "idle") /\ ~slots.registered /\ ~slots.released
  /\ slots' = [slots EXCEPT !.retired = TRUE, !.released = TRUE]
  /\ Set("manager", [IdleJob EXCEPT !.at = "slots", !.shut = SlotKinds])
  /\ UNCHANGED <<tracks, told, allowance>>

Cleared(kind) ==
  IF slots.slot[kind] = NoTrack THEN <<>> ELSE <<EventFor(kind, NoTrack)>>

\* clearTrackSlots: every slot under a lock of its own, then their events.
ClearSlots ==
  LET j == task["manager"]
  IN /\ Does("manager", "slots")
     /\ IF j.shut = {}
        THEN Set("manager", ClearNext("manager", j)) /\ UNCHANGED slots
        ELSE LET kind == CHOOSE k \in j.shut : TRUE
             IN /\ slots' = IF slots.slot[kind] = NoTrack THEN slots
                             ELSE Stored(kind, NoTrack)
                /\ Set("manager", [j EXCEPT !.shut = @ \ {kind},
                                            !.queue = @ \o Cleared(kind)])
     /\ UNCHANGED <<tracks, told, allowance>>

SlotInit ==
  /\ slots = [registered |-> TRUE, retired |-> FALSE, released |-> FALSE,
               slot |-> [k \in SlotKinds |-> NoTrack], rev |-> [k \in SlotKinds |-> 0],
               seq |-> 0]
  /\ tracks = [h \in Tracks |-> [made |-> FALSE, closed |-> FALSE, owed |-> {},
                                 hooks |-> [hook \in EndHooks |-> NoHook]]]
  /\ task = [t \in SlotThreads |-> IdleJob]
  /\ told = [k \in SlotKinds |-> [seq |-> 0, track |-> NoTrack]]
  /\ allowance \in SlotBudgets

SlotNext ==
  \/ \E t \in SlotThreads :
       InstallTrackHook(t) \/ ClearTrack(t) \/ Detach(t) \/ Recheck(t) \/ Dispatch(t) \/ Tell(t)
  \/ Offer \/ ReadSection \/ AddTrack \/ TrackComes \/ StoreTrack
  \/ TrackEnds \/ EndCallback \/ Connected \/ StoreConnected
  \/ RetireViewer \/ Unregister \/ ReleaseTracks \/ ClearSlots

SlotSpec == SlotInit /\ [][SlotNext]_slotVars

(***************************************************************************)
(* Properties.                                                             *)
(***************************************************************************)
\* Every variable has its type.
SlotTypeOK ==
  /\ slots.slot \in [SlotKinds -> Tracks \cup {NoTrack}]
  /\ slots.rev \in [SlotKinds -> Nat] /\ slots.seq \in Nat
  /\ \A h \in Tracks : tracks[h].owed \subseteq EndHooks
  /\ \A k \in SlotKinds : told[k].seq <= slots.seq

\* Once no thread is at it, the application's newest event of each slot names the
\* track that is in it; that track has both its callbacks, under the present
\* lease, and no other track has any; and if it is closed, RTC has that end still
\* to report to them.
SlotsSettle ==
  (\A t \in SlotThreads : Does(t, "idle")) =>
    /\ \A k \in SlotKinds :
         told[k].track = IF slots.registered THEN slots.slot[k] ELSE NoTrack
    /\ \A h \in Tracks, hook \in EndHooks :
         LET lease == tracks[h].hooks[hook]
         IN IF CurrentKinds(h) = {} THEN lease = NoHook
            ELSE lease # NoHook /\ HasLease(h, lease)
    /\ \A h \in {slots.slot[k] : k \in SlotKinds} \ {NoTrack} :
         slots.registered => ~(tracks[h].closed /\ tracks[h].owed = {})
===============================================================================
