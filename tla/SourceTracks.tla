----------------------------- MODULE SourceTracks -----------------------------
(***************************************************************************)
(* Whose tracks a native source (VDONinjaSource) plays.  The peer manager  *)
(* tells it, from threads of the RTC library, that peers connect and go,   *)
(* that their track slots change, that they mute themselves or say bye;    *)
(* the source keeps at most one peer's video, alpha and audio track, keeps *)
(* the tracks of other peers in deferred bundles, and asks again for its   *)
(* stream when it has nothing to play.  OBS connects and disconnects it.   *)
(*                                                                         *)
(* A handler works on the source from end to end under                     *)
(* trackEventApplyMutex_, so the operators below map the source record it  *)
(* finds to the one it leaves.  The manager takes a copy of the source's   *)
(* callback before it calls it: an event on the wire is applied at any     *)
(* later time, in any order, also after disconnect() removed the callback. *)
(*                                                                         *)
(* Left out: what is sent to the peers (preferences, bitrate, keyframe     *)
(* requests, pongs); the media pipeline behind the tracks, which is in     *)
(* SourceMedia; and nested signaling messages, which go to signaling.  The *)
(* source is one with auto_reconnect, the default: without it nothing is   *)
(* retried.                                                                *)
(***************************************************************************)
EXTENDS Integers, Sequences, SequencesExt, Sifting, ViewRetry

CONSTANTS
  Publishers,      \* the uuids of the peers that publish the stream
  MaxGenerations,  \* bound on the generations of a peer
  Budgets          \* bounds on what happens: a run starts with one of them

\* What a track may be: the usual ones, an alpha track reported under the
\* primary's mid, and a primary with a codec the source does not play.
TrackKinds == {"video", "alpha", "audio", "alphaAsVideo", "unplayable"}

\* A budget bounds the generations started, the track handles created and
\* their kinds, the slots that end, the mute messages, the other ones,
\* what the server does, and the calls of connect() and disconnect().
Budget == [starts: Nat, handles: Nat, kinds: SUBSET TrackKinds, ends: Nat,
           mutes: Nat, messages: Nat, signals: Nat,
           connects: Nat, disconnects: Nat]

ASSUME SourceTracksAssumption ==
  MaxGenerations \in Nat /\ Budgets \subseteq Budget

VARIABLES
  manager,   \* per peer, what VDONinjaPeerManager knows of it
  wire,      \* the callbacks the manager has begun and not finished
  source,    \* what VDONinjaSource knows, see Source
  control,   \* where OBS's calls and the connection thread are, see Control
  sig,       \* the signaling connection: "off", "opening" or "up"
  left,      \* what is left of the budget
  created    \* the track handles created so far

trackVars == <<manager, wire, source, control, sig, left, created>>

(***************************************************************************)
(* Data.                                                                   *)
(***************************************************************************)
TrackTypes == {"video", "alpha", "audio"}
NoPublisher == "none"

\* A track handle and the mid of its media section: every peer's primary has
\* the same one, and RTC may report an alpha track under it.  A codec that the
\* source does not know makes a handle unplayable.
Handle == [n: Nat \ {0}, mid: {"video", "alpha", "audio"}, playable: BOOLEAN]
NoHandle == [n |-> 0, mid |-> "none", playable |-> FALSE]

TrackSlot == [track: Handle, uuid: Publishers, generation: 1..MaxGenerations]
EmptySlot == [track |-> NoHandle, uuid |-> NoPublisher, generation |-> 0]

Bundle == [uuid: Publishers, generation: 1..MaxGenerations,
           tracks: [TrackTypes -> Handle \cup {NoHandle}]]

Mutes == [audio: BOOLEAN, video: BOOLEAN]
Unmuted == [audio |-> FALSE, video |-> FALSE]

Identity == [uuid: Publishers, generation: Nat]
Is(slot, id) == slot.uuid = id.uuid /\ slot.generation = id.generation

\* seen is peerEventStates_ with the last sequence of its two lanes, position
\* the three maps of track event positions, shown the published mute state,
\* audible the argument of the last setObsSourceAudioActive, wired the handles
\* that hold callbacks of the source, output what outputMediaEpoch_ enables.
FreshSource(connected, retry) ==
  [slots    |-> [t \in TrackTypes |-> EmptySlot],
   pending  |-> <<>>,
   seen     |-> [p \in Publishers |-> [generation |-> 0, terminal |-> FALSE,
                                       message |-> 0, open |-> 0]],
   position |-> [t \in TrackTypes |->
                   [p \in Publishers |-> [generation |-> 0, revision |-> 0]]],
   mutes    |-> [p \in Publishers |->
                   [g \in 1..MaxGenerations |-> Unmuted]],
   shown    |-> Unmuted,
   audible  |-> FALSE,
   wired    |-> {},
   output   |-> FALSE,
   connected |-> connected,
   retry    |-> retry]

Occupied(s) == {t \in TrackTypes : s.slots[t] # EmptySlot}

\* videoTrackPeerUuid_ first, then alpha's, then audio's.
OwnerSlot(s) ==
  IF s.slots["video"] # EmptySlot THEN s.slots["video"]
  ELSE IF s.slots["alpha"] # EmptySlot THEN s.slots["alpha"]
  ELSE s.slots["audio"]

(***************************************************************************)
(* Steps of the handlers.                                                  *)
(***************************************************************************)
\* publishActivePeerControlStateLocked
Published(s) ==
  LET owner == OwnerSlot(s)
      state == IF owner = EmptySlot THEN Unmuted
               ELSE s.mutes[owner.uuid][owner.generation]
  IN [s EXCEPT !.shown = state,
               !.audible = /\ s.slots["audio"] # EmptySlot
                           /\ Is(s.slots["audio"], owner)
                           /\ ~state.audio]

\* markNativePeerConnectedIfReadyAccepted: the peer owns a slot, and is
\* connected in the generation of the event.
MarkedConnected(s, id) ==
  IF /\ \E t \in TrackTypes : s.slots[t].uuid = id.uuid
     /\ manager[id.uuid].state = "connected"
     /\ manager[id.uuid].generation = id.generation
  THEN [s EXCEPT !.connected = TRUE, !.retry = RetryCancelled(@)]
  ELSE s

\* deferPeerTrackLocked: a bundle keeps the place of its first track.
Deferred(s, id, type, track) ==
  IF \E i \in 1..Len(s.pending) : Is(s.pending[i], id)
  THEN [s EXCEPT !.pending =
          [i \in 1..Len(@) |-> IF Is(@[i], id)
                               THEN [@[i] EXCEPT !.tracks[type] = track]
                               ELSE @[i]]]
  ELSE [s EXCEPT !.pending =
          Append(@, [uuid |-> id.uuid, generation |-> id.generation,
                     tracks |-> [t \in TrackTypes |->
                                   IF t = type THEN track ELSE NoHandle]])]

OtherOwner(s, id) == OwnerSlot(s) # EmptySlot /\ ~Is(OwnerSlot(s), id)

\* Mutant: the handle that is replaced keeps its callbacks.
AttachedOverOld(s, id, type, track) ==
  IF s.slots[type].track = track THEN s
  ELSE IF OtherOwner(s, id) THEN Deferred(s, id, type, track)
  ELSE [s EXCEPT
          !.slots[type] = [track |-> track, uuid |-> id.uuid,
                           generation |-> id.generation],
          !.wired = @ \cup {track},
          !.output = @ \/ type # "audio"]

\* The common part of onVideoTrack, onAlphaVideoTrack and onAudioTrack.
Attached(s, id, type, track) ==
  IF s.slots[type].track = track THEN s
  ELSE IF OtherOwner(s, id) THEN Deferred(s, id, type, track)
  ELSE [s EXCEPT
          !.slots[type] = [track |-> track, uuid |-> id.uuid,
                           generation |-> id.generation],
          !.wired = (@ \ {s.slots[type].track}) \cup {track},
          !.output = @ \/ type # "audio"]

\* An alpha track under the mid of the current primary is taken for it.
RoleOf(s, type, track) ==
  IF type = "alpha" /\ track.mid = s.slots["video"].track.mid THEN "video"
  ELSE type

OnTrack(s, id, type, track) ==
  LET role == RoleOf(s, type, track)
  IN IF role # "alpha" /\ ~track.playable THEN s
     ELSE Attached(s, id, role, track)

\* Every on*Track but the one of an adoption ends with
\* markNativePeerConnectedIfReadyAccepted, unless it returned before.
OnTrackAndMark(s, id, type, track) ==
  LET after == OnTrack(s, id, type, track)
  IN IF after.slots = s.slots THEN after ELSE MarkedConnected(after, id)

\* adoptNextPendingPeerBundleIfOwnerless: the oldest bundle.
Adopts(s) == Occupied(s) = {} /\ s.pending # <<>>
Adopted(s) ==
  IF ~Adopts(s) THEN s
  ELSE LET bundle == Head(s.pending)
           Take(t, type) ==
             IF bundle.tracks[type] = NoHandle THEN t
             ELSE OnTrack(t, bundle, type, bundle.tracks[type])
       IN Take(Take(Take([s EXCEPT !.pending = Tail(@)], "video"), "alpha"),
               "audio")

\* What follows an adoption once the new owner's state is published.
AfterAdoption(before, s) ==
  IF Adopts(before) THEN MarkedConnected(Published(s), Head(before.pending))
  ELSE Published(s)

HasOwner(s) == Occupied(s) # {}

\* handlePeerDisconnectedAccepted: the peer's bundle and slots go, the next
\* bundle moves in, and a source with nothing to play asks again.
PeerRetired(s, id, retry) ==
  LET gone == {t \in TrackTypes : Is(s.slots[t], id)}
      slots == [t \in TrackTypes |-> IF t \in gone THEN EmptySlot ELSE s.slots[t]]
      freed == [s EXCEPT
                  !.slots = slots,
                  !.pending = Sifted(@, {b \in Range(@) : ~Is(b, id)}),
                  !.wired = @ \ {s.slots[t].track : t \in gone},
                  !.output = IF gone \cap {"video", "alpha"} = {} THEN @
                             ELSE slots["video"] # EmptySlot]
      after == [freed EXCEPT !.connected = HasOwner(freed),
                            !.audible = @ /\ "audio" \notin gone]
      erased == [Adopted(after) EXCEPT
                   !.mutes[id.uuid][id.generation] = Unmuted]
      settled == AfterAdoption(after, erased)
  IN IF retry /\ ~settled.connected /\ control.running
     THEN [settled EXCEPT !.retry = RetryScheduled(@)]
     ELSE settled

\* Mutant: the end of a peer is forgotten.
OnlyOlder(s, id) == id.generation < s.seen[id.uuid].generation

\* acceptPeerEventIdentityLocked: whether the event counts, and the source
\* after the first event of a generation retired the one before it.
Stale(s, id) ==
  \/ id.generation < s.seen[id.uuid].generation
  \/ /\ id.generation = s.seen[id.uuid].generation
     /\ s.seen[id.uuid].terminal

OutOfOrder(s, id, lane) ==
  /\ lane \in {"message", "open"}
  /\ id.generation = s.seen[id.uuid].generation
  /\ s.seen[id.uuid][lane] # 0
  /\ id.sequence <= s.seen[id.uuid][lane]

Accepts(s, id, lane) == ~Stale(s, id) /\ ~OutOfOrder(s, id, lane)

Accepted(s, id, terminal, lane) ==
  LET known == s.seen[id.uuid]
      newer == id.generation > known.generation
      base == IF newer THEN [generation |-> id.generation, terminal |-> FALSE,
                             message |-> 0, open |-> 0]
              ELSE known
      noted == IF lane \in {"message", "open"}
               THEN [base EXCEPT ![lane] = id.sequence] ELSE base
      marked == [s EXCEPT !.seen[id.uuid] =
                   [noted EXCEPT !.terminal = @ \/ terminal]]
  IN IF newer /\ known.generation # 0
     THEN Published(
            [PeerRetired(marked, [uuid |-> id.uuid,
                                  generation |-> known.generation], FALSE)
               EXCEPT !.mutes[id.uuid][id.generation] = Unmuted])
     ELSE marked

\* handleVideoTrackClosed: the slot that holds the handle, under the type of
\* the event or, for an alpha event, as the primary it was taken for.
ClosedRole(s, id, type, track) ==
  LET holds(t) == Is(s.slots[t], id) /\ s.slots[t].track = track
                    /\ track # NoHandle
  IN CASE type = "alpha" /\ holds("alpha") -> "alpha"
       [] type = "alpha" /\ ~holds("alpha") /\ holds("video") -> "video"
       [] type = "video" /\ holds("video") -> "video"
       [] OTHER -> "none"

VideoClosed(s, id, type, track) ==
  LET role == ClosedRole(s, id, type, track)
  IN IF role = "none" THEN s
     ELSE LET after == [s EXCEPT !.slots[role] = EmptySlot]
          IN [after EXCEPT !.output = after.slots["video"] # EmptySlot,
                           !.connected = HasOwner(after)]

\* handleAudioTrackRetired
AudioClosed(s, id, track) ==
  LET after == IF /\ Is(s.slots["audio"], id)
                  /\ track \in {NoHandle, s.slots["audio"].track}
               THEN [s EXCEPT !.slots["audio"] = EmptySlot] ELSE s
  IN [after EXCEPT !.connected = HasOwner(after)]

\* removePendingPeerTrackLocked
Undeferred(s, id, type, track) ==
  LET emptied(b) ==
        IF Is(b, id) /\ track \in {NoHandle, b.tracks[type]}
        THEN [b EXCEPT !.tracks[type] = NoHandle] ELSE b
      bundles == [i \in 1..Len(s.pending) |-> emptied(s.pending[i])]
  IN [s EXCEPT !.pending =
        Sifted(bundles, {b \in Range(bundles) :
                           \E t \in TrackTypes : b.tracks[t] # NoHandle})]

\* The end of handleTrackSlotEvent: a retired handle loses its callbacks
\* unless it is a current or deferred track again.
InUse(s, track) ==
  \/ \E t \in TrackTypes : s.slots[t].track = track
  \/ \E i \in 1..Len(s.pending) :
       \E t \in TrackTypes : s.pending[i].tracks[t] = track
CallbacksCleared(s, track) ==
  IF InUse(s, track) THEN s ELSE [s EXCEPT !.wired = @ \ {track}]

(***************************************************************************)
(* The handlers.                                                           *)
(***************************************************************************)
\* handleTrackSlotEvent
BehindPosition(s, e) ==
  LET at == s.position[e.type][e.uuid]
  IN \/ e.generation < at.generation
     \/ e.generation = at.generation /\ e.revision <= at.revision

SlotChanged(s, e) ==
  IF BehindPosition(s, e) \/ ~Accepts(s, e, "slot") THEN s
  ELSE
    LET admitted == [Accepted(s, e, FALSE, "slot") EXCEPT
                       !.position[e.type][e.uuid] =
                         [generation |-> e.generation, revision |-> e.revision]]
        closed == IF e.type = "audio" THEN AudioClosed(admitted, e, e.retired)
                  ELSE VideoClosed(admitted, e, e.type, e.retired)
        dropped == Undeferred(closed, e, e.type, e.retired)
    IN IF e.track # NoHandle
       THEN Published(CallbacksCleared(
              OnTrackAndMark(admitted, e, e.type, e.track), e.retired))
       ELSE AfterAdoption(dropped,
              CallbacksCleared(Adopted(dropped), e.retired))

\* Mutant: whoever mutes is shown.
ControlShown(s, id, e) ==
  LET stored == [s.mutes[id.uuid][id.generation] EXCEPT ![e.what] = e.value]
  IN [s EXCEPT !.mutes[id.uuid][id.generation] = stored, !.shown = stored]

\* handlePeerControlState, for one part of the mute state.
ControlApplied(s, id, e) ==
  LET owner == \E t \in TrackTypes : Is(s.slots[t], id)
      stored == [s.mutes[id.uuid][id.generation] EXCEPT ![e.what] = e.value]
      kept == [s EXCEPT !.mutes[id.uuid][id.generation] = stored]
  IN IF HasOwner(s) /\ ~owner THEN kept
     ELSE [kept EXCEPT
             !.shown = stored,
             !.audible = IF e.what = "audio"
                         THEN Is(s.slots["audio"], id) /\ ~stored.audio ELSE @]

\* handlePeerDataChannelMessage, for a message about the sender or about
\* another peer, whose identity the manager gives (claimPeerEventIdentity).
Claim(p) == [uuid |-> p, generation |-> manager[p].generation,
             sequence |-> manager[p].sequence + 1]

ControlReceived(s, e) ==
  IF ~Accepts(s, e, "message") THEN s
  ELSE LET heard == Accepted(s, e, FALSE, "message")
           target == Claim(e.target)
       IN IF e.target = NoPublisher THEN ControlApplied(heard, e, e)
          ELSE IF \/ manager[e.target].state = "absent"
                  \/ ~Accepts(heard, target, "message") THEN heard
          ELSE ControlApplied(Accepted(heard, target, FALSE, "message"),
                              target, e)

\* Mutant: only a bye asks for the stream again.
PeerEndedQuietly(s, e) ==
  IF ~Accepts(s, e, "end") THEN s
  ELSE PeerRetired(Accepted(s, e, TRUE, "end"), e, e.kind = "bye")

\* handlePeerDisconnected and applyPeerCleanupSignal
PeerEnded(s, e) ==
  IF ~Accepts(s, e, "end") THEN s
  ELSE PeerRetired(Accepted(s, e, TRUE, "end"), e, TRUE)

\* markNativePeerConnectedIfReady
PeerCameUp(s, e) ==
  IF ~Accepts(s, e, "up") THEN s
  ELSE MarkedConnected(Accepted(s, e, FALSE, "up"), e)

\* handlePeerDataChannelOpen
ChannelOpened(s, e) ==
  IF ~Accepts(s, e, "open") THEN s ELSE Accepted(s, e, FALSE, "open")

Handled(s, e) ==
  CASE e.kind = "connected"    -> PeerCameUp(s, e)
    [] e.kind = "disconnected" -> PeerEnded(s, e)
    [] e.kind = "cleanup"      -> PeerEnded(s, e)
    [] e.kind = "bye"          -> PeerEnded(s, e)
    [] e.kind = "open"         -> ChannelOpened(s, e)
    [] e.kind = "slot"         -> SlotChanged(s, e)
    [] e.kind = "control"      -> ControlReceived(s, e)

\* A bye also makes the manager disconnect the peer it came from; a message
\* about another peer takes a number of that peer.
Deliver(e) ==
  /\ e \in wire
  /\ wire' = wire \ {e}
  /\ source' = Handled(source, e)
  /\ manager' =
       IF /\ e.kind = "bye" /\ Accepts(source, e, "end")
          /\ manager[e.uuid].generation = e.generation
       THEN [manager EXCEPT ![e.uuid].state = "absent"]
       ELSE IF /\ e.kind = "control" /\ Accepts(source, e, "message")
               /\ e.target # NoPublisher
       THEN [manager EXCEPT ![e.target].sequence = @ + 1]
       ELSE manager
  /\ UNCHANGED <<control, sig, left, created>>

(***************************************************************************)
(* What the peers do, as VDONinjaPeerManager reports it.                   *)
(***************************************************************************)
\* A callback runs only if the source has installed it by then.
Emit(e) == wire' = IF control.hooked THEN wire \cup {e} ELSE wire

Event(kind, p) ==
  [kind |-> kind, uuid |-> p, generation |-> manager[p].generation,
   sequence |-> manager[p].sequence + 1, type |-> "video", revision |-> 0,
   track |-> NoHandle, retired |-> NoHandle,
   what |-> "audio", value |-> FALSE, target |-> NoPublisher]

NoManagerSlot == [track |-> NoHandle, revision |-> 0]

Spend(what) == left[what] > 0 /\ left' = [left EXCEPT ![what] = @ - 1]

\* The offer of a publisher, while signaling runs; a new generation takes the
\* place of an old one without a word.
StartPeer(p) ==
  /\ sig = "up"
  /\ manager[p].generation < MaxGenerations /\ Spend("starts")
  /\ manager' = [manager EXCEPT ![p] =
       [generation |-> manager[p].generation + 1, state |-> "connecting",
        sequence |-> 0, slots |-> [t \in TrackTypes |-> NoManagerSlot]]]
  /\ UNCHANGED <<wire, source, control, sig, created>>

PeerUp(p) ==
  /\ manager[p].state = "connecting"
  /\ manager' = [manager EXCEPT ![p].state = "connected"]
  /\ Emit(Event("connected", p))
  /\ UNCHANGED <<source, control, sig, left, created>>

PeerDown(p) ==
  /\ manager[p].state # "absent"
  /\ manager' = [manager EXCEPT ![p].state = "absent"]
  /\ Emit(Event("disconnected", p))
  /\ UNCHANGED <<source, control, sig, left, created>>

\* handleIncomingTrack and handleTrackTerminal: a slot takes a new handle, or
\* loses its own.
NewHandles(type) ==
  LET h(mid, playable) == [n |-> created + 1, mid |-> mid, playable |-> playable]
  IN {h(type, TRUE) : k \in left.kinds \cap {type}}
       \cup {h("video", TRUE) : k \in IF type = "alpha"
                           THEN left.kinds \cap {"alphaAsVideo"} ELSE {}}
       \cup {h("video", FALSE) : k \in IF type = "video"
                           THEN left.kinds \cap {"unplayable"} ELSE {}}

SetSlot(p, type, track) ==
  LET old == manager[p].slots[type]
  IN /\ manager[p].state # "absent" /\ old.track # track
     /\ manager' = [manager EXCEPT ![p].slots[type] =
                      [track |-> track, revision |-> old.revision + 1]]
     /\ Emit([Event("slot", p) EXCEPT
                !.type = type, !.revision = old.revision + 1,
                !.track = track, !.retired = old.track])

TrackArrives(p, type) ==
  /\ Spend("handles")
  /\ \E track \in NewHandles(type) : SetSlot(p, type, track)
  /\ created' = created + 1
  /\ UNCHANGED <<source, control, sig>>

TrackEnds(p, type) ==
  /\ SetSlot(p, type, NoHandle)
  /\ Spend("ends")
  /\ UNCHANGED <<source, control, sig, created>>

\* Messages take the peer's next number; the lanes of messages and of opened
\* channels are the only ones that look at it.
Speaks(p, e) ==
  /\ manager[p].state # "absent"
  /\ manager' = [manager EXCEPT ![p].sequence = @ + 1]
  /\ Emit(e)
  /\ UNCHANGED <<source, control, sig, created>>

SendControl(p, what, value, target) ==
  /\ Spend("mutes")
  /\ Speaks(p, [Event("control", p) EXCEPT !.what = what, !.value = value,
                                           !.target = target])
SendBye(p) == Spend("messages") /\ Speaks(p, Event("bye", p))
OpenChannel(p) == Spend("messages") /\ Speaks(p, Event("open", p))
ServerRemoves(p) == Spend("messages") /\ Speaks(p, Event("cleanup", p))

(***************************************************************************)
(* The source's own threads.                                               *)
(***************************************************************************)
\* thread is the connection thread: what it does next, or how its call of
\* signaling's connect() came out; caller is where disconnect() is; running
\* is nativeRunning_, hooked whether the callbacks are installed, and taken
\* whether the thread took a retry that it has not made.
Control == [thread: {"none", "starting", "hooked", "connecting", "running",
                     "inherited", "ended"},
            caller: {"idle", "flagged", "closed", "unhooked"},
            running: BOOLEAN, hooked: BOOLEAN, taken: BOOLEAN]

Connect ==
  /\ control.caller = "idle" /\ control.thread \in {"none", "ended"}
  /\ Spend("connects")
  /\ control' = [control EXCEPT !.thread = "starting", !.running = TRUE]
  /\ source' = FreshSource(source.connected, NoRetry)
  /\ UNCHANGED <<manager, wire, sig, created>>

\* The connection thread installs the callbacks, whatever the caller does in
\* the meantime, and calls signaling's connect(), which has nothing to do when
\* it finds a connection.
InstallCallbacks ==
  /\ control.thread = "starting"
  /\ control' = [control EXCEPT !.thread = "hooked", !.hooked = TRUE]
  /\ UNCHANGED <<manager, wire, source, sig, left, created>>

ThreadConnects ==
  /\ control.thread = "hooked"
  /\ control' = [control EXCEPT
       !.thread = IF sig = "up" THEN "inherited" ELSE "connecting"]
  /\ sig' = IF sig = "up" THEN "up" ELSE "opening"
  /\ UNCHANGED <<manager, wire, source, left, created>>

ThreadConnected ==
  /\ control.thread = "connecting" /\ sig = "up"
  /\ control' = [control EXCEPT !.thread = "running"]
  /\ UNCHANGED <<manager, wire, source, sig, left, created>>

\* The attempt failed or took too long: signaling may still be trying.
ThreadGivesUp ==
  /\ control.thread = "connecting" /\ sig # "up"
  /\ \/ Spend("signals")
     \/ control.caller # "idle" /\ UNCHANGED left
  /\ control' = [control EXCEPT !.thread = "ended", !.running = FALSE]
  /\ UNCHANGED <<manager, wire, source, sig, created>>

InLoop == control.thread \in {"running", "inherited"} /\ ~control.taken

ThreadEnds ==
  /\ InLoop /\ ~control.running
  /\ control' = [control EXCEPT !.thread = "ended"]
  /\ UNCHANGED <<manager, wire, source, sig, left, created>>

\* The callback of a new connection asks for the stream; a lost connection
\* keeps the media, and is tried again or not.
ServerAccepts ==
  /\ sig = "opening" /\ sig' = "up"
  /\ source' = IF control.hooked /\ control.running
               THEN [source EXCEPT !.retry = Requested(@, TRUE)] ELSE source
  /\ UNCHANGED <<manager, wire, control, left, created>>

ServerGoes ==
  /\ sig # "off" /\ Spend("signals")
  /\ sig' \in {"opening", "off"}
  /\ UNCHANGED <<manager, wire, source, control, created>>

StreamAdded ==
  /\ sig = "up" /\ control.hooked /\ control.running /\ Spend("signals")
  /\ source' = [source EXCEPT !.retry = Requested(@, FALSE)]
  /\ UNCHANGED <<manager, wire, control, sig, created>>

Alert(alert) ==
  /\ sig = "up" /\ control.hooked /\ control.running /\ Spend("signals")
  /\ source' = [source EXCEPT !.retry = Alerted(@, alert)]
  /\ UNCHANGED <<manager, wire, control, sig, created>>

\* serviceViewRetry: the timeout of a request, then the retry it takes under
\* the lock and makes after it.
ServiceTimeout ==
  /\ InLoop /\ control.running /\ ~source.connected
  /\ ~source.retry.suppressed /\ TimedOut(source.retry)
  /\ source' = [source EXCEPT !.retry = RequestTimedOut(@)]
  /\ UNCHANGED <<manager, wire, control, sig, left, created>>

ServiceTakes ==
  /\ InLoop /\ control.running /\ ~source.connected
  /\ sig = "up" /\ RetryIsDue(source.retry)
  /\ source' = [source EXCEPT !.retry = RetryTaken(@)]
  /\ control' = [control EXCEPT !.taken = TRUE]
  /\ UNCHANGED <<manager, wire, sig, left, created>>

ServiceRequests ==
  /\ control.taken
  /\ control' = [control EXCEPT !.taken = FALSE]
  /\ source' = IF control.running /\ sig = "up"
               THEN [source EXCEPT !.retry = Requested(@, FALSE)] ELSE source
  /\ UNCHANGED <<manager, wire, sig, left, created>>

TimePasses ==
  /\ \E r \in Elapsed(source.retry) :
       r # source.retry /\ source' = [source EXCEPT !.retry = r]
  /\ UNCHANGED <<manager, wire, control, sig, left, created>>

\* disconnect(): the flags; then signaling; then the callbacks; and, when the
\* connection thread has ended, the reset.
Disconnect ==
  /\ control.caller = "idle" /\ control.thread # "none"
  /\ Spend("disconnects")
  /\ control' = [control EXCEPT !.caller = "flagged", !.running = FALSE]
  /\ source' = [source EXCEPT !.connected = FALSE, !.audible = FALSE,
                              !.retry = NoRetry]
  /\ UNCHANGED <<manager, wire, sig, created>>

CloseSignaling ==
  /\ control.caller = "flagged"
  /\ control' = [control EXCEPT !.caller = "closed"]
  /\ sig' = "off"
  /\ UNCHANGED <<manager, wire, source, left, created>>

RemoveCallbacks ==
  /\ control.caller = "closed"
  /\ control' = [control EXCEPT !.caller = "unhooked", !.hooked = FALSE]
  /\ UNCHANGED <<manager, wire, source, sig, left, created>>

ResetNativeState ==
  /\ control.caller = "unhooked" /\ control.thread = "ended"
  /\ control' = [control EXCEPT !.caller = "idle", !.thread = "none"]
  /\ source' = FreshSource(source.connected, source.retry)
  /\ UNCHANGED <<manager, wire, sig, left, created>>

TrackInit ==
  /\ manager = [p \in Publishers |->
       [generation |-> 0, state |-> "absent", sequence |-> 0,
        slots |-> [t \in TrackTypes |-> NoManagerSlot]]]
  /\ wire = {}
  /\ source = FreshSource(FALSE, NoRetry)
  /\ control = [thread |-> "none", caller |-> "idle", running |-> FALSE,
                hooked |-> FALSE, taken |-> FALSE]
  /\ sig = "off"
  /\ left \in Budgets /\ created = 0

PeerNext(p) ==
  \/ StartPeer(p) \/ PeerUp(p) \/ PeerDown(p)
  \/ \E type \in TrackTypes : TrackArrives(p, type) \/ TrackEnds(p, type)
  \/ \E what \in {"audio", "video"}, value \in BOOLEAN,
        target \in (Publishers \ {p}) \cup {NoPublisher} :
       SendControl(p, what, value, target)
  \/ SendBye(p) \/ OpenChannel(p) \/ ServerRemoves(p)

TrackNext ==
  \/ \E e \in wire : Deliver(e)
  \/ \E p \in Publishers : PeerNext(p)
  \/ Connect \/ InstallCallbacks
  \/ ThreadConnects \/ ThreadConnected \/ ThreadGivesUp \/ ThreadEnds
  \/ ServerAccepts \/ ServerGoes \/ StreamAdded
  \/ \E alert \in Alerts : Alert(alert)
  \/ ServiceTimeout \/ ServiceTakes \/ ServiceRequests \/ TimePasses
  \/ Disconnect \/ CloseSignaling \/ RemoveCallbacks \/ ResetNativeState

TrackSpec == TrackInit /\ [][TrackNext]_trackVars

(***************************************************************************)
(* Properties.                                                             *)
(***************************************************************************)
SlotOrEmpty == TrackSlot \cup {EmptySlot}

\* Every variable has its type.
TracksTypeOK ==
  /\ source.slots \in [TrackTypes -> SlotOrEmpty]
  /\ source.pending \in Seq(Bundle)
  /\ source.shown \in Mutes /\ source.retry \in RetryState
  /\ source.connected \in BOOLEAN /\ source.audible \in BOOLEAN
  /\ source.output \in BOOLEAN /\ source.wired \subseteq Handle
  /\ \A p \in Publishers : manager[p].state \in {"absent", "connecting", "connected"}
  /\ control \in Control /\ sig \in {"off", "opening", "up"}

\* One peer's media at a time: primary, alpha and audio never straddle peers
\* or generations; nothing is played or kept of a generation that was replaced
\* or ended; and a deferred bundle waits only for an owner that is there.
OneLiveOwner ==
  /\ \A t, u \in Occupied(source) :
       /\ source.slots[t].uuid = source.slots[u].uuid
       /\ source.slots[t].generation = source.slots[u].generation
  /\ \A t \in Occupied(source) :
       LET seen == source.seen[source.slots[t].uuid]
       IN seen.generation = source.slots[t].generation /\ ~seen.terminal
  /\ \A i \in 1..Len(source.pending) :
       LET seen == source.seen[source.pending[i].uuid]
       IN seen.generation = source.pending[i].generation /\ ~seen.terminal
  /\ source.pending # <<>> => HasOwner(source)

\* What is shown and heard follows the mute state of the peer that is played,
\* whoever else mutes or unmutes, and in whatever order they come.
ShownFollowsOwner ==
  HasOwner(source) =>
    LET owner == OwnerSlot(source)
        mutes == source.mutes[owner.uuid][owner.generation]
    IN /\ source.shown = mutes
       /\ source.audible => source.slots["audio"] # EmptySlot /\ ~mutes.audio

\* A track that is played has its callbacks, and no other handle has any.
PlayedTracksAreWired ==
  source.wired = {source.slots[t].track : t \in Occupied(source)}

\* While the source wants its stream and has its connection to the server, a
\* source with nothing connected has a request out, a retry set, or a peer that
\* will still be heard of.  (A thread that finds a connection which an earlier
\* one left behind never asks: see DisconnectedIsQuiet.)
StillAsking ==
  (control.thread = "running" /\ control.running /\ sig = "up"
     /\ ~source.connected /\ ~source.retry.suppressed) =>
    \/ source.retry.awaiting \/ source.retry.due # "none" \/ control.taken
    \/ \E p \in Publishers : manager[p].state # "absent"
    \/ wire # {}

\* A source that was disconnected has no connection to the server and no
\* callbacks.
DisconnectedIsQuiet ==
  control.caller = "idle" /\ control.thread = "none"
    => sig = "off" /\ ~control.hooked
===============================================================================
