------------------------------- MODULE VideoSend -------------------------------
(***************************************************************************)
(* The way of an encoded video frame to one viewer: the encoder's thread   *)
(* puts it in the media queue of VDONinjaOutput, the media worker takes it *)
(* out and gives it to VDONinjaPeerManager, which passes the viewer's      *)
(* VideoKeyframeGate, numbers its RTP packets and queues it in the         *)
(* viewer's RtpPacketPacer, whose worker sends packet after packet.        *)
(* Other threads replay the cached keyframe, answer the viewer's keyframe  *)
(* requests and switch its video off and on.                               *)
(*                                                                         *)
(* A step is what one thread does under mediaSendMutex_, under the peer's  *)
(* videoSendMutex, or under the pacer's mutex_: the sections that touch    *)
(* the gate and the pacer nest mediaMutex and the pacer's mutex inside     *)
(* videoSendMutex, and what may come in between commutes with them.        *)
(*                                                                         *)
(* The decoder at the other end is a ghost: it has decoded up to frame     *)
(* synced when a live keyframe and every delta after it were sent whole.   *)
(*                                                                         *)
(* Left out: tokens and the shared budget, which only delay a packet,      *)
(* repairs and duplicates, and the hand-over of the gate in an ICE restart.*)
(***************************************************************************)
EXTENDS Integers, Sequences, FiniteSets, SequencesExt

CONSTANTS
  Viewers,        \* threads that run the viewer's callbacks and requests
  QueueLimit,     \* kMaxQueuedMediaFrames
  Sizes,          \* the numbers of RTP packets a frame may have
  SeqModulus,     \* 2^16, the range of RTP sequence numbers
  FirstSequence,  \* the first number of this viewer
  MaxFrames,      \* bound on the video frames encoded
  MaxAudio,       \* bound on the audio frames encoded
  MaxLosses,      \* bound on the frames that are rejected or fail
  MaxEvents       \* bound on the viewer's requests

ASSUME VideoSendAssumption ==
  /\ QueueLimit \in Nat \ {0} /\ Sizes \subseteq Nat \ {0}
  /\ SeqModulus \in Nat \ {0} /\ FirstSequence \in 0..SeqModulus - 1
  /\ MaxFrames \in Nat /\ MaxAudio \in Nat
  /\ MaxLosses \in Nat /\ MaxEvents \in Nat

VARIABLES
  encoded,    \* video frames encoded so far; frame n is the n-th
  encoder,    \* the encoder's thread: "idle", or "key" between the cache and
              \* the queue
  outq,       \* mediaSendQueue_
  cached,     \* the frame in cachedKeyframe_, 0 when empty
  media,      \* the media worker: where it is, and the frame it holds
  peer,       \* connected, retired and videoSendEnabled of the peer
  gate,       \* its videoKeyframeGate
  seq,        \* its videoSeq
  pacer,      \* queue_ of its videoPacer
  stopping,   \* stopping_ of its videoPacer
  worker,     \* the pacer's worker
  viewer,     \* the threads in Viewers: where each is, and its frame
  sent,       \* ghost: the sequence numbers sent
  synced,     \* ghost: the last frame the decoder can have decoded
  broken,     \* ghost: a delta was sent without the frame it refers to
  overtaken,  \* ghost: the media queue dropped a frame while the worker
              \* held an older keyframe
  counts      \* bounds: audio frames, losses and events so far

output == <<encoded, encoder, outq, cached, media>>
ghosts == <<sent, synced, broken, overtaken>>
videoVars == <<encoded, encoder, outq, cached, media, peer, gate, seq, pacer,
          stopping, worker, viewer, sent, synced, broken, overtaken, counts>>

Numbers == 0..SeqModulus - 1
FrameIndex == 0..MaxFrames
Frame == [kind: {"key", "delta", "audio"}, n: FrameIndex]
NoFrame == [kind |-> "audio", n |-> 0]

Gate == [awaiting: BOOLEAN, cachedPrime: BOOLEAN, generation: Nat,
         pending: Nat, pendingLive: Nat]

\* A frame in the pacer: packets first .. first+size-1, of which next were
\* taken; started says the same as next > 0.
QueuedFrame ==
  [kind: {"key", "delta", "cached"}, n: 1..MaxFrames, ticket: Nat,
   first: Numbers, size: Sizes, next: Nat]
NoQueued == [kind |-> "delta", n |-> 0, ticket |-> 0]

-----------------------------------------------------------------------------
(* VideoKeyframeGate.                                                       *)

\* A mutant: a cached keyframe lets deltas pass.
CachedAuthorizesDeltas(g, key, cachedReplay) ==
  IF cachedReplay
    THEN key /\ g.awaiting /\ g.cachedPrime /\ g.pending = 0
    ELSE key \/ ~g.awaiting \/ g.pending > 0

CanQueueFrame(g, key, cachedReplay) ==
  IF cachedReplay
    THEN key /\ g.awaiting /\ g.cachedPrime /\ g.pending = 0
    ELSE key \/ ~g.awaiting \/ g.pendingLive > 0

KeyframeQueued(g, cachedReplay) ==
  [g EXCEPT !.cachedPrime = FALSE, !.pending = @ + 1,
            !.pendingLive = IF cachedReplay THEN @ ELSE @ + 1]

\* A mutant: a stale completion counts too.
SettledInAnyGeneration(g, ticket, cachedReplay) ==
  IF g.pending > 0
    THEN [g EXCEPT !.pending = @ - 1,
                   !.pendingLive = IF ~cachedReplay /\ @ > 0 THEN @ - 1 ELSE @]
    ELSE g

\* A completion counts down what is pending in its own generation.
Settled(g, ticket, cachedReplay) ==
  IF ticket = g.generation /\ g.pending > 0
    THEN [g EXCEPT !.pending = @ - 1,
                   !.pendingLive = IF ~cachedReplay /\ @ > 0 THEN @ - 1 ELSE @]
    ELSE g

\* Only a live keyframe of the current generation, sent whole, opens the gate.
KeyframeSendCompleted(g, ticket, success, cachedReplay) ==
  LET s == Settled(g, ticket, cachedReplay)
  IN IF ticket # g.generation
       THEN s
       ELSE [s EXCEPT !.awaiting = ~success \/ cachedReplay,
                      !.cachedPrime = FALSE]

\* advanceGeneration(): the wrap of its 64 bits is left out.
Advanced(g) ==
  [g EXCEPT !.generation = @ + 1, !.pending = 0, !.pendingLive = 0]

ResetForCachedPrime(g) ==
  [Advanced(g) EXCEPT !.awaiting = TRUE, !.cachedPrime = TRUE]

RequireLiveKeyframe(g, allowPending) ==
  [(IF ~allowPending \/ g.pendingLive = 0 THEN Advanced(g) ELSE g)
     EXCEPT !.awaiting = TRUE, !.cachedPrime = FALSE]

CachedPrimeAllowed(g) == g.awaiting /\ g.cachedPrime /\ g.pending = 0

NeedsNewLiveKeyframe(g) ==
  ~CachedPrimeAllowed(g) /\ g.awaiting /\ g.pendingLive = 0

DecoderKeyframeRequest(g) ==
  IF CachedPrimeAllowed(g) THEN g ELSE [g EXCEPT !.cachedPrime = FALSE]

-----------------------------------------------------------------------------
(* RtpPacketPacer: what leaves the queue, and what its numbers become.      *)

Started(q) == q # <<>> /\ Head(q).next > 0

AfterCurrent(q) == IF Started(q) THEN <<Head(q)>> ELSE <<>>

Discarded(q) == IF Started(q) THEN Tail(q) ELSE q

UntilKeyframe(q) ==
  LET rest == Discarded(q)
      live == SelectInSeq(rest, LAMBDA f : f.kind # "delta")
  IN AfterCurrent(q) \o IF live = 0 THEN <<>> ELSE SubSeq(rest, live, Len(rest))

\* The packets of these frames that were not taken, by their places.
PacketsOf(q) == UNION {{i} \X (q[i].next..q[i].size - 1) : i \in DOMAIN q}

\* A mutant: the packets of the frame being sent count as discarded.
UnsentWithCurrent(q) == Cardinality(PacketsOf(q))

Unsent(q) == Cardinality(PacketsOf(Discarded(q)))

Reclaimed(number, packets) == (number - packets) % SeqModulus

\* discardQueuedMediaFramesAfterCurrent() and the rewind of videoSeq: the
\* worker that selected a frame sees that the queue was changed.
DiscardAndReclaim ==
  /\ pacer' = AfterCurrent(pacer)
  /\ seq' = Reclaimed(seq, Unsent(pacer))
  /\ worker' = [worker EXCEPT !.stale = @ \/ Discarded(pacer) # <<>>]

-----------------------------------------------------------------------------
(* The peer manager, for a frame f from the media worker or the cache.      *)

Refuses(f, cachedReplay) ==
  \/ peer.retired \/ ~peer.connected \/ ~peer.enabled
  \/ ~CanQueueFrame(gate, f.kind = "key", cachedReplay)

\* The frame cannot be packetized, or the pacer has no room for it.
Rejected ==
  /\ counts.losses < MaxLosses
  /\ counts' = [counts EXCEPT !.losses = @ + 1]
  /\ gate' = RequireLiveKeyframe(gate, FALSE)
  /\ DiscardAndReclaim

Queued(f, cachedReplay) ==
  \E size \in Sizes :
    /\ pacer' = Append(pacer,
         [kind |-> IF cachedReplay THEN "cached" ELSE f.kind, n |-> f.n,
          ticket |-> IF f.kind = "key" THEN gate.generation ELSE 0,
          first |-> seq, size |-> size, next |-> 0])
    /\ seq' = (seq + size) % SeqModulus
    /\ gate' = IF f.kind = "key" THEN KeyframeQueued(gate, cachedReplay) ELSE gate
    /\ UNCHANGED <<worker, counts>>

SendToPeer(f, cachedReplay) ==
  IF Refuses(f, cachedReplay)
    THEN UNCHANGED <<gate, seq, pacer, worker, counts>>
    ELSE Rejected \/ Queued(f, cachedReplay)

\* requireLiveKeyframeForAll(), for this viewer.
CloseGate ==
  IF peer.retired
    THEN UNCHANGED <<gate, seq, pacer, worker>>
    ELSE gate' = RequireLiveKeyframe(gate, FALSE) /\ DiscardAndReclaim

-----------------------------------------------------------------------------
(* The output: the encoder's thread and the media worker.                   *)

Saturated(q) == Len(q) >= QueueLimit

DropsVideo == Saturated(outq) /\ Head(outq).kind # "audio"

Holds(kind) == media.pc # "idle" /\ media.frame.kind = kind

\* enqueueMediaFrame(): a full queue loses its oldest frame, and a lost video
\* frame closes the gate before mediaSendMutex_ is released.
Enqueue(f) ==
  /\ outq' = Append(IF Saturated(outq) THEN Tail(outq) ELSE outq, f)
  /\ IF DropsVideo THEN CloseGate ELSE UNCHANGED <<gate, seq, pacer, worker>>
  /\ overtaken' = (overtaken \/ (DropsVideo /\ Holds("key")))

\* A keyframe is copied to the cache before it is queued.
CacheKeyframe ==
  /\ encoder = "idle" /\ encoded < MaxFrames
  /\ encoder' = "key" /\ encoded' = encoded + 1 /\ cached' = encoded'
  /\ UNCHANGED <<outq, media, peer, gate, seq, pacer, stopping, worker, viewer,
                 ghosts, counts>>

EncodeKeyframe ==
  /\ encoder = "key" /\ encoder' = "idle"
  /\ Enqueue([kind |-> "key", n |-> encoded])
  /\ UNCHANGED <<encoded, cached, media, peer, stopping, viewer, sent, synced,
                 broken, counts>>

\* The first frame of an encoder is a keyframe.
EncodeDelta ==
  /\ encoder = "idle" /\ encoded \in 1..MaxFrames - 1
  /\ encoded' = encoded + 1
  /\ Enqueue([kind |-> "delta", n |-> encoded'])
  /\ UNCHANGED <<encoder, cached, media, peer, stopping, viewer, sent, synced,
                 broken, counts>>

EncodeAudio ==
  /\ encoder = "idle" /\ counts.audio < MaxAudio
  /\ counts' = [counts EXCEPT !.audio = @ + 1]
  /\ Enqueue(NoFrame)
  /\ UNCHANGED <<encoded, encoder, cached, media, peer, stopping, viewer, sent,
                 synced, broken>>

MediaIdle == [pc |-> "idle", frame |-> NoFrame]

MediaTakes ==
  /\ media.pc = "idle" /\ outq # <<>>
  /\ media' = [pc |-> "taken", frame |-> Head(outq)]
  /\ outq' = Tail(outq)
  /\ UNCHANGED <<encoded, encoder, cached, peer, gate, seq, pacer, stopping, worker,
                 viewer, ghosts, counts>>

\* sendVideoFrame() lists the connected viewers first; audio goes elsewhere.
MediaTargets ==
  /\ media.pc = "taken"
  /\ media' = IF media.frame.kind # "audio" /\ peer.connected
                THEN [media EXCEPT !.pc = "targeted"] ELSE MediaIdle
  /\ UNCHANGED <<encoded, encoder, outq, cached, peer, gate, seq, pacer,
                 stopping, worker, viewer, ghosts, counts>>

MediaSends ==
  /\ media.pc = "targeted"
  /\ SendToPeer(media.frame, FALSE)
  /\ media' = MediaIdle
  /\ UNCHANGED <<encoded, encoder, outq, cached, peer, stopping, viewer, ghosts>>

-----------------------------------------------------------------------------
(* The viewer: connection state, keyframe requests, video off and on.       *)

ViewerIdle == [pc |-> "idle", n |-> 0]
ViewerAt(v, pc) == viewer' = [viewer EXCEPT ![v].pc = pc]

Event ==
  /\ counts.events < MaxEvents
  /\ counts' = [counts EXCEPT !.events = @ + 1]

Connect(v) ==
  /\ viewer[v].pc = "idle" /\ ~peer.connected /\ ~peer.retired
  /\ peer' = [peer EXCEPT !.connected = TRUE]
  /\ ViewerAt(v, "copy")
  /\ UNCHANGED <<output, gate, seq, pacer, stopping, worker, ghosts, counts>>

\* Disconnected, failed, closed, or disconnectPeer().
Retire ==
  /\ ~peer.retired
  /\ peer' = [peer EXCEPT !.retired = TRUE, !.connected = FALSE]
  /\ UNCHANGED <<output, gate, seq, pacer, stopping, worker, viewer, ghosts,
                 counts>>

\* A PLI, or a keyframe request on the data channel.
KeyframeRequest(v) ==
  /\ viewer[v].pc = "idle" /\ ~peer.retired /\ Event
  /\ gate' = DecoderKeyframeRequest(gate)
  /\ IF NeedsNewLiveKeyframe(gate)
       THEN DiscardAndReclaim ELSE UNCHANGED <<seq, pacer, worker>>
  /\ ViewerAt(v, "copy")
  /\ UNCHANGED <<output, peer, stopping, ghosts>>

DisableVideo(v) ==
  /\ viewer[v].pc = "idle" /\ ~peer.retired /\ peer.enabled /\ Event
  /\ peer' = [peer EXCEPT !.enabled = FALSE]
  /\ UNCHANGED <<output, gate, seq, pacer, stopping, worker, viewer, ghosts>>

EnableVideo(v) ==
  /\ viewer[v].pc = "idle" /\ ~peer.retired /\ ~peer.enabled
  /\ peer' = [peer EXCEPT !.enabled = TRUE]
  /\ gate' = ResetForCachedPrime(gate)
  /\ ViewerAt(v, "copy")
  /\ UNCHANGED <<output, seq, pacer, stopping, worker, ghosts, counts>>

\* A repeated offer request resets the gate of a peer that it found not
\* connected, whatever has become of it since.
OfferRequest(v) ==
  /\ viewer[v].pc = "idle" /\ ~peer.retired /\ ~peer.connected /\ Event
  /\ ViewerAt(v, "reset")
  /\ UNCHANGED <<output, peer, gate, seq, pacer, stopping, worker, ghosts>>

OfferResetsGate(v) ==
  /\ viewer[v].pc = "reset"
  /\ gate' = ResetForCachedPrime(gate)
  /\ ViewerAt(v, "idle")
  /\ UNCHANGED <<output, peer, seq, pacer, stopping, worker, ghosts, counts>>

\* primeViewerWithCachedKeyframe() copies the keyframe, then sends the copy.
CopyCached(v) ==
  /\ viewer[v].pc = "copy"
  /\ viewer' = [viewer EXCEPT ![v] =
       IF cached = 0 THEN ViewerIdle ELSE [pc |-> "prime", n |-> cached]]
  /\ UNCHANGED <<output, peer, gate, seq, pacer, stopping, worker, ghosts,
                 counts>>

Prime(v) ==
  /\ viewer[v].pc = "prime"
  /\ SendToPeer([kind |-> "key", n |-> viewer[v].n], TRUE)
  /\ viewer' = [viewer EXCEPT ![v] = ViewerIdle]
  /\ UNCHANGED <<output, peer, stopping, ghosts>>

-----------------------------------------------------------------------------
(* The pacer's worker.                                                      *)

WorkerAt(pc) == [pc |-> pc, stale |-> FALSE, frame |-> NoQueued, ok |-> FALSE]

\* It picks the front frame, then waits for the shared budget with no lock.
WorkerSelects ==
  /\ worker.pc = "idle" /\ ~stopping /\ pacer # <<>>
  /\ worker' = WorkerAt("selected")
  /\ UNCHANGED <<output, peer, gate, seq, pacer, stopping, viewer, ghosts,
                 counts>>

Reselects == stopping \/ worker.stale

Undecodable(f) == f.kind = "delta" /\ synced # f.n - 1

WorkerTakes ==
  /\ worker.pc = "selected"
  /\ IF Reselects
       THEN /\ worker' = WorkerAt("idle")
            /\ UNCHANGED <<pacer, broken>>
       ELSE /\ worker' = WorkerAt("sending")
            /\ pacer' = [pacer EXCEPT ![1].next = @ + 1]
            /\ broken' = (broken \/ (Undecodable(Head(pacer)) /\ ~peer.retired))
  /\ UNCHANGED <<output, peer, gate, seq, stopping, viewer, sent, synced,
                 overtaken, counts>>

\* The front was started, so no discard removes it while its packet is sent.
PacketSent ==
  LET f == Head(pacer)
      last == f.next = f.size
  IN /\ worker.pc = "sending"
     /\ sent' = sent \cup {(f.first + f.next - 1) % SeqModulus}
     /\ pacer' = IF last THEN Tail(pacer) ELSE pacer
     /\ worker' = IF last
                    THEN [WorkerAt("done") EXCEPT !.frame.kind = f.kind,
                            !.frame.n = f.n, !.frame.ticket = f.ticket, !.ok = TRUE]
                    ELSE WorkerAt("idle")
     /\ synced' = IF ~last THEN synced
                  ELSE IF f.kind = "key" \/ (f.kind = "delta" /\ synced = f.n - 1)
                    THEN f.n
                  ELSE 0
     /\ UNCHANGED <<output, peer, gate, seq, stopping, viewer, broken,
                    overtaken, counts>>

PacketFails ==
  LET f == Head(pacer)
  IN /\ worker.pc = "sending" /\ counts.losses < MaxLosses
     /\ counts' = [counts EXCEPT !.losses = @ + 1]
     /\ pacer' = Tail(pacer)
     /\ worker' = [WorkerAt("done") EXCEPT !.frame.kind = f.kind,
                     !.frame.n = f.n, !.frame.ticket = f.ticket]
     /\ synced' = 0
     /\ UNCHANGED <<output, peer, gate, seq, stopping, viewer, sent, broken,
                    overtaken>>

\* The completion callback of the frame that left the queue.
CompletedGate(f, ok) ==
  IF f.kind # "delta"
    THEN KeyframeSendCompleted(gate, f.ticket, ok, f.kind = "cached")
    ELSE IF ok THEN gate ELSE RequireLiveKeyframe(gate, TRUE)

WorkerCompletes ==
  /\ worker.pc = "done"
  /\ worker' = WorkerAt("idle")
  /\ IF peer.retired
       THEN UNCHANGED <<gate, pacer>>
       ELSE /\ gate' = CompletedGate(worker.frame, worker.ok)
            /\ pacer' = IF worker.ok THEN pacer ELSE UntilKeyframe(pacer)
  /\ UNCHANGED <<output, peer, seq, stopping, viewer, ghosts, counts>>

\* The release of a retired peer stops its pacer.
StopPacer ==
  /\ peer.retired /\ ~stopping
  /\ stopping' = TRUE
  /\ UNCHANGED <<output, peer, gate, seq, pacer, worker, viewer, ghosts, counts>>

WorkerEnds ==
  /\ stopping /\ worker.pc = "idle"
  /\ worker' = WorkerAt("over")
  /\ pacer' = <<>>
  /\ UNCHANGED <<output, peer, gate, seq, stopping, viewer, ghosts, counts>>

-----------------------------------------------------------------------------
\* createPublisherConnection() and the offer request each reset a new gate.
VideoInit ==
  /\ encoded = 0 /\ encoder = "idle" /\ outq = <<>> /\ cached = 0 /\ media = MediaIdle
  /\ peer = [connected |-> FALSE, retired |-> FALSE, enabled |-> TRUE]
  /\ gate = ResetForCachedPrime(ResetForCachedPrime(
              [awaiting |-> TRUE, cachedPrime |-> TRUE, generation |-> 1,
               pending |-> 0, pendingLive |-> 0]))
  /\ seq = FirstSequence /\ pacer = <<>> /\ stopping = FALSE
  /\ worker = WorkerAt("idle")
  /\ viewer = [v \in Viewers |-> ViewerIdle]
  /\ sent = {} /\ synced = 0 /\ broken = FALSE /\ overtaken = FALSE
  /\ counts = [audio |-> 0, losses |-> 0, events |-> 0]

Encoder == CacheKeyframe \/ EncodeKeyframe \/ EncodeDelta \/ EncodeAudio
MediaWorker == MediaTakes \/ MediaTargets \/ MediaSends
Viewer(v) ==
  \/ Connect(v) \/ KeyframeRequest(v) \/ DisableVideo(v) \/ EnableVideo(v)
  \/ OfferRequest(v) \/ OfferResetsGate(v) \/ CopyCached(v) \/ Prime(v)
PacerWorker ==
  WorkerSelects \/ WorkerTakes \/ PacketSent \/ PacketFails \/ WorkerCompletes
    \/ WorkerEnds

VideoNext ==
  \/ Encoder \/ MediaWorker \/ PacerWorker \/ Retire \/ StopPacer
  \/ \E v \in Viewers : Viewer(v)

VideoSpec == VideoInit /\ [][VideoNext]_videoVars

-----------------------------------------------------------------------------
(* Properties.                                                              *)

\* Every variable has its type; the media queue never exceeds its limit
\* (enqueueMediaFrame makes room before it appends).
VideoTypeOK ==
  /\ encoded \in FrameIndex /\ cached \in FrameIndex /\ synced \in FrameIndex
  /\ encoder \in {"idle", "key"} /\ outq \in Seq(Frame) /\ Len(outq) <= QueueLimit
  /\ media \in [pc: {"idle", "taken", "targeted"}, frame: Frame]
  /\ peer \in [connected: BOOLEAN, retired: BOOLEAN, enabled: BOOLEAN]
  /\ gate \in Gate /\ seq \in Numbers /\ pacer \in Seq(QueuedFrame)
  /\ worker \in [pc: {"idle", "selected", "sending", "done", "over"},
                 stale: BOOLEAN, ok: BOOLEAN,
                 frame: [kind: {"key", "delta", "cached"}, n: FrameIndex,
                         ticket: Nat]]
  /\ viewer \in [Viewers -> [pc: {"idle", "copy", "prime", "reset"},
                             n: FrameIndex]]
  /\ sent \subseteq Numbers
  /\ {stopping, broken, overtaken} \subseteq BOOLEAN
  /\ counts \in [audio: Nat, losses: Nat, events: Nat]

\* A viewer never receives a delta without the frame it refers to, whatever
\* is lost on the way: the gate lets deltas pass only behind a live keyframe.
DeltasFollowReferences == ~broken

\* The same, unless the media queue overtook a keyframe in the worker's
\* hands: the only hole in what the gate does.
BrokenOnlyWhenOvertaken == broken => overtaken

\* The live keyframes the gate counts on are those of its generation that the
\* pacer still has or whose completion is due: a count above that would pass
\* deltas with no keyframe before them, one below would hold them back.
LivePending(f) == f.kind = "key" /\ f.ticket = gate.generation
PendingIsQueued ==
  ~peer.retired =>
    gate.pendingLive =
      Cardinality({i \in DOMAIN pacer : LivePending(pacer[i])})
        + IF worker.pc = "done" /\ LivePending(worker.frame) THEN 1 ELSE 0

\* What is queued is typed and bounded, and what the gate counts as pending is
\* what is queued.
QueuesOK == VideoTypeOK /\ PendingIsQueued

\* Reclaimed numbers are never those of a packet that was sent or still waits:
\* two packets of this viewer never share a sequence number.
Waiting(i) ==
  {(pacer[i].first + k) % SeqModulus : k \in pacer[i].next..pacer[i].size - 1}
NumbersFresh ==
  /\ seq \notin sent
  /\ \A i \in DOMAIN pacer :
       /\ Waiting(i) \cap (sent \cup {seq}) = {}
       /\ \A j \in DOMAIN pacer : i # j => Waiting(i) \cap Waiting(j) = {}
===============================================================================
