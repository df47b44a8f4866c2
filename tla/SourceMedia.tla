------------------------------ MODULE SourceMedia ------------------------------
(***************************************************************************)
(* The media pipeline of a native source: packets of the primary and the   *)
(* alpha track are assembled, decoded, paired and handed to OBS by the     *)
(* threads of the RTC library, while the track handlers replace tracks and *)
(* mute the picture.  A transition takes every lock, advances the media    *)
(* epoch and clears the pipeline; its second step, under the output lock   *)
(* only, clears the picture and enables output for the new epoch.  A       *)
(* thread captures the epoch when it receives a packet and looks at it     *)
(* again at every lock it takes.                                           *)
(*                                                                         *)
(* A frame carries, for the properties only, the epochs of the packets it  *)
(* was assembled from.  Pixels, scaling, hardware set-up and keyframe      *)
(* requests are left out; a frame that cannot be converted is not shown.   *)
(***************************************************************************)
EXTENDS AlphaSync

CONSTANTS
  VideoThreads, AlphaThreads,  \* the threads that deliver packets of a track
  FirstTimestamp,              \* of the publisher
  MediaBudgets                 \* a run starts with one of these

\* Packets of the two tracks, the timestamps they have, their parts, whether
\* they come out of order, the codecs of primary tracks, transitions, mutes
\* and failures of the decoder.
PacketParts == {"whole", "first", "last", "odd"}
MediaBudget == [video: Nat, alpha: Nat, frames: Nat, parts: SUBSET PacketParts,
                reorder: BOOLEAN,
                codecs: SUBSET {"h264", "vp9"}, changes: Nat,
                mutes: Nat, failures: Nat]

ASSUME SourceMediaAssumption ==
  /\ VideoThreads \cap AlphaThreads = {}
  /\ FirstTimestamp \in Timestamp /\ MediaBudgets \subseteq MediaBudget

VARIABLES
  pipe,     \* what the transitions reset: epochs, assemblies, decoders, sync
  jobs,     \* per thread, the packet it works on
  picture,  \* the frame OBS shows
  handler,  \* what the handler that holds trackEventApplyMutex_ has begun
  allowed   \* what is left of the budget

mediaVars == <<pipe, jobs, picture, handler, allowed>>

(***************************************************************************)
(* Data.                                                                   *)
(***************************************************************************)
Threads == VideoThreads \cup AlphaThreads
RoleOfThread(t) == IF t \in VideoThreads THEN "primary" ELSE "alpha"

Blank == [shown |-> FALSE, ts |-> None, from |-> {}, alphaTs |-> None]
EmptyAssembly == [active |-> FALSE, ts |-> None, from |-> {}]

IdleJob == [stage |-> "idle", epoch |-> 0, ts |-> None, part |-> "whole",
            todo |-> <<>>, out |-> <<>>, pairs |-> {}]

IsCurrent(epoch) == epoch # 0 /\ epoch = pipe.epoch
Outputs(epoch) == IsCurrent(epoch) /\ pipe.outputEpoch = epoch

\* Mutant: the epoch goes on, what the decoders hold stays.
DecodersKept(p) ==
  [p EXCEPT !.outputEpoch = 0, !.epoch = @ + 1,
            !.assembly = [side \in Sides |-> EmptyAssembly],
            !.sync = SyncReset(@), !.mapped = None]

\* resetMediaPipelineStateLocked
PipelineReset(p) ==
  [p EXCEPT !.outputEpoch = 0, !.epoch = @ + 1,
            !.assembly = [side \in Sides |-> EmptyAssembly],
            !.decoder = [side \in Sides |-> <<>>],
            !.sync = SyncReset(@), !.mapped = None]

\* resetVideoDecoder and resetAlphaDecoder
DecoderReset(p, side) ==
  [p EXCEPT !.decoder[side] = <<>>,
            !.sync = SyncReset(@), !.mapped = None]

(***************************************************************************)
(* Assembly.  Both operators give the assembly after a packet and the      *)
(* frames it completed.                                                    *)
(***************************************************************************)
Ends(part) == part \in {"last", "whole"}
Begins(part) == part \in {"first", "whole"}
FrameOf(a) == [ts |-> a.ts, from |-> a.from]

\* processVideoRtpPacket, H.264: a packet of another timestamp completes the
\* frame before it, unless its own payload cannot be used ("odd").
AssembledH264(a, ts, part, epoch) ==
  LET turns == a.active /\ a.ts # ts
      kept == IF a.active /\ ~turns THEN a.from ELSE {}
      before == IF turns /\ a.from # {} THEN <<FrameOf(a)>> ELSE <<>>
      now == [active |-> TRUE, ts |-> ts, from |-> kept \cup {epoch}]
  IN IF part = "odd"
     THEN [assembly |-> [active |-> TRUE, ts |-> ts, from |-> kept],
           done |-> <<>>]
     ELSE IF Ends(part)
     THEN [assembly |-> [EmptyAssembly EXCEPT !.ts = ts],
           done |-> Append(before, FrameOf(now))]
     ELSE [assembly |-> now, done |-> before]

\* processVP9RtpPacket and processAlphaVP9RtpPacket: a frame is what comes
\* between a packet that begins one and a packet that ends one.
AssembledVP9(a, ts, part, epoch) ==
  LET begun == IF Begins(part)
               THEN [active |-> TRUE, ts |-> ts, from |-> {}] ELSE a
      now == [begun EXCEPT !.from = @ \cup {epoch}]
  IN IF part = "odd" \/ ~begun.active THEN [assembly |-> a, done |-> <<>>]
     ELSE IF Ends(part)
     THEN [assembly |-> [EmptyAssembly EXCEPT !.ts = begun.ts],
           done |-> <<FrameOf(now)>>]
     ELSE [assembly |-> now, done |-> <<>>]

(***************************************************************************)
(* The threads.                                                            *)
(***************************************************************************)
Set(t, job) == jobs' = [jobs EXCEPT ![t] = job]
Finish(t) == Set(t, IdleJob)

\* What is left of a job after its first decoded frame.
Rest(job) ==
  IF Len(job.out) > 1
  THEN [job EXCEPT !.stage = "output", !.out = Tail(@), !.pairs = {}]
  ELSE IF job.todo # <<>>
  THEN [job EXCEPT !.stage = "decode", !.out = <<>>, !.pairs = {}]
  ELSE IdleJob

Allow(what) == allowed[what] > 0 /\ allowed' = [allowed EXCEPT ![what] = @ - 1]

TimestampOf(n) == (FirstTimestamp + n) % Timestamps

\* onMessage: the track is still the source's, and its packets come one after
\* the other; the thread of a track that was replaced may still be at work.
Receive(t) ==
  LET side == RoleOfThread(t)
      budget == IF side = "primary" THEN "video" ELSE "alpha"
  IN /\ jobs[t].stage = "idle" /\ pipe.track[side]
     /\ \A u \in Threads \ {t} :
          RoleOfThread(u) = side /\ jobs[u].stage # "idle"
            => jobs[u].epoch # pipe.epoch
     /\ allowed[budget] > 0
     /\ \E n \in 1..allowed.frames, part \in allowed.parts :
          /\ allowed.reorder \/ n >= allowed.sent[side]
          /\ Set(t, [IdleJob EXCEPT !.stage = "assemble", !.epoch = pipe.epoch,
                                    !.ts = TimestampOf(n), !.part = part])
          /\ allowed' = [allowed EXCEPT ![budget] = @ - 1, !.sent[side] = n]
     /\ UNCHANGED <<pipe, picture, handler>>

Assemble(t) ==
  LET job == jobs[t]
      side == RoleOfThread(t)
      result == IF side = "primary" /\ pipe.codec = "h264"
                THEN AssembledH264(pipe.assembly[side], job.ts, job.part, job.epoch)
                ELSE AssembledVP9(pipe.assembly[side], job.ts, job.part, job.epoch)
  IN /\ job.stage = "assemble"
     /\ IF IsCurrent(job.epoch)
        THEN /\ pipe' = [pipe EXCEPT !.assembly[side] = result.assembly]
             /\ Set(t, IF result.done = <<>> THEN IdleJob
                       ELSE [job EXCEPT !.stage = "decode", !.todo = result.done])
        ELSE UNCHANGED pipe /\ Finish(t)
     /\ UNCHANGED <<picture, handler, allowed>>

\* processVideoData and processAlphaVideoData, in the decoder's lock.  The
\* decoder gives out its frames at once, or all but the newest.
Stamped(frame, epoch) == [ts |-> frame.ts, epoch |-> epoch, from |-> frame.from]
Decoded(job, held, count) ==
  IF count > 0
  THEN [job EXCEPT !.stage = "output", !.todo = Tail(@),
                   !.out = [i \in 1..count |-> Stamped(held[i], job.epoch)]]
  ELSE Rest([job EXCEPT !.todo = Tail(@)])
Fed(t) == Append(pipe.decoder[RoleOfThread(t)], Head(jobs[t].todo))

Decode(t) ==
  /\ jobs[t].stage = "decode" /\ IsCurrent(jobs[t].epoch)
  /\ \E count \in {Len(Fed(t)) - 1, Len(Fed(t))} :
       /\ pipe' = [pipe EXCEPT !.decoder[RoleOfThread(t)] =
                      SubSeq(Fed(t), count + 1, Len(Fed(t)))]
       /\ Set(t, Decoded(jobs[t], Fed(t), count))
  /\ UNCHANGED <<picture, handler, allowed>>

\* The packet is refused; or the hardware that decodes the primary fails after
\* some frames, and the decoder is reset alone.
Refused(t) == UNCHANGED pipe /\ Set(t, Decoded(jobs[t], <<>>, 0))
ResetAlone(t, count) ==
  /\ pipe' = DecoderReset(pipe, RoleOfThread(t))
  /\ Set(t, Decoded(jobs[t], Fed(t), count))

\* initializeVideoDecoder and initializeAlphaDecoder open a decoder first.
OpenFails(t) == Len(Fed(t)) = 1 /\ ResetAlone(t, 0)

DecodeFails(t) ==
  /\ jobs[t].stage = "decode" /\ IsCurrent(jobs[t].epoch) /\ Allow("failures")
  /\ \/ Refused(t)
     \/ OpenFails(t)
     \/ /\ t \in VideoThreads
        /\ \E count \in 0..(Len(Fed(t)) - 1) : ResetAlone(t, count)
  /\ UNCHANGED <<picture, handler>>

DecodeTooLate(t) ==
  /\ jobs[t].stage = "decode" /\ ~IsCurrent(jobs[t].epoch)
  /\ Finish(t)
  /\ UNCHANGED <<pipe, picture, handler, allowed>>

\* outputDecodedVideoFrame up to its lock: muted and alphaTrackActive_ are
\* read without one.
ChooseOutput(t) ==
  LET job == jobs[t]
      next == IF pipe.alphaActive THEN "pair" ELSE "bare"
  IN /\ t \in VideoThreads /\ job.stage = "output"
     /\ IF Outputs(job.epoch) /\ ~pipe.suppressed
        THEN Set(t, [job EXCEPT !.stage = next])
        ELSE Set(t, Rest(job))
     /\ UNCHANGED <<pipe, picture, handler, allowed>>

\* outputDecodedVideoFrameLocked: a frame is shown, or cannot be converted.
MayShow(epoch) == Outputs(epoch) /\ ~pipe.suppressed
Show(ts, from, alphaTs) ==
  \/ UNCHANGED <<pipe, picture>>
  \/ /\ Mappable(pipe.mapped, ts)
     /\ pipe' = [pipe EXCEPT !.mapped = ts]
     /\ picture' = [shown |-> TRUE, ts |-> ts, from |-> from, alphaTs |-> alphaTs]

OutputBare(t) ==
  LET job == jobs[t]
      frame == Head(job.out)
  IN /\ job.stage = "bare"
     /\ IF MayShow(job.epoch) /\ ~pipe.alphaActive
        THEN Show(frame.ts, frame.from, None)
        ELSE UNCHANGED <<pipe, picture>>
     /\ Set(t, Rest(job))
     /\ UNCHANGED <<handler, allowed>>

\* The pairing of a primary frame, and of an alpha frame
\* (handleDecodedAlphaFrame), under alphaPairingMutex_.
Pair(t) ==
  LET job == jobs[t]
      side == RoleOfThread(t)
      result == Pushed(pipe.sync, side, Head(job.out))
      admitted == IF side = "alpha" THEN IsCurrent(job.epoch)
                  ELSE Outputs(job.epoch) /\ pipe.alphaActive
  IN /\ job.stage = (IF side = "alpha" THEN "output" ELSE "pair")
     /\ IF admitted
        THEN /\ pipe' = [pipe EXCEPT !.sync = result.sync]
             /\ Set(t, IF result.pairs = {} THEN Rest(job)
                       ELSE [job EXCEPT !.stage = "paired", !.pairs = result.pairs])
        ELSE UNCHANGED pipe /\ Set(t, Rest(job))
     /\ UNCHANGED <<picture, handler, allowed>>

\* outputPairedVideoFrame
OutputPaired(t) ==
  LET job == jobs[t]
  IN /\ job.stage = "paired"
     /\ \E pair \in job.pairs :
          IF /\ pair.generation = pipe.sync.generation
             /\ pipe.alphaActive /\ MayShow(pair.primary.epoch)
          THEN Show(pair.primary.ts, pair.primary.from \cup pair.alpha.from,
                    pair.alpha.ts)
          ELSE UNCHANGED <<pipe, picture>>
     /\ Set(t, Rest(job))
     /\ UNCHANGED <<handler, allowed>>

(***************************************************************************)
(* The handlers, one at a time, and the video tick.                        *)
(***************************************************************************)
HandlerIdle == [stage |-> "idle", enable |-> FALSE]

\* The locked part of onVideoTrack, onAlphaVideoTrack, handleVideoTrackClosed,
\* handlePeerDisconnectedAccepted and resetNativeState; only the last one
\* forgets that the picture was suppressed.
Transition(primary, alpha, enable, codec, suppressed) ==
  /\ handler = HandlerIdle /\ Allow("changes")
  /\ pipe' = [PipelineReset(pipe) EXCEPT
                !.track = [side \in Sides |-> IF side = "primary" THEN primary
                                              ELSE alpha],
                !.alphaActive = alpha, !.codec = codec,
                !.suppressed = suppressed]
  /\ handler' = [stage |-> "transition", enable |-> enable]
  /\ UNCHANGED <<jobs, picture>>

AttachVideo ==
  \E codec \in allowed.codecs :
    Transition(TRUE, pipe.track["alpha"], TRUE, codec, pipe.suppressed)
AttachAlpha ==
  Transition(pipe.track["primary"], TRUE, TRUE, pipe.codec, pipe.suppressed)
CloseVideo ==
  /\ pipe.track["primary"]
  /\ Transition(FALSE, pipe.track["alpha"], FALSE, pipe.codec, pipe.suppressed)
CloseAlpha ==
  /\ pipe.track["alpha"]
  /\ Transition(pipe.track["primary"], FALSE, pipe.track["primary"],
                pipe.codec, pipe.suppressed)
RetirePeer ==
  /\ pipe.track["primary"] \/ pipe.track["alpha"]
  /\ Transition(FALSE, FALSE, FALSE, pipe.codec, pipe.suppressed)
ResetState == Transition(FALSE, FALSE, FALSE, pipe.codec, FALSE)

\* completeMediaPipelineTransition
CompleteTransition ==
  /\ handler.stage = "transition"
  /\ picture' = Blank
  /\ pipe' = [pipe EXCEPT !.outputEpoch = IF handler.enable THEN pipe.epoch ELSE 0]
  /\ handler' = HandlerIdle
  /\ UNCHANGED <<jobs, allowed>>

\* handlePeerControlState: the flag under videoCommitStateMutex_, then the
\* picture under videoOutputMutex_.
Suppress(value) ==
  /\ handler = HandlerIdle /\ Allow("mutes")
  /\ pipe' = [pipe EXCEPT !.suppressed = value]
  /\ handler' = IF value THEN [HandlerIdle EXCEPT !.stage = "clearing"]
                ELSE HandlerIdle
  /\ UNCHANGED <<jobs, picture>>

ClearPicture ==
  /\ handler.stage = "clearing"
  /\ picture' = Blank /\ handler' = HandlerIdle
  /\ UNCHANGED <<pipe, jobs, allowed>>

\* videoTick: nothing came for kNativeVideoStallBlankMs.
ClearStalled ==
  /\ picture.shown /\ picture' = Blank
  /\ UNCHANGED <<pipe, jobs, handler, allowed>>

MediaInit ==
  /\ pipe = [epoch |-> 1, outputEpoch |-> 0, codec |-> "vp9", suppressed |-> FALSE,
             track |-> [side \in Sides |-> FALSE], alphaActive |-> FALSE,
             assembly |-> [side \in Sides |-> EmptyAssembly],
             decoder |-> [side \in Sides |-> <<>>],
             sync |-> FreshSync(0), mapped |-> None]
  /\ jobs = [t \in Threads |-> IdleJob]
  /\ picture = Blank /\ handler = HandlerIdle
  /\ \E b \in MediaBudgets :
       allowed = [x \in DOMAIN b \cup {"sent"} |->
                    IF x = "sent" THEN [side \in Sides |-> 1] ELSE b[x]]

MediaNext ==
  \/ \E t \in Threads :
       \/ Receive(t) \/ Assemble(t) \/ Decode(t) \/ DecodeFails(t)
       \/ DecodeTooLate(t) \/ ChooseOutput(t) \/ OutputBare(t) \/ Pair(t)
       \/ OutputPaired(t)
  \/ AttachVideo \/ AttachAlpha \/ CloseVideo \/ CloseAlpha \/ RetirePeer
  \/ ResetState
  \/ CompleteTransition \/ \E value \in BOOLEAN : Suppress(value)
  \/ ClearPicture \/ ClearStalled

MediaSpec == MediaInit /\ [][MediaNext]_mediaVars

(***************************************************************************)
(* Properties.                                                             *)
(***************************************************************************)
\* Every variable has its type.
MediaTypeOK ==
  /\ pipe.epoch \in Nat /\ pipe.outputEpoch \in {0, pipe.epoch}
  /\ pipe.mapped \in Timestamp \cup {None}
  /\ pipe.alphaActive = pipe.track["alpha"]
  /\ \A side \in Sides : Len(pipe.sync.waiting[side]) <= MaxFrames
  /\ \A t \in Threads : jobs[t].part \in PacketParts
  /\ picture.ts \in Timestamp \cup {None}
  /\ handler.stage \in {"idle", "transition", "clearing"}

\* Once a transition is complete, the picture is made of packets received
\* since it began: nothing of the track that was replaced, closed or retired
\* is shown after it, however far a thread had come with it.  A picture that
\* the publisher suppressed is cleared, and stays so.
ShownIsCurrent ==
  /\ (picture.shown /\ handler.stage # "transition")
       => picture.from = {pipe.epoch}
  /\ (pipe.suppressed /\ handler = HandlerIdle) => ~picture.shown

\* While an alpha track is attached the picture is composed with the alpha
\* frame of its own timestamp, and with none otherwise.
AlphaMatches ==
  (picture.shown /\ handler.stage # "transition") =>
     picture.alphaTs = IF pipe.alphaActive THEN picture.ts ELSE None

\* The pictures follow the publisher's time, across decoder delays, packets out
\* of order and wrapping timestamps, until the timestamps start anew: with a
\* transition, or with a decoder that failed and was reset within an epoch.
PicturesAdvance ==
  [][(picture.shown /\ picture'.shown /\ picture' # picture
       /\ pipe.mapped # None) => Before(picture.ts, picture'.ts)]_mediaVars
===============================================================================
