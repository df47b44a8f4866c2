------------------------------ MODULE SourceAudio ------------------------------
(***************************************************************************)
(* The sound of a native source.  Threads of the RTC library bring the     *)
(* packets of the audio track, decode them one at a time under             *)
(* audioDecodeMutex_, map their RTP timestamps to OBS's clock and hand     *)
(* them to OBS; the track handlers, one at a time, replace or retire the   *)
(* track and apply the publisher's mute state.  Both tell OBS whether the  *)
(* source's audio is active: by an exchange of sourceAudioActive_, and     *)
(* then, if it changed, by a task for OBS's UI thread.                     *)
(*                                                                         *)
(* Left out: the Opus decoder and the resampler, which give one frame for  *)
(* a packet or none.                                                       *)
(***************************************************************************)
EXTENDS Integers, Sequences

CONSTANTS
  AudioThreads,    \* the threads that deliver packets
  Wrap,            \* the width of an RTP timestamp, as the number of them
  MaxPackets, MaxAudioEvents,  \* bounds on packets and on handlers
  Muting, Retiring             \* whether the publisher mutes, and goes

ASSUME AudioAssumption ==
  /\ Wrap \in Nat \ {0} /\ MaxPackets \in Nat /\ MaxAudioEvents \in Nat
  /\ Muting \in BOOLEAN /\ Retiring \in BOOLEAN

VARIABLES
  sound,   \* the source: track, mute state, timing, sourceAudioActive_
  work,    \* per thread, the packet it works on
  duty,    \* the handler: what it has still to do
  ui,      \* OBS: its task queue, and whether it takes the audio for active
  played,  \* the last frame OBS got
  spent    \* packets and handlers so far

audioVars == <<sound, work, duty, ui, played, spent>>

\* A tick of the RTP clock is several nanoseconds.
TickNs == 4

\* Timing is what mapAudioTimestamp keeps, NoTiming after resetAudioDecoder.
\* For the properties, the resets are counted.
NoTiming == [set |-> FALSE, rtp |-> 0, base |-> 0, last |-> 0]
IdleWork == [stage |-> "idle", rtp |-> 0, ns |-> 0]
NoDuty == <<>>

\* Mutant: a timestamp that falls behind is passed on.
MappedAsIs(timing, rtp, now) ==
  IF ~timing.set THEN [set |-> TRUE, rtp |-> rtp, base |-> now, last |-> now]
  ELSE [timing EXCEPT !.last =
          timing.base + ((rtp - timing.rtp) % Wrap) * TickNs]

\* mapAudioTimestamp: the difference of the timestamps has their width, and
\* what does not go forward becomes one nanosecond more than the last.
Mapped(timing, rtp, now) ==
  IF ~timing.set THEN [set |-> TRUE, rtp |-> rtp, base |-> now, last |-> now]
  ELSE LET mapped == timing.base + ((rtp - timing.rtp) % Wrap) * TickNs
       IN [timing EXCEPT !.last = IF mapped <= timing.last
                                  THEN timing.last + 1 ELSE mapped]

DecoderFree == \A t \in AudioThreads : work[t].stage \notin
                 {"decoding", "output", "telling", "playing"}

SetWork(t, w) == work' = [work EXCEPT ![t] = w]

(***************************************************************************)
(* A packet.                                                               *)
(***************************************************************************)
\* The callback of the track: it is the source's track, and the source runs.
\* A track starts at any timestamp; its packets may come out of order.
ReceivePacket(t) ==
  /\ work[t] = IdleWork /\ sound.track # 0 /\ spent.packets < MaxPackets
  /\ \E rtp \in 0..(Wrap - 1) :
       SetWork(t, [IdleWork EXCEPT !.stage = "received", !.rtp = rtp])
  /\ spent' = [spent EXCEPT !.packets = @ + 1]
  /\ UNCHANGED <<sound, duty, ui, played>>

\* processAudioData, under the lock from here on.
DecodePacket(t) ==
  LET w == work[t]
      timing == Mapped(sound.timing, w.rtp, spent.packets * TickNs)
  IN /\ w.stage = "received" /\ DecoderFree
     /\ sound' = [sound EXCEPT !.timing = timing]
     /\ SetWork(t, [w EXCEPT !.stage = "decoding", !.ns = timing.last])
     /\ UNCHANGED <<duty, ui, played, spent>>

\* outputDecodedAudioFrame: the mute state is read once; a frame that cannot
\* be converted is dropped.
CheckMuted(t) ==
  /\ work[t].stage = "decoding"
  /\ \/ ~sound.muted /\ SetWork(t, [work[t] EXCEPT !.stage = "output"])
     \/ SetWork(t, IdleWork)
  /\ UNCHANGED <<sound, duty, ui, played, spent>>

\* setObsSourceAudioActive: the exchange, then the task.
Exchanged(value) == sound' = [sound EXCEPT !.active = value]
TaskQueued(value) == ui' = [ui EXCEPT !.tasks = Append(@, value)]

MarkActive(t) ==
  /\ work[t].stage = "output"
  /\ Exchanged(TRUE)
  /\ SetWork(t, [work[t] EXCEPT
                   !.stage = IF sound.active THEN "playing" ELSE "telling"])
  /\ UNCHANGED <<duty, ui, played, spent>>

TellActive(t) ==
  /\ work[t].stage = "telling"
  /\ TaskQueued(TRUE)
  /\ SetWork(t, [work[t] EXCEPT !.stage = "playing"])
  /\ UNCHANGED <<sound, duty, played, spent>>

Play(t) ==
  /\ work[t].stage = "playing"
  /\ played' = [resets |-> sound.resets, ns |-> work[t].ns]
  /\ SetWork(t, IdleWork)
  /\ UNCHANGED <<sound, duty, ui, spent>>

(***************************************************************************)
(* The handlers, and OBS.                                                  *)
(***************************************************************************)
Serve == duty = NoDuty /\ spent.handlers < MaxAudioEvents
            /\ spent' = [spent EXCEPT !.handlers = @ + 1]

\* onAudioTrack: the first track keeps the decoder, a replacement resets it;
\* publishActivePeerControlStateLocked follows.
AttachAudio ==
  /\ Serve /\ DecoderFree
  /\ sound' = [sound EXCEPT !.track = spent.handlers + 1,
                 !.timing = IF sound.track # 0 THEN NoTiming ELSE @,
                 !.resets = IF sound.track # 0 THEN @ + 1 ELSE @]
  /\ duty' = <<~sound.muted>>
  /\ UNCHANGED <<work, ui, played>>

\* handleAudioTrackRetired and handlePeerDisconnectedAccepted, before and
\* after the locks are let go: the peer may still own a video track, or be
\* gone with its mute state.
RetireAudio ==
  /\ Retiring /\ Serve /\ DecoderFree /\ sound.track # 0
  /\ \E muted \in {sound.muted, FALSE} :
       sound' = [sound EXCEPT !.track = 0, !.timing = NoTiming,
                              !.resets = @ + 1, !.muted = muted]
  /\ duty' = <<FALSE>>
  /\ UNCHANGED <<work, ui, played>>

\* handlePeerControlState
MuteAudio(value) ==
  /\ Muting /\ Serve
  /\ sound' = [sound EXCEPT !.muted = value]
  /\ duty' = <<sound.track # 0 /\ ~value>>
  /\ UNCHANGED <<work, ui, played>>

HandlerMarks ==
  /\ duty # NoDuty /\ Len(duty) = 1
  /\ Exchanged(duty[1])
  /\ duty' = IF sound.active = duty[1] THEN NoDuty ELSE <<duty[1], "tell">>
  /\ UNCHANGED <<work, ui, played, spent>>

HandlerTells ==
  /\ Len(duty) = 2 /\ TaskQueued(duty[1]) /\ duty' = NoDuty
  /\ UNCHANGED <<sound, work, played, spent>>

RunTask ==
  /\ ui.tasks # <<>>
  /\ ui' = [active |-> Head(ui.tasks), tasks |-> Tail(ui.tasks)]
  /\ UNCHANGED <<sound, work, duty, played, spent>>

AudioInit ==
  /\ sound = [track |-> 0, muted |-> FALSE, active |-> FALSE, timing |-> NoTiming,
              resets |-> 0]
  /\ work = [t \in AudioThreads |-> IdleWork]
  /\ duty = NoDuty /\ ui = [tasks |-> <<>>, active |-> FALSE]
  /\ played = [resets |-> 0, ns |-> 0] /\ spent = [packets |-> 0, handlers |-> 0]

AudioNext ==
  \/ \E t \in AudioThreads :
       ReceivePacket(t) \/ DecodePacket(t) \/ CheckMuted(t) \/ MarkActive(t)
         \/ TellActive(t) \/ Play(t)
  \/ AttachAudio \/ RetireAudio \/ \E value \in BOOLEAN : MuteAudio(value)
  \/ HandlerMarks \/ HandlerTells \/ RunTask

AudioSpec == AudioInit /\ [][AudioNext]_audioVars

(***************************************************************************)
(* Properties.                                                             *)
(***************************************************************************)
\* Every variable has its type.
AudioTypeOK ==
  /\ sound.track \in Nat /\ sound.muted \in BOOLEAN /\ sound.active \in BOOLEAN
  /\ \A t \in AudioThreads : work[t].rtp \in 0..(Wrap - 1)
  /\ ui.active \in BOOLEAN /\ ui.tasks \in Seq(BOOLEAN)
  /\ duty # NoDuty => duty[1] \in BOOLEAN

\* OBS gets sound in the order of its own clock, whatever the order of the
\* packets, and whoever brings them, as long as the decoder is not reset.
SoundAdvances ==
  [][(\E t \in AudioThreads : work[t].stage = "playing" /\ work'[t] = IdleWork)
       => (played'.resets = played.resets => played'.ns > played.ns)]_audioVars

AudioSettled ==
  /\ duty = NoDuty /\ ui.tasks = <<>>
  /\ \A t \in AudioThreads : work[t] = IdleWork

\* A source whose publisher muted its audio, or that has no audio track, is
\* not taken for active by OBS once everything came to rest.
SilentIsInactive ==
  (AudioSettled /\ (sound.muted \/ sound.track = 0)) => ~ui.active
===============================================================================
