------------------------------- MODULE AlphaSync -------------------------------
(***************************************************************************)
(* AlphaFrameSynchronizer and RtpOutputTimestampMapper of                  *)
(* vdoninja-alpha-sync.cpp: how the source pairs the frames of its primary *)
(* track with those of its alpha track, by exact RTP timestamp, and which  *)
(* frames it still lets out.  Both compare timestamps in a circle: the     *)
(* code's has 2^32 values, this one has Timestamps.                        *)
(***************************************************************************)
EXTENDS Integers, Sequences, SequencesExt, Sifting

CONSTANTS
  Timestamps,         \* size of the circle, 2^32 in the code
  MaxFrames,          \* frames waiting on each side, 8 in the code
  MaxTimestampDelta   \* age of a waiting frame, 9000 in the code

ASSUME AlphaSyncAssumption ==
  /\ Timestamps \in Nat /\ Timestamps % 2 = 0
  /\ MaxFrames \in Nat \ {0}
  /\ MaxTimestampDelta \in 1..(Timestamps \div 2)

None == -1
Timestamp == 0..(Timestamps - 1)

\* isRtpTimestampBefore: the signed difference of unsigned values is negative.
Before(l, r) == (l - r) % Timestamps >= Timestamps \div 2

Sides == {"primary", "alpha"}
OtherSide(side) == IF side = "primary" THEN "alpha" ELSE "primary"

\* Any record with the fields ts and epoch may be a frame.
FreshSync(generation) ==
  [waiting |-> [side \in Sides |-> <<>>], newest |-> None, last |-> None,
   generation |-> generation]

SyncReset(s) == FreshSync(s.generation + 1)

TooOld(ts, newest) ==
  Before(ts, newest) /\ (newest - ts) % Timestamps > MaxTimestampDelta

Emitted(ts, last) == last # None /\ (ts = last \/ Before(ts, last))

\* observeTimestamp and pruneExpired
Rejected(s, ts) ==
  Emitted(ts, s.last) \/ (s.newest # None /\ TooOld(ts, s.newest))

Observed(s, ts) ==
  LET newest == IF s.newest = None \/ Before(s.newest, ts) THEN ts
                ELSE s.newest
  IN [s EXCEPT
        !.newest = newest,
        !.waiting = [side \in Sides |->
           Sifted(s.waiting[side],
                  {f \in Range(s.waiting[side]) : ~TooOld(f.ts, newest)})]]

\* Mutant: any frame near enough is a partner.
MatchesNear(s, side, frame) ==
  {i \in 1..Len(s.waiting[OtherSide(side)]) :
     ~TooOld(s.waiting[OtherSide(side)][i].ts, frame.ts)}

Matches(s, side, frame) ==
  {i \in 1..Len(s.waiting[OtherSide(side)]) :
     LET f == s.waiting[OtherSide(side)][i]
     IN f.ts = frame.ts /\ f.epoch = frame.epoch}

\* pruneEmitted, after the pair of a timestamp left.
PairedAt(s, ts) ==
  [s EXCEPT !.last = ts,
            !.waiting = [side \in Sides |->
               Sifted(s.waiting[side],
                      {f \in Range(s.waiting[side]) : ~Emitted(f.ts, ts)})]]

\* Mutant: a queue over its capacity keeps its oldest frame.
QueuedUnbounded(s, side, frame) ==
  [s EXCEPT !.waiting[side] =
     IF \E i \in 1..Len(@) : @[i].ts = frame.ts THEN @ ELSE Append(@, frame)]

\* A frame that finds no partner replaces one of its timestamp, or is the
\* newest of its side, which loses its oldest over the capacity.
Queued(s, side, frame) ==
  LET queue == s.waiting[side]
      again == {i \in 1..Len(queue) : queue[i].ts = frame.ts}
      added == Append(queue, frame)
  IN [s EXCEPT !.waiting[side] =
        IF again # {}
        THEN [i \in 1..Len(queue) |-> IF i \in again THEN frame ELSE queue[i]]
        ELSE IF Len(added) > MaxFrames THEN Tail(added) ELSE added]

\* pushPrimary and pushAlpha: the synchronizer after a frame, and the pair if
\* the frame completed one.
Pushed(s, side, frame) ==
  IF Rejected(s, frame.ts) THEN [sync |-> s, pairs |-> {}]
  ELSE LET seen == Observed(s, frame.ts)
           found == Matches(seen, side, frame)
       IN IF found = {}
          THEN [sync |-> Queued(seen, side, frame), pairs |-> {}]
          ELSE LET partner == seen.waiting[OtherSide(side)]
                                [CHOOSE i \in found : \A j \in found : i <= j]
               IN [sync |-> PairedAt(seen, frame.ts),
                   pairs |-> {[primary |-> IF side = "primary" THEN frame
                                           ELSE partner,
                               alpha   |-> IF side = "alpha" THEN frame
                                           ELSE partner,
                               generation |-> s.generation]}]

\* Mutant: the last timestamp is compared only for being the same.
MappableUnlessSame(last, ts) == last = None \/ ts # last

\* RtpOutputTimestampMapper: a frame goes out if it is later than the last.
Mappable(last, ts) == last = None \/ Before(last, ts)
===============================================================================
