------------------------------- MODULE PacerQueues -------------------------------
(***************************************************************************)
(* RtpPacketPacer, one for each viewer, and the RtpSharedPacerBudget that  *)
(* they share: the queues of frames, of repairs and of duplicates, the     *)
(* worker that picks a packet, waits for the shared budget without its     *)
(* lock and sends, and the recovery paths that empty the queues meanwhile. *)
(* What a pacer's frames are to the viewer's decoder is in VideoSend.      *)
(*                                                                         *)
(* All packets have one size, so bytes are counted in packets.  Time is    *)
(* left out: a pacer's own tokens, an age or a delay may be there or not   *)
(* whenever they are asked for, and the shared budget is refilled at any   *)
(* moment; the bitrates, which only say how fast, are left out with it.    *)
(***************************************************************************)
EXTENDS Naturals, Sequences, FiniteSets, SequencesExt, FiniteSetsExt

CONSTANTS
  Pacers,
  PacerLimit,      \* maxQueueBytes_
  RepairLimit,     \* the repair queue's limit
  DuplicateLimit,  \* duplicateQueueLimitBytes_, 0 when duplication is off
  MaxConsecutive,  \* kMaxConsecutiveRepairPackets
  Burst,           \* burstBudgetBytes_ of the shared budget
  FrameSizes,      \* the numbers of packets of a frame
  PacerBudgets     \* bounds: the pacers that there are, and how many frames,
                   \* repairs, discards, failures and stops

ASSUME PacerAssumption ==
  /\ IsFiniteSet(Pacers)
  /\ PacerLimit \in Nat /\ RepairLimit \in Nat /\ DuplicateLimit \in Nat
  /\ MaxConsecutive \in Nat \ {0} /\ Burst \in Nat \ {0}
  /\ FrameSizes \subseteq Nat \ {0}
  /\ PacerBudgets \subseteq
       [pacers: SUBSET Pacers, frames: Nat, repairs: Nat, discards: Nat,
        failures: Nat, stops: Nat]

VARIABLES
  alive,    \* per pacer: "none", "runs", "stops", or "over" for its worker
  media_,   \* queue_: of each frame the packets it has left, and more
  repairs,  \* repairQueue_, by its length
  copies,   \* duplicateQueue_, by its length
  bytes,    \* queuedBytes_, queuedRepairBytes_ and queuedDuplicateBytes_
  mutated,  \* queueMutationGeneration_ is not the selected one
  hand,     \* the worker's step, the kind it selected, consecutiveRepairPackets
  waiters,  \* waiters_ of the shared budget, by the pacer that waits
  members,  \* participantRates_
  tokens,   \* availableTokens_
  ahead,    \* ghost: the repairs and copies sent since a frame waits for its turn
  ration    \* what is left of the bounds

shared == <<waiters, members, tokens>>
queues == <<media_, repairs, copies, bytes>>
pacerVars == <<alive, queues, mutated, hand, shared, ahead, ration>>

NewFrame(n, key) == [size |-> n, left |-> n, key |-> key]
Begun(f) == f.left < f.size
NoBytes == [all |-> 0, repairs |-> 0, copies |-> 0]
Resting_ == [step |-> "selects", kind |-> "none", repairs |-> 0]
NothingAhead == [repairs |-> 0, copies |-> 0]

PacersInit ==
  /\ alive = [p \in Pacers |-> "none"]
  /\ media_ = [p \in Pacers |-> <<>>]
  /\ repairs = [p \in Pacers |-> 0] /\ copies = [p \in Pacers |-> 0]
  /\ bytes = [p \in Pacers |-> NoBytes]
  /\ mutated = [p \in Pacers |-> FALSE]
  /\ hand = [p \in Pacers |-> Resting_]
  /\ waiters = <<>> /\ members = {} /\ tokens = Burst
  /\ ahead = [p \in Pacers |-> NothingAhead]
  /\ ration \in PacerBudgets

Uses(what) == ration[what] > 0 /\ ration' = [ration EXCEPT ![what] = @ - 1]

Reserve(p, which, n) == [bytes EXCEPT ![p].all = @ + n, ![p][which] = @ + n]
Forget(p, which, n) == [bytes EXCEPT ![p].all = @ - n, ![p][which] = @ - n]
Room(p) == PacerLimit - bytes[p].all
-----------------------------------------------------------------------------
(* The callers: the peer manager, RTCP, and the end of the peer.            *)

CreatePacer(p) ==
  /\ alive[p] = "none" /\ p \in ration.pacers
  /\ alive' = [alive EXCEPT ![p] = "runs"]
  /\ members' = members \cup {p}
  /\ UNCHANGED <<queues, mutated, hand, waiters, tokens, ahead, ration>>

\* What the queues have no room for is refused and changes nothing.
EnqueueFrame(p) ==
  /\ alive[p] = "runs" /\ Uses("frames")
  /\ \E n \in FrameSizes, key \in BOOLEAN :
       /\ n <= Room(p)
       /\ media_' = [media_ EXCEPT ![p] = Append(@, NewFrame(n, key))]
       /\ bytes' = [bytes EXCEPT ![p].all = @ + n]
  /\ UNCHANGED <<alive, repairs, copies, mutated, hand, shared, ahead>>

EnqueueRepair(p) ==
  /\ alive[p] = "runs" /\ Uses("repairs")
  /\ bytes[p].repairs < RepairLimit /\ Room(p) > 0
  /\ repairs' = [repairs EXCEPT ![p] = @ + 1]
  /\ bytes' = Reserve(p, "repairs", 1)
  /\ UNCHANGED <<alive, media_, copies, mutated, hand, shared, ahead>>

\* How many packets frames have left: of each frame, those from its first to left.
LeftOf(frames) == UNION {{i} \X (1..frames[i].left) : i \in DOMAIN frames}
Packets(frames) == Cardinality(LeftOf(frames))

\* The frame whose packets are being sent stays.
Kept(q) == IF q # <<>> /\ Begun(Head(q)) THEN <<Head(q)>> ELSE <<>>
Dropped(q) == IF q # <<>> /\ Begun(Head(q)) THEN Tail(q) ELSE q

NoneWaits(p) == ahead' = IF media_'[p] = <<>> THEN [ahead EXCEPT ![p] = NothingAhead] ELSE ahead

\* discardQueuedDeltaFramesUntilKeyframe
DiscardDeltas(p) ==
  /\ alive[p] # "none" /\ Uses("discards")
  /\ LET rest == Dropped(media_[p])
         key == SelectInSeq(rest, LAMBDA f : f.key)
         deltas == IF key = 0 THEN rest ELSE SubSeq(rest, 1, key - 1)
         live == IF key = 0 THEN <<>> ELSE SubSeq(rest, key, Len(rest))
     IN /\ media_' = [media_ EXCEPT ![p] = Kept(@) \o live]
        /\ bytes' = [bytes EXCEPT ![p].all = @ - Packets(deltas)]
        /\ mutated' = [mutated EXCEPT ![p] = @ \/ deltas # <<>>]
  /\ NoneWaits(p)
  /\ UNCHANGED <<alive, repairs, copies, hand, shared>>

\* discardQueuedMediaFramesAfterCurrent
DiscardMedia(p) ==
  /\ alive[p] # "none" /\ Uses("discards")
  /\ LET rest == Dropped(media_[p]) IN
       /\ media_' = [media_ EXCEPT ![p] = Kept(@)]
       /\ copies' = [copies EXCEPT ![p] = 0]
       /\ bytes' = [bytes EXCEPT ![p].all = @ - Packets(rest) - copies[p],
                                      ![p].copies = 0]
       /\ mutated' = [mutated EXCEPT ![p] = @ \/ rest # <<>> \/ copies[p] # 0]
  /\ NoneWaits(p)
  /\ UNCHANGED <<alive, repairs, hand, shared>>

StopPacing(p) ==
  /\ alive[p] = "runs" /\ Uses("stops")
  /\ alive' = [alive EXCEPT ![p] = "stops"]
  /\ UNCHANGED <<queues, mutated, hand, shared, ahead>>

\* stop() has joined the worker and leaves the shared budget.
StopLeaves(p) ==
  /\ alive[p] = "over" /\ p \in members
  /\ members' = members \ {p}
  /\ tokens' = IF members' = {} THEN Burst ELSE tokens
  /\ UNCHANGED <<alive, queues, mutated, hand, waiters, ahead, ration>>

Refill ==
  /\ members # {} /\ tokens < Burst
  /\ tokens' = tokens + 1
  /\ UNCHANGED <<alive, queues, mutated, hand, waiters, members, ahead, ration>>
-----------------------------------------------------------------------------
(* The worker.                                                              *)

Selects(p) == hand[p].step = "selects" /\ alive[p] = "runs"
Picked(p, kind) ==
  /\ hand' = [hand EXCEPT ![p].step = "asks", ![p].kind = kind]
  /\ mutated' = [mutated EXCEPT ![p] = FALSE]

CopiesExpire(p) ==
  /\ Selects(p) /\ copies[p] > 0
  /\ copies' = [copies EXCEPT ![p] = @ - 1]
  /\ bytes' = Forget(p, "copies", 1)
  /\ UNCHANGED <<alive, media_, repairs, mutated, hand, shared, ahead, ration>>

RepairExpires(p) ==
  /\ Selects(p) /\ repairs[p] > 0
  /\ repairs' = [repairs EXCEPT ![p] = @ - 1]
  /\ bytes' = Forget(p, "repairs", 1)
  /\ UNCHANGED <<alive, media_, copies, mutated, hand, shared, ahead, ration>>

PacerIdles(p) ==
  /\ Selects(p) /\ media_[p] = <<>> /\ repairs[p] = 0 /\ copies[p] = 0
  /\ hand[p].repairs # 0
  /\ hand' = [hand EXCEPT ![p].repairs = 0]
  /\ UNCHANGED <<alive, queues, mutated, shared, ahead, ration>>

\* Mutant: one repair more before the media's turn.
OneRepairMore(p) == media_[p] = <<>> \/ hand[p].repairs <= MaxConsecutive
RepairsTurn(p) == media_[p] = <<>> \/ hand[p].repairs < MaxConsecutive

\* A repair when it may be sent, else the media, else a copy.
SelectsPacket(p) ==
  /\ Selects(p)
  /\ \/ repairs[p] > 0 /\ RepairsTurn(p) /\ Picked(p, "repair")
     \/ media_[p] # <<>> /\ Picked(p, "media")
     \/ media_[p] = <<>> /\ copies[p] > 0 /\ Picked(p, "copy")
  /\ UNCHANGED <<alive, queues, shared, ahead, ration>>

\* RtpSharedPacerBudget::acquire, which the worker calls without its lock.
AsksBudget(p) ==
  /\ hand[p].step = "asks"
  /\ hand' = [hand EXCEPT ![p].step = "waits"]
  /\ waiters' = Append(waiters, p)
  /\ UNCHANGED <<alive, queues, mutated, members, tokens, ahead, ration>>

Granted(p) ==
  /\ hand[p].step = "waits" /\ alive[p] = "runs"
  /\ Head(waiters) = p /\ tokens > 0
  /\ tokens' = tokens - 1 /\ waiters' = Tail(waiters)
  /\ hand' = [hand EXCEPT ![p].step = "granted"]
  /\ UNCHANGED <<alive, queues, mutated, members, ahead, ration>>

Cancelled(p) ==
  /\ hand[p].step = "waits" /\ alive[p] = "stops"
  /\ waiters' = RemoveFirst(waiters, p)
  /\ hand' = [hand EXCEPT ![p].step = "selects"]
  /\ UNCHANGED <<alive, queues, mutated, members, tokens, ahead, ration>>

\* The worker has its lock again and looks whether its choice still stands.
\* A copy may also have expired.
ChoiceFell(p) ==
  /\ hand[p].step = "granted"
  /\ \/ alive[p] = "stops" \/ mutated[p]
     \/ hand[p].kind = "copy"
  /\ IF alive[p] = "runs" /\ ~mutated[p]
       THEN copies' = [copies EXCEPT ![p] = @ - 1] /\ bytes' = Forget(p, "copies", 1)
       ELSE UNCHANGED <<copies, bytes>>
  /\ hand' = [hand EXCEPT ![p].step = "selects"]
  /\ UNCHANGED <<alive, media_, repairs, mutated, shared, ahead, ration>>

MaySend(p, kind) ==
  /\ hand[p].step = "granted" /\ hand[p].kind = kind
  /\ alive[p] = "runs" /\ ~mutated[p]
HandGoes(p, n) == hand' = [hand EXCEPT ![p].step = "sends", ![p].repairs = n]
GoesAhead(p, kind) ==
  ahead' = IF media_[p] = <<>> THEN ahead ELSE [ahead EXCEPT ![p][kind] = @ + 1]

SendsRepair(p) ==
  /\ MaySend(p, "repair")
  /\ repairs' = [repairs EXCEPT ![p] = @ - 1]
  /\ bytes' = Forget(p, "repairs", 1)
  /\ HandGoes(p, hand[p].repairs + 1) /\ GoesAhead(p, "repairs")
  /\ UNCHANGED <<alive, media_, copies, mutated, shared, ration>>

SendsCopy(p) ==
  /\ MaySend(p, "copy")
  /\ copies' = [copies EXCEPT ![p] = @ - 1]
  /\ bytes' = Forget(p, "copies", 1)
  /\ HandGoes(p, 0) /\ GoesAhead(p, "copies")
  /\ UNCHANGED <<alive, media_, repairs, mutated, shared, ration>>

SendsMedia(p) ==
  /\ MaySend(p, "media")
  /\ media_' = [media_ EXCEPT ![p][1].left = @ - 1]
  /\ bytes' = [bytes EXCEPT ![p].all = @ - 1]
  /\ HandGoes(p, 0) /\ ahead' = [ahead EXCEPT ![p] = NothingAhead]
  /\ UNCHANGED <<alive, repairs, copies, mutated, shared, ration>>

Back(p) == hand' = [hand EXCEPT ![p].step = "selects", ![p].kind = "none"]

\* The transport has taken the packet, or refused it.
ExtraSent(p) ==
  /\ hand[p].step = "sends" /\ hand[p].kind \in {"repair", "copy"}
  /\ Back(p)
  /\ UNCHANGED <<alive, queues, mutated, shared, ahead, ration>>

\* A packet that was sent may be queued once more, if there is room; the last
\* one completes its frame.
MediaSent(p) ==
  /\ hand[p].step = "sends" /\ hand[p].kind = "media"
  /\ media_' = [media_ EXCEPT ![p] = IF Head(@).left = 0 THEN Tail(@) ELSE @]
  /\ \/ UNCHANGED <<copies, bytes>>
     \/ /\ bytes[p].copies < DuplicateLimit /\ Room(p) > 0
        /\ copies' = [copies EXCEPT ![p] = @ + 1]
        /\ bytes' = Reserve(p, "copies", 1)
  /\ Back(p)
  /\ UNCHANGED <<alive, repairs, mutated, shared, ahead, ration>>

MediaFailed(p) ==
  /\ hand[p].step = "sends" /\ hand[p].kind = "media" /\ Uses("failures")
  /\ media_' = [media_ EXCEPT ![p] = Tail(@)]
  /\ bytes' = [bytes EXCEPT ![p].all = @ - Head(media_[p]).left]
  /\ Back(p)
  /\ UNCHANGED <<alive, repairs, copies, mutated, shared, ahead>>

PacerEnds(p) ==
  /\ hand[p].step = "selects" /\ alive[p] = "stops"
  /\ alive' = [alive EXCEPT ![p] = "over"]
  /\ media_' = [media_ EXCEPT ![p] = <<>>]
  /\ repairs' = [repairs EXCEPT ![p] = 0] /\ copies' = [copies EXCEPT ![p] = 0]
  /\ bytes' = [bytes EXCEPT ![p] = NoBytes]
  /\ UNCHANGED <<mutated, hand, shared, ahead, ration>>

Caller(p) ==
  \/ CreatePacer(p) \/ EnqueueFrame(p) \/ EnqueueRepair(p) \/ DiscardDeltas(p)
  \/ DiscardMedia(p) \/ StopPacing(p) \/ StopLeaves(p)
Pacer(p) ==
  \/ CopiesExpire(p) \/ RepairExpires(p) \/ PacerIdles(p) \/ SelectsPacket(p)
  \/ AsksBudget(p) \/ Granted(p) \/ Cancelled(p) \/ ChoiceFell(p)
  \/ SendsRepair(p) \/ SendsCopy(p) \/ SendsMedia(p)
  \/ ExtraSent(p) \/ MediaSent(p) \/ MediaFailed(p) \/ PacerEnds(p)
-----------------------------------------------------------------------------
PacersNext == Refill \/ \E p \in Pacers : Caller(p) \/ Pacer(p)
PacersSpec == PacersInit /\ [][PacersNext]_pacerVars

\* What a pacer counts is what its queues hold, within its limit, whatever is
\* discarded, expires or fails while its worker has a packet in hand.
BytesCounted ==
  \A p \in Pacers :
    /\ bytes[p].repairs = repairs[p] /\ bytes[p].copies = copies[p]
    /\ bytes[p].all = Packets(media_[p]) + repairs[p] + copies[p]
    /\ bytes[p].all <= PacerLimit

\* Whoever is in line for the shared budget still waits there, once, and will
\* be served: nobody waits behind a pacer that has been stopped.
LineMoves ==
  /\ IsInjective(waiters)
  /\ \A i \in DOMAIN waiters :
       hand[waiters[i]].step = "waits" /\ waiters[i] \in members
  /\ \A p \in Pacers : alive[p] = "none" => p \notin members

\* A frame that is queued waits for at most MaxConsecutive repairs and for the
\* one copy that was chosen before it came, from packet to packet.
MediaKeepsItsTurn ==
  \A p \in Pacers : ahead[p].repairs <= MaxConsecutive /\ ahead[p].copies <= 1
===============================================================================
