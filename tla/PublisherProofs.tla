----------------------------- MODULE PublisherProofs -----------------------------
(***************************************************************************)
(* Theorems about the publishing output: the way of a video frame to a     *)
(* viewer, the threads of its session, the sources that it makes of a      *)
(* room's streams and its pacers, for any numbers of frames, threads,      *)
(* streams, scenes, pacers and calls.                                      *)
(*                                                                         *)
(* A delta goes to the viewer only behind the frame it refers to, because  *)
(* three places agree on which frame comes next (SoundOK): in the pacer's  *)
(* queue each delta waits behind its reference (ChainOK); while the gate   *)
(* lets deltas pass, the last frame of that queue, or the last one that    *)
(* the viewer decoded, is followed by the one in the media worker's hands  *)
(* or by the media queue (EndOK); and behind what the media worker holds   *)
(* the media queue has all that follows (HandOK).  A drop from the media   *)
(* queue or from the pacer breaks the second; then the gate is closed in   *)
(* the same critical section.  It breaks the third when the media worker   *)
(* holds a keyframe: that is what overtaken records.                       *)
(*                                                                         *)
(* The gate knows when it may open again: what it counts as pending is in  *)
(* the queue or about to be completed (CountsOK), the tickets in the queue *)
(* never decrease, and while the gate is open they are of its generation   *)
(* (TicketsOK), so that no completion is counted for another keyframe.     *)
(*                                                                         *)
(* The packets' numbers: counted from the first one without a wrap, those  *)
(* of the queued frames follow each other up to the next number, and what  *)
(* was sent has numbers before those that wait (Numbered); a discard gives *)
(* back the last ones.  A wrap would need more frames than there are: each *)
(* live frame is numbered once (Passed), a cached one at most once for each *)
(* event and the first connection (OwedTo).                                *)
(*                                                                         *)
(* The output's session: start() and stop() do their calls one by one, and *)
(* the list of the calls still to be done says what becomes of each thread. *)
(* SessionInv relates the two: a thread that the list will make has none   *)
(* before it or is joined first, a worker that runs is not ended by what is *)
(* left to do unless stop() asked for it, and once stop() began nothing is *)
(* made any more.                                                          *)
(*                                                                         *)
(* A room's sources: one removal worker is owned, and any other is over or *)
(* about to be joined (OneWorker); it sleeps only with nothing to wait for *)
(* (Awake).  A managed stream is always on its way (OnItsWay): a feed is   *)
(* about to queue its addition, or the addition is queued, or it was done, *)
(* and no removal is queued behind it.                                     *)
(*                                                                         *)
(* A pacer's turns: the repairs in a row are at least those that went ahead *)
(* of the frame that waits, and what is in hand was selected while it might *)
(* go ahead (TurnOf).                                                      *)
(*                                                                         *)
(* A pacer's bytes: the packets left are counted as a set (LeftOf), so the *)
(* counters follow from what a step takes out of it or puts in.  Every     *)
(* queued frame has packets left, except the one whose last packet is      *)
(* being sent (FramesOf), and what was chosen is there to be sent unless   *)
(* the queues were touched meanwhile (ChoiceStands).  The budget's line: a *)
(* pacer is in it, once, exactly while its worker waits, and stays a       *)
(* member of the budget as long as its worker lives (LineInv).             *)
(***************************************************************************)
EXTENDS MCPublisher, TLAPS, FiniteSetTheorems, FunctionTheorems, SequenceTheorems,
        WellFoundedInduction

(***************************************************************************)
(* The frames of a queue, and how many there are.                          *)
(***************************************************************************)
Keys == {"key", "cached"}
Kinds == {"key", "delta", "cached"}

\* The frames of these kinds under a ticket: their places, their number.
Places(q, kinds, t) == {i \in 1..Len(q) : q[i].kind \in kinds /\ q[i].ticket = t}
CountOf(q, kinds, t) == Cardinality(Places(q, kinds, t))

\* One queue is a part of another, whatever was taken of its packets since.
Like(f, h) == f.kind = h.kind /\ f.n = h.n /\ f.ticket = h.ticket
Segment(r, q, d) ==
  /\ d \in 0..Len(q) /\ Len(r) + d <= Len(q)
  /\ \A i \in 1..Len(r) : Like(r[i], q[i + d])

\* What is known of a queued frame.
Framed(f) ==
  /\ f.kind \in Kinds /\ f.n \in 1..MaxFrames /\ f.ticket \in Nat
  /\ f.first \in Numbers
  /\ f.size \in Sizes /\ f.size \in Nat \ {0} /\ f.next \in Nat

\* A queue's frames are typed.
LEMMA QueueFrames ==
  ASSUME NEW q \in Seq(QueuedFrame)
  PROVE  Len(q) \in Nat /\ \A i \in 1..Len(q) : q[i] \in QueuedFrame /\ Framed(q[i])
<1>1. \A f \in QueuedFrame : Framed(f)
  <2> TAKE f \in QueuedFrame
  <2>1. /\ f.kind \in Kinds /\ f.n \in 1..MaxFrames /\ f.ticket \in Nat
        /\ f.first \in Numbers /\ f.size \in Sizes /\ f.next \in Nat
    BY DEF QueuedFrame, Kinds
  <2> QED BY <2>1, VideoSendAssumption DEF Framed
<1> QED BY <1>1

\* The places are finitely many.
LEMMA PlacesFinite ==
  ASSUME NEW q, Len(q) \in Nat, NEW kinds, NEW t
  PROVE  /\ Places(q, kinds, t) \in SUBSET (1..Len(q))
         /\ IsFiniteSet(Places(q, kinds, t)) /\ CountOf(q, kinds, t) \in Nat
<1>1. Places(q, kinds, t) \in SUBSET (1..Len(q))
  BY DEF Places
<1>2. IsFiniteSet(1..Len(q))
  BY FS_Interval
<1>3. IsFiniteSet(Places(q, kinds, t))
  BY <1>1, <1>2, FS_Subset
<1> QED BY <1>1, <1>3, FS_CardinalityType DEF CountOf

\* None is counted exactly when there is none.
LEMMA CountNone ==
  ASSUME NEW q, Len(q) \in Nat, NEW kinds, NEW t
  PROVE  CountOf(q, kinds, t) = 0 <=>
           \A i \in 1..Len(q) : ~(q[i].kind \in kinds /\ q[i].ticket = t)
<1>1. IsFiniteSet(Places(q, kinds, t))
  BY PlacesFinite
<1>2. CountOf(q, kinds, t) = 0 <=> Places(q, kinds, t) = {}
  BY <1>1, FS_EmptySet DEF CountOf
<1> QED BY <1>2 DEF Places

\* What is kept from place d+1 on is counted by its former places.
LEMMA CountSuffix ==
  ASSUME NEW q, NEW r, Len(q) \in Nat, Len(r) \in Nat, NEW d, Segment(r, q, d),
         Len(r) + d = Len(q), NEW kinds, NEW t
  PROVE  CountOf(r, kinds, t) = Cardinality(Places(q, kinds, t) \ (1..d))
<1> DEFINE P == Places(r, kinds, t)
           Q == Places(q, kinds, t) \ (1..d)
           f == [i \in P |-> i + d]
<1>1. d \in Nat /\ d <= Len(q)
  BY DEF Segment
<1>2. \A i \in 1..Len(r) : /\ i + d \in 1..Len(q) /\ r[i].kind = q[i + d].kind
                           /\ r[i].ticket = q[i + d].ticket
  BY <1>1 DEF Segment, Like
<1>3. \A i \in P : i \in 1..Len(r) /\ i + d \in Q
  BY <1>1, <1>2 DEF Places
<1>4. \A j \in Q : j - d \in P /\ (j - d) + d = j
  <2> TAKE j \in Q
  <2>1. j \in 1..Len(q) /\ j \notin 1..d /\ q[j].kind \in kinds /\ q[j].ticket = t
    BY DEF Places
  <2>2. j - d \in 1..Len(r) /\ (j - d) + d = j
    BY <1>1, <2>1
  <2> QED BY <1>2, <2>1, <2>2 DEF Places
<1>5. IsFiniteSet(P)
  BY PlacesFinite
<1> HIDE DEF P, Q
<1>6. f \in [P -> Q]
  BY <1>3
<1>7. \A i, j \in P : f[i] = f[j] => i = j
  BY <1>1, <1>3
<1>8. \A j \in Q : \E i \in P : f[i] = j
  BY <1>4
<1>9. ExistsBijection(P, Q)
  <2> HIDE DEF f
  <2>1. f \in Injection(P, Q)
    BY <1>6, <1>7 DEF Injection, IsInjective
  <2>2. f \in Surjection(P, Q)
    BY <1>6, <1>8 DEF Surjection
  <2> QED BY <2>1, <2>2 DEF ExistsBijection, Bijection
<1> QED BY <1>5, <1>9, FS_Bijection DEF CountOf, P, Q

\* A queue that lost only frames that are not counted.
LEMMA CountRest ==
  ASSUME NEW q, NEW r, Len(q) \in Nat, Len(r) \in Nat, NEW d, Segment(r, q, d),
         Len(r) + d = Len(q), NEW kinds, NEW t,
         \A i \in 1..d : ~(q[i].kind \in kinds /\ q[i].ticket = t)
  PROVE  CountOf(r, kinds, t) = CountOf(q, kinds, t)
<1>1. Places(q, kinds, t) \ (1..d) = Places(q, kinds, t)
  BY DEF Places
<1> QED BY <1>1, CountSuffix DEF CountOf

\* A queue that lost its head.
LEMMA CountTail ==
  ASSUME NEW q, NEW r, Len(q) \in Nat, Len(r) \in Nat, Segment(r, q, 1),
         Len(r) + 1 = Len(q), NEW kinds, NEW t
  PROVE  CountOf(r, kinds, t) =
           CountOf(q, kinds, t) - IF q[1].kind \in kinds /\ q[1].ticket = t THEN 1 ELSE 0
<1>1. 1..1 = {1}
  OBVIOUS
<1>2. CountOf(r, kinds, t) = Cardinality(Places(q, kinds, t) \ {1})
  BY <1>1, CountSuffix
<1>3. IsFiniteSet(Places(q, kinds, t)) /\ CountOf(q, kinds, t) \in Nat
  BY PlacesFinite
<1>4. 1 \in Places(q, kinds, t) <=> q[1].kind \in kinds /\ q[1].ticket = t
  BY DEF Places, Segment
<1>5. Cardinality(Places(q, kinds, t) \ {1}) =
        IF 1 \in Places(q, kinds, t) THEN Cardinality(Places(q, kinds, t)) - 1
        ELSE Cardinality(Places(q, kinds, t))
  BY <1>3, FS_RemoveElement
<1> QED BY <1>2, <1>3, <1>4, <1>5 DEF CountOf

\* A part has no more than the whole.
LEMMA CountFront ==
  ASSUME NEW q, NEW r, Len(q) \in Nat, Len(r) \in Nat, Segment(r, q, 0),
         NEW kinds, NEW t
  PROVE  CountOf(r, kinds, t) <= CountOf(q, kinds, t)
<1>1. Places(r, kinds, t) \in SUBSET Places(q, kinds, t)
  BY DEF Places, Segment, Like
<1>2. IsFiniteSet(Places(q, kinds, t))
  BY PlacesFinite
<1> QED BY <1>1, <1>2, FS_Subset DEF CountOf

\* A queue that gained a frame.
LEMMA CountAppend ==
  ASSUME NEW q \in Seq(QueuedFrame), NEW f \in QueuedFrame, NEW kinds, NEW t
  PROVE  CountOf(Append(q, f), kinds, t) =
           CountOf(q, kinds, t) + IF f.kind \in kinds /\ f.ticket = t THEN 1 ELSE 0
<1> DEFINE r == Append(q, f)
           P == Places(q, kinds, t)
<1>1. /\ Len(q) \in Nat /\ Len(r) = Len(q) + 1 /\ r[Len(r)] = f
      /\ \A i \in 1..Len(q) : r[i] = q[i]
  OBVIOUS
<1>2. IsFiniteSet(P) /\ CountOf(q, kinds, t) \in Nat /\ Len(r) \notin P
  BY <1>1, PlacesFinite DEF Places
<1>3. Places(r, kinds, t) =
        IF f.kind \in kinds /\ f.ticket = t THEN P \cup {Len(r)} ELSE P
  <2> HIDE DEF r
  <2> QED BY <1>1 DEF Places
<1>4. Cardinality(P \cup {Len(r)}) = Cardinality(P) + 1
  <2> HIDE DEF P, r
  <2> QED BY <1>2, FS_AddElement
<1> QED BY <1>2, <1>3, <1>4 DEF CountOf
(***************************************************************************)
(* The gate and what it counts.                                            *)
(***************************************************************************)
Passing(g) == ~g.awaiting \/ g.pendingLive > 0

Done(w) == w.pc = "done"
Doomed(w) == Done(w) /\ ~w.ok
Due(w, kinds, t) ==
  IF Done(w) /\ w.frame.kind \in kinds /\ w.frame.ticket = t THEN 1 ELSE 0

CountsOK(g, q, w) ==
  /\ g.pendingLive = CountOf(q, {"key"}, g.generation) + Due(w, {"key"}, g.generation)
  /\ g.pending >= CountOf(q, Keys, g.generation) + Due(w, Keys, g.generation)

TicketOK(g, f) ==
  /\ f.ticket <= g.generation
  /\ (~g.awaiting => f.ticket = g.generation)

TicketsOK(g, q, w) ==
  /\ \A i \in 1..Len(q) : q[i].kind \in Keys =>
       /\ TicketOK(g, q[i])
       /\ \A j \in 1..i : q[j].kind \in Keys => q[j].ticket <= q[i].ticket
  /\ Done(w) /\ w.frame.kind \in Keys =>
       /\ TicketOK(g, w.frame)
       /\ \A i \in 1..Len(q) : q[i].kind \in Keys => w.frame.ticket <= q[i].ticket

GatesOK(g, q, w) == CountsOK(g, q, w) /\ TicketsOK(g, q, w)

\* A worker's record, and whether two of them have the same frame to complete.
WorkerRecords == [pc: {"idle", "selected", "sending", "done", "over"}, stale: BOOLEAN,
             ok: BOOLEAN, frame: [kind: Kinds, n: FrameIndex, ticket: Nat]]
SameDone(w, v) ==
  /\ (Done(v) <=> Done(w))
  /\ (Done(w) => v.frame = w.frame /\ v.ok = w.ok)

\* What one gate makes of another.
Closes(g, h) ==
  /\ h.generation = g.generation + 1 /\ h.pending = 0 /\ h.pendingLive = 0
  /\ h.awaiting = TRUE
Leaves(g, h) ==
  /\ h.generation = g.generation /\ h.pending = g.pending
  /\ h.pendingLive = g.pendingLive /\ h.awaiting = g.awaiting
\* What the gate's functions return.
LEMMA GateFields ==
  ASSUME NEW g \in Gate
  PROVE  /\ g.awaiting \in BOOLEAN /\ g.cachedPrime \in BOOLEAN
         /\ g.generation \in Nat
         /\ g.pending \in Nat /\ g.pendingLive \in Nat
BY DEF Gate

\* A new generation has nothing pending.
LEMMA AdvancedIs ==
  ASSUME NEW g \in Gate
  PROVE  /\ Advanced(g) \in Gate /\ Advanced(g).generation = g.generation + 1
         /\ Advanced(g).pending = 0 /\ Advanced(g).pendingLive = 0
<1> DEFINE n == g.generation + 1
           h == [g EXCEPT !.generation = n, !.pending = 0, !.pendingLive = 0]
<1>1. Advanced(g) = h /\ n \in Nat
  BY DEF Advanced, Gate
<1> HIDE DEF n
<1>2. h \in Gate /\ h.generation = n /\ h.pending = 0 /\ h.pendingLive = 0
  BY <1>1 DEF Gate
<1> QED BY <1>1, <1>2 DEF n

\* A reset for the cached keyframe closes the gate.
LEMMA ResetIs ==
  ASSUME NEW g \in Gate, NEW h, h = ResetForCachedPrime(g)
  PROVE  h \in Gate /\ Closes(g, h)
BY AdvancedIs DEF Gate, ResetForCachedPrime, Closes

\* Requiring a live keyframe closes the gate, or waits for the one that is pending.
LEMMA RequiredIs ==
  ASSUME NEW g \in Gate, NEW allowPending \in BOOLEAN, NEW h,
         h = RequireLiveKeyframe(g, allowPending)
  PROVE  /\ h \in Gate
         /\ ~allowPending \/ g.pendingLive = 0 => Closes(g, h)
         /\ ~(~allowPending \/ g.pendingLive = 0) =>
              /\ h.generation = g.generation /\ h.pending = g.pending
              /\ h.pendingLive = g.pendingLive /\ h.awaiting = TRUE
<1>1. CASE ~allowPending \/ g.pendingLive = 0
  <2>1. h = [Advanced(g) EXCEPT !.awaiting = TRUE, !.cachedPrime = FALSE]
    BY <1>1 DEF RequireLiveKeyframe
  <2> QED BY <1>1, <2>1, AdvancedIs DEF Gate, Closes
<1>2. CASE ~(~allowPending \/ g.pendingLive = 0)
  <2>1. h = [g EXCEPT !.awaiting = TRUE, !.cachedPrime = FALSE]
    BY <1>2 DEF RequireLiveKeyframe
  <2> QED BY <1>2, <2>1 DEF Gate
<1> QED BY <1>1, <1>2

\* A viewer's request leaves what is pending.
LEMMA RequestIs ==
  ASSUME NEW g \in Gate, NEW h, h = DecoderKeyframeRequest(g)
  PROVE  h \in Gate /\ Leaves(g, h)
BY DEF Gate, DecoderKeyframeRequest, Leaves

\* A keyframe that was queued is pending.
LEMMA QueuedIs ==
  ASSUME NEW g \in Gate, NEW cachedReplay \in BOOLEAN, NEW h,
         h = KeyframeQueued(g, cachedReplay)
  PROVE  /\ h \in Gate /\ h.generation = g.generation /\ h.awaiting = g.awaiting
         /\ h.pending = g.pending + 1
         /\ h.pendingLive = g.pendingLive + IF cachedReplay THEN 0 ELSE 1
<1> DEFINE p == g.pending + 1
           l == IF cachedReplay THEN g.pendingLive ELSE g.pendingLive + 1
<1>1. p \in Nat /\ l \in Nat
  BY GateFields
<1>2. h = [g EXCEPT !.cachedPrime = FALSE, !.pending = p, !.pendingLive = l]
  BY GateFields DEF KeyframeQueued
<1> HIDE DEF p, l
<1>3. /\ h \in Gate /\ h.generation = g.generation /\ h.awaiting = g.awaiting
      /\ h.pending = p /\ h.pendingLive = l
  BY <1>1, <1>2 DEF Gate
<1> QED BY <1>3, GateFields DEF p, l

\* What the completion of a keyframe makes of the gate.
Completes(g, t, ok, cachedReplay, h) ==
  /\ h \in Gate /\ h.generation = g.generation
  /\ t # g.generation => Leaves(g, h)
  /\ t = g.generation =>
       /\ h.awaiting = (~ok \/ cachedReplay)
       /\ g.pending = 0 => h.pending = 0 /\ h.pendingLive = g.pendingLive
       /\ g.pending > 0 =>
            /\ h.pending = g.pending - 1
            /\ h.pendingLive = IF ~cachedReplay /\ g.pendingLive > 0
                                 THEN g.pendingLive - 1 ELSE g.pendingLive

\* It is what KeyframeSendCompleted returns.
LEMMA CompletedIs ==
  ASSUME NEW g \in Gate, NEW t \in Nat, NEW ok \in BOOLEAN, NEW cachedReplay \in BOOLEAN,
         NEW h, h = KeyframeSendCompleted(g, t, ok, cachedReplay)
  PROVE  Completes(g, t, ok, cachedReplay, h)
<1> DEFINE s == Settled(g, t, cachedReplay)
<1>1. /\ s \in Gate /\ s.generation = g.generation /\ s.awaiting = g.awaiting
      /\ t # g.generation => s = g
      /\ t = g.generation =>
              /\ g.pending = 0 => s.pending = 0 /\ s.pendingLive = g.pendingLive
              /\ g.pending > 0 =>
                   /\ s.pending = g.pending - 1
                   /\ s.pendingLive = IF ~cachedReplay /\ g.pendingLive > 0
                                        THEN g.pendingLive - 1 ELSE g.pendingLive
  <2> DEFINE p == g.pending - 1
             l == IF ~cachedReplay /\ g.pendingLive > 0
                    THEN g.pendingLive - 1 ELSE g.pendingLive
  <2>1. CASE t = g.generation /\ g.pending > 0
    <3>1. p \in Nat /\ l \in Nat
      BY <2>1, GateFields
    <3>2. s = [g EXCEPT !.pending = p, !.pendingLive = l]
      BY <2>1 DEF Settled
    <3> HIDE DEF s, p, l
    <3>3. /\ s \in Gate /\ s.generation = g.generation /\ s.awaiting = g.awaiting
          /\ s.pending = p /\ s.pendingLive = l
      BY <3>1, <3>2 DEF Gate
    <3> QED BY <2>1, <3>3 DEF p, l
  <2>2. CASE ~(t = g.generation /\ g.pending > 0)
    <3>1. s = g
      BY <2>2 DEF Settled
    <3> QED BY <2>2, <3>1, GateFields
  <2> QED BY <2>1, <2>2
<1>2. h = IF t # g.generation THEN s
          ELSE [s EXCEPT !.awaiting = ~ok \/ cachedReplay, !.cachedPrime = FALSE]
  BY DEF KeyframeSendCompleted
<1> HIDE DEF s
<1>3. CASE t # g.generation
  BY <1>1, <1>2, <1>3 DEF Leaves, Completes
<1>4. CASE t = g.generation
  <2>1. (~ok \/ cachedReplay) \in BOOLEAN
    OBVIOUS
  <2> DEFINE b == (~ok \/ cachedReplay)
  <2>2. h = [s EXCEPT !.awaiting = b, !.cachedPrime = FALSE]
    BY <1>2, <1>4
  <2> HIDE DEF b
  <2>3. /\ h \in Gate /\ h.generation = s.generation /\ h.awaiting = b
        /\ h.pending = s.pending /\ h.pendingLive = s.pendingLive
    BY <1>1, <2>1, <2>2 DEF Gate, b
  <2> QED BY <1>1, <1>4, <2>3 DEF b, Completes
<1> QED BY <1>3, <1>4

\* Closing the gate leaves no pending frame under its new generation, whatever
\* stays of the queue.
LEMMA GateCloses ==
  ASSUME NEW g \in Gate, NEW h \in Gate, Closes(g, h),
         NEW q, NEW r, Len(q) \in Nat, Len(r) \in Nat, NEW d, Segment(r, q, d),
         NEW w, NEW v, Done(v) => Done(w) /\ v.frame = w.frame,
         \A i \in 1..Len(q) : q[i].ticket \in Nat, w.frame.ticket \in Nat,
         TicketsOK(g, q, w)
  PROVE  GatesOK(h, r, v) /\ ~Passing(h)
<1>1. /\ h.generation = g.generation + 1 /\ h.awaiting /\ h.pendingLive = 0
      /\ h.pending = 0
      /\ g.generation \in Nat
  BY GateFields DEF Closes
<1>2. \A i \in 1..Len(r) : i + d \in 1..Len(q) /\ Like(r[i], q[i + d])
  BY DEF Segment
<1>3. \A i \in 1..Len(q) : q[i].kind \in Keys => q[i].ticket <= g.generation
  BY DEF TicketsOK, TicketOK
<1>4. \A i \in 1..Len(r) : r[i].kind \in Keys =>
        r[i].ticket \in Nat /\ r[i].ticket <= g.generation
  BY <1>2, <1>3 DEF Like
<1>5. Done(v) /\ v.frame.kind \in Keys => v.frame.ticket <= g.generation
  BY DEF TicketsOK, TicketOK
<1>6. CountOf(r, {"key"}, h.generation) = 0 /\ CountOf(r, Keys, h.generation) = 0
  <2>1. \A i \in 1..Len(r) : r[i].kind \in Keys => r[i].ticket # h.generation
    BY <1>1, <1>4
  <2>2. \A i \in 1..Len(r) : r[i].kind \in {"key"} => r[i].ticket # h.generation
    BY <2>1 DEF Keys
  <2> QED BY <2>1, <2>2, CountNone
<1>7. Due(v, {"key"}, h.generation) = 0 /\ Due(v, Keys, h.generation) = 0
  BY <1>1, <1>5 DEF Due, Keys
<1>8. \A i \in 1..Len(r) : \A j \in 1..i : r[i].kind \in Keys /\ r[j].kind \in Keys =>
        r[j].ticket <= r[i].ticket
  <2> TAKE i \in 1..Len(r)
  <2> TAKE j \in 1..i
  <2>1. /\ i + d \in 1..Len(q) /\ j + d \in 1..i + d /\ Like(r[i], q[i + d])
        /\ Like(r[j], q[j + d])
    BY <1>2 DEF Segment
  <2> QED BY <2>1 DEF TicketsOK, Like
<1>9. Done(v) /\ v.frame.kind \in Keys =>
        \A i \in 1..Len(r) : r[i].kind \in Keys => v.frame.ticket <= r[i].ticket
  BY <1>2 DEF TicketsOK, Like
<1>10. TicketsOK(h, r, v)
  BY <1>1, <1>4, <1>5, <1>8, <1>9 DEF TicketsOK, TicketOK
<1> QED BY <1>1, <1>6, <1>7, <1>10 DEF GatesOK, CountsOK, Passing

\* What the worker does with the head, and a request that finds nothing to do,
\* leave the gate and the queue as they were.
LEMMA GateLeaves ==
  ASSUME NEW g \in Gate, NEW h \in Gate, Leaves(g, h),
         NEW q, NEW r, Len(q) \in Nat, Len(r) = Len(q), Segment(r, q, 0),
         NEW w, NEW v, SameDone(w, v), GatesOK(g, q, w)
  PROVE  GatesOK(h, r, v) /\ (Passing(h) => Passing(g))
<1>1. \A i \in 1..Len(r) : r[i].kind = q[i].kind /\ r[i].ticket = q[i].ticket
  BY DEF Segment, Like
<1>2. \A kinds, t : Places(r, kinds, t) = Places(q, kinds, t)
  BY <1>1 DEF Places
<1>3. \A kinds, t : CountOf(r, kinds, t) = CountOf(q, kinds, t)
  BY <1>2 DEF CountOf
<1>4. \A kinds, t : Due(v, kinds, t) = Due(w, kinds, t)
  BY DEF Due, SameDone
<1>5. CountsOK(h, r, v)
  BY <1>3, <1>4 DEF GatesOK, CountsOK, Leaves
<1>6. \A i \in 1..Len(r) : r[i].kind \in Keys =>
        /\ TicketOK(h, r[i])
        /\ \A j \in 1..i : r[j].kind \in Keys => r[j].ticket <= r[i].ticket
  BY <1>1 DEF GatesOK, TicketsOK, TicketOK, Leaves
<1>7. Done(v) /\ v.frame.kind \in Keys =>
       /\ TicketOK(h, v.frame)
       /\ \A i \in 1..Len(r) : r[i].kind \in Keys => v.frame.ticket <= r[i].ticket
  BY <1>1 DEF GatesOK, TicketsOK, TicketOK, Leaves, SameDone
<1> QED BY <1>5, <1>6, <1>7 DEF GatesOK, TicketsOK, Passing, Leaves

\* A request that discards the queue finds no live keyframe pending.
LEMMA GateDiscards ==
  ASSUME NEW g \in Gate, NEW h \in Gate, Leaves(g, h), g.pendingLive = 0,
         NEW q, NEW r, Len(q) \in Nat, Len(r) \in Nat, Segment(r, q, 0),
         NEW w, NEW v, SameDone(w, v), GatesOK(g, q, w)
  PROVE  GatesOK(h, r, v) /\ (Passing(h) => Passing(g))
<1>1. \A i \in 1..Len(r) : i \in 1..Len(q) /\ r[i].kind = q[i].kind
                          /\ r[i].ticket = q[i].ticket
  BY DEF Segment, Like
<1>2. /\ CountOf(q, {"key"}, g.generation) \in Nat
      /\ CountOf(q, Keys, g.generation) \in Nat
      /\ CountOf(r, {"key"}, g.generation) \in Nat
      /\ CountOf(r, Keys, g.generation) \in Nat
      /\ CountOf(r, {"key"}, g.generation) <= CountOf(q, {"key"}, g.generation)
      /\ CountOf(r, Keys, g.generation) <= CountOf(q, Keys, g.generation)
  BY PlacesFinite, CountFront
<1>3. /\ Due(w, {"key"}, g.generation) \in 0..1
      /\ Due(w, Keys, g.generation) \in 0..1
      /\ Due(v, {"key"}, g.generation) = Due(w, {"key"}, g.generation)
      /\ Due(v, Keys, g.generation) = Due(w, Keys, g.generation)
  BY DEF Due, SameDone
<1>4. CountsOK(h, r, v)
  BY <1>2, <1>3, GateFields DEF GatesOK, CountsOK, Leaves
<1>6. \A i \in 1..Len(r) : r[i].kind \in Keys =>
        /\ TicketOK(h, r[i])
        /\ \A j \in 1..i : r[j].kind \in Keys => r[j].ticket <= r[i].ticket
  BY <1>1 DEF GatesOK, TicketsOK, TicketOK, Leaves
<1>7. Done(v) /\ v.frame.kind \in Keys =>
       /\ TicketOK(h, v.frame)
       /\ \A i \in 1..Len(r) : r[i].kind \in Keys => v.frame.ticket <= r[i].ticket
  BY <1>1 DEF GatesOK, TicketsOK, TicketOK, Leaves, SameDone
<1> QED BY <1>4, <1>6, <1>7 DEF GatesOK, TicketsOK, Passing, Leaves

\* A frame that leaves the queue is due until it is completed.
LEMMA GateFinishes ==
  ASSUME NEW g \in Gate, NEW q, NEW r, Len(q) \in Nat, Len(r) \in Nat,
         Segment(r, q, 1), Len(r) + 1 = Len(q),
         NEW w, NEW v, ~Done(w), Done(v), Like(v.frame, q[1]), GatesOK(g, q, w)
  PROVE  GatesOK(g, r, v)
<1>1. \A i \in 1..Len(r) : i + 1 \in 1..Len(q) /\ r[i].kind = q[i + 1].kind
                          /\ r[i].ticket = q[i + 1].ticket
  BY DEF Segment, Like
<1>2. /\ CountOf(q, {"key"}, g.generation) \in Nat
      /\ CountOf(q, Keys, g.generation) \in Nat
      /\ \A kinds \in {{"key"}, Keys} : CountOf(r, kinds, g.generation) =
           CountOf(q, kinds, g.generation)
             - IF q[1].kind \in kinds /\ q[1].ticket = g.generation THEN 1 ELSE 0
  BY PlacesFinite, CountTail
<1>3. \A kinds \in {{"key"}, Keys} :
        /\ Due(w, kinds, g.generation) = 0
        /\ Due(v, kinds, g.generation) =
             IF q[1].kind \in kinds /\ q[1].ticket = g.generation THEN 1 ELSE 0
  BY DEF Due, Like
<1>4. CountsOK(g, r, v)
  BY <1>2, <1>3, GateFields DEF GatesOK, CountsOK
<1>5. 1 \in 1..Len(q)
  OBVIOUS
<1>6. \A i \in 1..Len(r) : r[i].kind \in Keys =>
        /\ TicketOK(g, r[i])
        /\ \A j \in 1..i : r[j].kind \in Keys => r[j].ticket <= r[i].ticket
  <2> TAKE i \in 1..Len(r)
  <2> HAVE r[i].kind \in Keys
  <2>1. TicketOK(g, r[i])
    BY <1>1 DEF GatesOK, TicketsOK, TicketOK
  <2>2. ASSUME NEW j \in 1..i, r[j].kind \in Keys PROVE r[j].ticket <= r[i].ticket
    <3>1. j \in 1..Len(r) /\ i + 1 \in 1..Len(q) /\ j + 1 \in 1..i + 1
      OBVIOUS
    <3> QED BY <1>1, <2>2, <3>1 DEF GatesOK, TicketsOK
  <2> QED BY <2>1, <2>2
<1>7. v.frame.kind \in Keys => TicketOK(g, v.frame)
  BY <1>5 DEF GatesOK, TicketsOK, TicketOK, Like
<1>8. v.frame.kind \in Keys =>
        \A i \in 1..Len(r) : r[i].kind \in Keys => v.frame.ticket <= r[i].ticket
  <2> HAVE v.frame.kind \in Keys
  <2> TAKE i \in 1..Len(r)
  <2>1. i + 1 \in 1..Len(q) /\ 1 \in 1..i + 1
    OBVIOUS
  <2> QED BY <1>1, <2>1 DEF GatesOK, TicketsOK, Like
<1> QED BY <1>4, <1>6, <1>7, <1>8 DEF GatesOK, TicketsOK

\* A frame that joins the queue is counted as pending when it is a keyframe.
LEMMA GateQueues ==
  ASSUME NEW g \in Gate, NEW h \in Gate, NEW q \in Seq(QueuedFrame),
         NEW f \in QueuedFrame, NEW r, r = Append(q, f), NEW w, GatesOK(g, q, w),
         w.frame.ticket \in Nat,
         f.kind \in Keys => f.ticket = g.generation,
         h.generation = g.generation, h.awaiting = g.awaiting,
         h.pending = g.pending + IF f.kind \in Keys THEN 1 ELSE 0,
         h.pendingLive = g.pendingLive + IF f.kind = "key" THEN 1 ELSE 0
  PROVE  GatesOK(h, r, w)
<1>1. /\ Len(q) \in Nat /\ Len(r) = Len(q) + 1 /\ r[Len(r)] = f
      /\ \A i \in 1..Len(q) : r[i] = q[i]
  OBVIOUS
<1>2. \A i \in 1..Len(q) : q[i].ticket \in Nat
  BY QueueFrames DEF Framed
<1>3. /\ CountOf(q, {"key"}, g.generation) \in Nat
      /\ CountOf(q, Keys, g.generation) \in Nat
      /\ CountOf(r, {"key"}, g.generation) =
           CountOf(q, {"key"}, g.generation) + IF f.kind = "key" THEN 1 ELSE 0
      /\ CountOf(r, Keys, g.generation) =
           CountOf(q, Keys, g.generation) + IF f.kind \in Keys THEN 1 ELSE 0
  <2>1. /\ CountOf(q, {"key"}, g.generation) \in Nat
        /\ CountOf(q, Keys, g.generation) \in Nat
    BY <1>1, PlacesFinite
  <2>2. \A kinds \in {{"key"}, Keys} : CountOf(r, kinds, g.generation) =
          CountOf(q, kinds, g.generation)
            + IF f.kind \in kinds /\ f.ticket = g.generation THEN 1 ELSE 0
    BY CountAppend
  <2> QED BY <2>1, <2>2 DEF Keys
<1>4. Due(w, {"key"}, g.generation) \in Nat /\ Due(w, Keys, g.generation) \in Nat
  BY DEF Due
<1>5. CountsOK(h, r, w)
  <2>1. /\ g.pendingLive = CountOf(q, {"key"}, g.generation) + Due(w, {"key"}, g.generation)
        /\ g.pending >= CountOf(q, Keys, g.generation) + Due(w, Keys, g.generation)
        /\ g.pendingLive \in Nat /\ g.pending \in Nat
    BY GateFields DEF GatesOK, CountsOK
  <2>2. h.pendingLive = CountOf(r, {"key"}, g.generation) + Due(w, {"key"}, g.generation)
    BY <1>3, <1>4, <2>1
  <2>3. h.pending >= CountOf(r, Keys, g.generation) + Due(w, Keys, g.generation)
    BY <1>3, <1>4, <2>1
  <2> QED BY <2>2, <2>3 DEF CountsOK
<1> HIDE DEF Keys
<1>6. \A i \in 1..Len(r) : r[i].kind \in Keys =>
        /\ TicketOK(h, r[i])
        /\ \A j \in 1..i : r[j].kind \in Keys => r[j].ticket <= r[i].ticket
  <2> TAKE i \in 1..Len(r)
  <2> HAVE r[i].kind \in Keys
  <2>1. CASE i \in 1..Len(q)
    BY <1>1, <2>1 DEF GatesOK, TicketsOK, TicketOK
  <2>2. CASE i = Len(r)
    <3>1. r[i] = f /\ f.ticket = g.generation /\ g.generation \in Nat
      BY <1>1, <2>2, GateFields
    <3>2. ASSUME NEW j \in 1..i, r[j].kind \in Keys PROVE r[j].ticket <= r[i].ticket
      <4>1. CASE j = i
        BY <3>1, <4>1
      <4>2. CASE j \in 1..Len(q)
        BY <1>1, <3>1, <3>2, <4>2 DEF GatesOK, TicketsOK, TicketOK
      <4> QED BY <1>1, <2>2, <4>1, <4>2
    <3> QED BY <3>1, <3>2 DEF TicketOK
  <2> QED BY <1>1, <2>1, <2>2
<1>7. Done(w) /\ w.frame.kind \in Keys =>
       /\ TicketOK(h, w.frame)
       /\ \A i \in 1..Len(r) : r[i].kind \in Keys => w.frame.ticket <= r[i].ticket
  <2> HAVE Done(w) /\ w.frame.kind \in Keys
  <2>1. TicketOK(h, w.frame) /\ w.frame.ticket <= g.generation
    BY DEF GatesOK, TicketsOK, TicketOK
  <2>2. ASSUME NEW i \in 1..Len(r), r[i].kind \in Keys PROVE w.frame.ticket <= r[i].ticket
    <3>1. CASE i \in 1..Len(q)
      BY <1>1, <2>2, <3>1 DEF GatesOK, TicketsOK
    <3>2. CASE i = Len(r)
      BY <1>1, <2>1, <2>2, <3>2
    <3> QED BY <1>1, <3>1, <3>2
  <2> QED BY <2>1, <2>2
<1> QED BY <1>5, <1>6, <1>7 DEF GatesOK, TicketsOK

\* What a completion keeps of the queue: from its first keyframe on when the
\* frame failed.
FromKeyframe(r, q, d) ==
  /\ Segment(r, q, d) /\ Len(r) + d = Len(q)
  /\ \A i \in 1..d : q[i].kind = "delta"
  /\ r # <<>> /\ d > 0 => r[1].kind # "delta"

\* A live keyframe is queued.
HasLive(r) == \E i \in 1..Len(r) : r[i].kind = "key"

\* CompletedGate, of any gate.
GateAfter(g, f, ok, h) ==
  IF f.kind # "delta"
    THEN h = KeyframeSendCompleted(g, f.ticket, ok, f.kind = "cached")
    ELSE IF ok THEN h = g ELSE h = RequireLiveKeyframe(g, TRUE)

\* The completion of a frame takes it out of what is pending; the gate passes
\* deltas after it only if it did before, and then, if deltas were discarded, a
\* live keyframe is still queued.
LEMMA GateCompletes ==
  ASSUME NEW g \in Gate, NEW h, NEW q \in Seq(QueuedFrame), NEW r \in Seq(QueuedFrame),
         NEW d, FromKeyframe(r, q, d),
         NEW w \in WorkerRecords, NEW v, Done(w), ~Done(v), GatesOK(g, q, w),
         GateAfter(g, w.frame, w.ok, h),
         w.ok => d = 0
  PROVE  /\ h \in Gate /\ GatesOK(h, r, v) /\ (Passing(h) => Passing(g))
         /\ Passing(h) /\ ~w.ok => HasLive(r)
<1> DEFINE f == w.frame
           live == CountOf(r, {"key"}, g.generation)
           all == CountOf(r, Keys, g.generation)
<1>1. /\ f.kind \in Kinds /\ f.ticket \in Nat /\ w.ok \in BOOLEAN
      /\ Len(q) \in Nat /\ Len(r) \in Nat
  BY DEF WorkerRecords
<1>2. /\ live = CountOf(q, {"key"}, g.generation)
      /\ all = CountOf(q, Keys, g.generation)
      /\ live \in Nat /\ all \in Nat
  <2>1. \A kinds \in {{"key"}, Keys} : \A i \in 1..d :
          ~(q[i].kind \in kinds /\ q[i].ticket = g.generation)
    BY DEF FromKeyframe, Keys
  <2>2. Segment(r, q, d) /\ Len(r) + d = Len(q)
    BY DEF FromKeyframe
  <2>3. \A kinds \in {{"key"}, Keys} :
          CountOf(r, kinds, g.generation) = CountOf(q, kinds, g.generation)
    BY <1>1, <2>1, <2>2, CountRest
  <2>4. live \in Nat /\ all \in Nat
    BY <1>1, PlacesFinite
  <2> QED BY <2>3, <2>4
<1>3. /\ Due(w, {"key"}, g.generation) =
           IF f.kind = "key" /\ f.ticket = g.generation THEN 1 ELSE 0
      /\ Due(w, Keys, g.generation) =
           IF f.kind \in Keys /\ f.ticket = g.generation THEN 1 ELSE 0
      /\ \A kinds, t : Due(v, kinds, t) = 0
  BY DEF Due
<1>4. /\ g.pendingLive = live + IF f.kind = "key" /\ f.ticket = g.generation THEN 1 ELSE 0
      /\ g.pending >= all + IF f.kind \in Keys /\ f.ticket = g.generation THEN 1 ELSE 0
      /\ g.pendingLive \in Nat /\ g.pending \in Nat /\ g.generation \in Nat
      /\ g.awaiting \in BOOLEAN
  BY <1>2, <1>3, GateFields DEF GatesOK, CountsOK
<1>5. live > 0 => HasLive(r)
  BY <1>1, <1>2, CountNone DEF HasLive
<1>6. \A i \in 1..Len(r) : i + d \in 1..Len(q) /\ r[i].kind = q[i + d].kind
                          /\ r[i].ticket = q[i + d].ticket
  BY DEF FromKeyframe, Segment, Like
<1>7. \A i \in 1..Len(r) : r[i].kind \in Keys =>
        /\ TicketOK(g, r[i]) /\ r[i].ticket \in Nat
        /\ \A j \in 1..i : r[j].kind \in Keys => r[j].ticket <= r[i].ticket
        /\ f.kind \in Keys => f.ticket <= r[i].ticket
  <2> TAKE i \in 1..Len(r)
  <2> HAVE r[i].kind \in Keys
  <2>1. /\ TicketOK(g, r[i]) /\ r[i].ticket \in Nat
        /\ (f.kind \in Keys => f.ticket <= r[i].ticket)
    BY <1>6, QueueFrames DEF GatesOK, TicketsOK, TicketOK, Framed
  <2>2. ASSUME NEW j \in 1..i, r[j].kind \in Keys PROVE r[j].ticket <= r[i].ticket
    <3>1. j \in 1..Len(r) /\ i + d \in 1..Len(q) /\ j + d \in 1..i + d
      BY <1>6 DEF FromKeyframe, Segment
    <3> QED BY <1>6, <2>2, <3>1 DEF GatesOK, TicketsOK
  <2> QED BY <2>1, <2>2
<1>8. f.kind \in Keys => TicketOK(g, f)
  BY DEF GatesOK, TicketsOK
<1> HIDE DEF live, all
<1>9. ASSUME h \in Gate, h.generation = g.generation,
             h.awaiting \/ h.awaiting = g.awaiting
                 \/ (f.kind \in Keys /\ f.ticket = g.generation),
             h.pendingLive = live, h.pending >= all
      PROVE  GatesOK(h, r, v)
  <2>1. CountsOK(h, r, v)
    <3>1. /\ Due(v, {"key"}, h.generation) = 0 /\ Due(v, Keys, h.generation) = 0
          /\ live = CountOf(r, {"key"}, h.generation)
          /\ all = CountOf(r, Keys, h.generation)
      BY <1>3, <1>9 DEF live, all
    <3>2. /\ h.pendingLive = live + 0 /\ h.pending >= all + 0
      BY <1>2, <1>9
    <3> QED BY <3>1, <3>2 DEF CountsOK
  <2>2. \A i \in 1..Len(r) : r[i].kind \in Keys => TicketOK(h, r[i])
    <3> TAKE i \in 1..Len(r)
    <3> HAVE r[i].kind \in Keys
    <3>1. /\ r[i].ticket <= g.generation /\ r[i].ticket \in Nat
          /\ ~g.awaiting => r[i].ticket = g.generation
          /\ f.kind \in Keys => f.ticket <= r[i].ticket
      BY <1>7 DEF TicketOK
    <3>2. ~h.awaiting => r[i].ticket = g.generation
      <4> HAVE ~h.awaiting
      <4>1. CASE h.awaiting = g.awaiting
        BY <3>1, <4>1
      <4>2. CASE f.kind \in Keys /\ f.ticket = g.generation
        BY <1>4, <3>1, <4>2
      <4> QED BY <1>9, <4>1, <4>2
    <3> QED BY <1>9, <3>1, <3>2 DEF TicketOK
  <2> QED BY <1>7, <2>1, <2>2 DEF GatesOK, TicketsOK
<1>10. CASE f.kind # "delta"
  <2>1. f.kind \in Keys
    BY <1>1, <1>10 DEF Keys, Kinds
  <2>2. h = KeyframeSendCompleted(g, f.ticket, w.ok, f.kind = "cached")
    BY <1>10 DEF GateAfter
  <2>3. PICK cachedReplay \in BOOLEAN : cachedReplay = (f.kind = "cached")
    OBVIOUS
  <2>a. h = KeyframeSendCompleted(g, f.ticket, w.ok, cachedReplay)
    BY <2>2, <2>3
  <2>b. cachedReplay <=> f.kind = "cached"
    BY <2>3
  <2> HIDE DEF f
  <2>4. /\ h \in Gate /\ h.generation = g.generation
        /\ f.ticket # g.generation => Leaves(g, h)
        /\ f.ticket = g.generation =>
              /\ h.awaiting = (~w.ok \/ cachedReplay)
              /\ g.pending = 0 => h.pending = 0 /\ h.pendingLive = g.pendingLive
              /\ g.pending > 0 =>
                   /\ h.pending = g.pending - 1
                   /\ h.pendingLive = IF ~cachedReplay /\ g.pendingLive > 0
                                        THEN g.pendingLive - 1 ELSE g.pendingLive
    <3>1. f.ticket \in Nat /\ w.ok \in BOOLEAN
      BY <1>1
    <3>2. Completes(g, f.ticket, w.ok, cachedReplay, h)
      BY <2>a, <3>1, CompletedIs
    <3> QED BY <3>2 DEF Completes
  <2>5. CASE f.ticket # g.generation
    <3>1. h.pendingLive = live /\ h.pending >= all
      <4>1. g.pendingLive = live + 0 /\ g.pending >= all + 0
        BY <1>4, <2>5
      <4> QED BY <1>2, <2>4, <2>5, <4>1 DEF Leaves
    <3>2. GatesOK(h, r, v)
      BY <1>9, <2>4, <2>5, <3>1 DEF Leaves
    <3>3. Passing(h) => Passing(g)
      BY <2>4, <2>5 DEF Leaves, Passing
    <3>4. g.awaiting
      BY <1>8, <2>1, <2>5 DEF TicketOK
    <3>5. Passing(h) => live > 0
      BY <2>4, <2>5, <3>1, <3>4 DEF Leaves, Passing
    <3> QED BY <1>5, <2>4, <3>2, <3>3, <3>5
  <2>6. CASE f.ticket = g.generation
    <3>1. h.pendingLive = live /\ h.pending >= all /\ g.pending > 0
      <4>1. g.pending >= all + 1
        BY <1>4, <2>1, <2>6
      <4>2. g.pending > 0 /\ h.pending = g.pending - 1 /\ h.pending >= all
        BY <1>2, <1>4, <2>4, <2>6, <4>1
      <4>3. CASE f.kind = "key"
        <5>1. g.pendingLive = live + 1 /\ ~cachedReplay
          BY <1>4, <2>6, <2>b, <4>3
        <5> QED BY <1>2, <2>4, <2>6, <4>2, <5>1
      <4>4. CASE f.kind = "cached"
        <5>1. g.pendingLive = live + 0 /\ cachedReplay
          BY <1>4, <2>6, <2>b, <4>4
        <5> QED BY <1>2, <2>4, <2>6, <4>2, <5>1
      <4> QED BY <2>1, <4>3, <4>4 DEF Keys
    <3>2. GatesOK(h, r, v)
      BY <1>9, <2>1, <2>4, <2>6, <3>1
    <3>3. Passing(h) => Passing(g)
      <4>1. CASE f.kind = "key"
        BY <1>2, <1>4, <2>6, <4>1 DEF Passing
      <4>2. CASE f.kind = "cached"
        BY <1>4, <2>4, <2>6, <3>1, <4>2, <2>b DEF Passing
      <4> QED BY <2>1, <4>1, <4>2 DEF Keys
    <3>4. Passing(h) /\ ~w.ok => live > 0
      BY <2>4, <2>6, <3>1 DEF Passing
    <3> QED BY <1>5, <2>4, <3>2, <3>3, <3>4
  <2> QED BY <2>5, <2>6
<1>11. CASE f.kind = "delta" /\ w.ok
  <2>1. h = g /\ f.kind \notin Keys
    BY <1>11 DEF Keys, GateAfter
  <2>2. GatesOK(h, r, v)
    BY <1>2, <1>4, <1>9, <1>11, <2>1 DEF Keys
  <2> QED BY <1>11, <2>1, <2>2
<1>12. CASE f.kind = "delta" /\ ~w.ok
  <2>1. h = RequireLiveKeyframe(g, TRUE) /\ f.kind \notin Keys
    BY <1>12 DEF Keys, GateAfter
  <2>2. g.pendingLive = live /\ g.pending >= all
    BY <1>2, <1>4, <1>12, <2>1
  <2>3. /\ h \in Gate
        /\ g.pendingLive = 0 => Closes(g, h)
        /\ g.pendingLive # 0 =>
              /\ h.generation = g.generation /\ h.pending = g.pending
              /\ h.pendingLive = g.pendingLive /\ h.awaiting = TRUE
    BY <2>1, RequiredIs
  <2>4. CASE g.pendingLive = 0
    <3>1. /\ \A i \in 1..Len(q) : q[i].ticket \in Nat
          /\ w.frame.ticket \in Nat /\ TicketsOK(g, q, w) /\ Segment(r, q, d)
      BY <1>1, QueueFrames DEF Framed, GatesOK, FromKeyframe
    <3>2. GatesOK(h, r, v) /\ ~Passing(h)
      BY <1>1, <2>3, <2>4, <3>1, GateCloses
    <3> QED BY <2>3, <3>2
  <2>5. CASE g.pendingLive # 0
    <3>1. GatesOK(h, r, v)
      BY <1>9, <2>2, <2>3, <2>5
    <3>2. live > 0
      BY <1>2, <2>2, <2>5
    <3>3. Passing(g)
      BY <1>4, <2>5 DEF Passing
    <3> QED BY <1>5, <2>3, <3>1, <3>2, <3>3
  <2> QED BY <2>4, <2>5
<1> QED BY <1>10, <1>11, <1>12

(***************************************************************************)
(* The pacer's queue.                                                      *)
(***************************************************************************)
\* Each delta waits behind the frame it refers to.
ChainOK(q, s, w) ==
  \A i \in 1..Len(q) : q[i].kind = "delta" =>
    IF i = 1 THEN s = q[i].n - 1 \/ Doomed(w)
    ELSE q[i - 1].kind # "cached" /\ q[i - 1].n = q[i].n - 1

\* Frame y is what the viewer decodes last when all that is queued was sent.
LastIs(q, s, w, y) ==
  IF q = <<>> THEN s = y \/ Doomed(w)
  ELSE q[Len(q)].kind # "cached" /\ q[Len(q)].n = y

\* Where the worker is says what the queue has for it; only the head may have
\* been started.
WorkerOK(q, w, over) ==
  /\ w.pc = "selected" /\ ~w.stale /\ ~over => q # <<>>
  /\ w.pc = "sending" => q # <<>> /\ q[1].next > 0
  /\ w.pc = "done" /\ q # <<>> => q[1].next = 0
  /\ \A i \in 1..Len(q) : i > 1 => q[i].next = 0

\* What a discard after the current frame leaves.
LEMMA CurrentIs ==
  ASSUME NEW q \in Seq(QueuedFrame), NEW r, r = AfterCurrent(q)
  PROVE  /\ r \in Seq(QueuedFrame) /\ Len(r) \in 0..1 /\ Segment(r, q, 0)
         /\ r # <<>> => q # <<>> /\ r[1] = q[1]
         /\ q # <<>> /\ q[1].next > 0 => r # <<>>
         /\ q # <<>> /\ r = <<>> => Discarded(q) # <<>>
         /\ Discarded(q) \in Seq(QueuedFrame)
<1>1. CASE Started(q)
  <2>1. r = <<Head(q)>> /\ q # <<>> /\ Discarded(q) = Tail(q)
    BY <1>1 DEF AfterCurrent, Started, Discarded
  <2>2. Head(q) = q[1] /\ q[1] \in QueuedFrame /\ Len(q) \in Nat /\ Len(q) >= 1
    BY <2>1
  <2>3. r \in Seq(QueuedFrame) /\ Len(r) = 1 /\ r[1] = q[1]
    BY <2>1, <2>2
  <2>4. Segment(r, q, 0)
    BY <2>2, <2>3 DEF Segment, Like
  <2>5. Tail(q) \in Seq(QueuedFrame)
    BY <2>1, HeadTailProperties
  <2> QED BY <2>1, <2>2, <2>3, <2>4, <2>5
<1>2. CASE ~Started(q)
  <2>1. /\ r = <<>> /\ Discarded(q) = q
        /\ (q # <<>> => ~(Head(q).next > 0) /\ Head(q) = q[1])
    BY <1>2 DEF AfterCurrent, Started, Discarded
  <2>2. Segment(r, q, 0)
    BY <2>1 DEF Segment
  <2> QED BY <2>1, <2>2
<1> QED BY <1>1, <1>2

\* The packets that a discard counts are finitely many.
LEMMA UnsentType ==
  ASSUME NEW q \in Seq(QueuedFrame)
  PROVE  Unsent(q) \in Nat
<1> DEFINE r == Discarded(q)
           part(i) == {i} \X (r[i].next..r[i].size - 1)
<1>1. r \in Seq(QueuedFrame)
  BY CurrentIs
<1> HIDE DEF r
<1>2. Len(r) \in Nat /\ DOMAIN r = 1..Len(r)
  BY <1>1
<1>3. ASSUME NEW i \in 1..Len(r) PROVE IsFiniteSet(part(i))
  <2>1. r[i].next \in Int /\ r[i].size - 1 \in Int
    BY <1>1, QueueFrames DEF Framed
  <2>2. IsFiniteSet(r[i].next..r[i].size - 1) /\ IsFiniteSet({i})
    BY <2>1, FS_Interval, FS_Singleton
  <2> QED BY <2>2, FS_Product
<1>4. IsFiniteSet({part(i) : i \in 1..Len(r)})
  <2> DEFINE S == 1..Len(r)
             T == {part(i) : i \in S}
             f == [i \in S |-> part(i)]
  <2>1. IsFiniteSet(S)
    BY <1>2, FS_Interval
  <2>2. f \in Surjection(S, T)
    BY DEF Surjection
  <2> HIDE DEF f, T, S
  <2>3. IsFiniteSet(T)
    BY <2>1, <2>2, FS_Surjection
  <2> QED BY <2>3 DEF T, S
<1>5. IsFiniteSet(UNION {part(i) : i \in 1..Len(r)})
  <2> DEFINE T == {part(i) : i \in 1..Len(r)}
  <2>1. \A t \in T : IsFiniteSet(t)
    BY <1>3
  <2> HIDE DEF T, part
  <2>2. IsFiniteSet(T)
    BY <1>4 DEF T
  <2>3. IsFiniteSet(UNION T)
    BY <2>1, <2>2, FS_UNION
  <2> QED BY <2>3 DEF T
<1>6. PacketsOf(r) = UNION {part(i) : i \in 1..Len(r)}
  BY <1>2 DEF PacketsOf
<1> HIDE DEF part
<1>7. Cardinality(PacketsOf(r)) \in Nat
  BY <1>5, <1>6, FS_CardinalityType
<1> QED BY <1>7 DEF Unsent, r

\* A set of numbers that is not empty has a least one.
LEMMA LeastOf ==
  ASSUME NEW I \in SUBSET Nat, I # {}
  PROVE  Min(I) \in I /\ \A j \in I : Min(I) <= j
<1> DEFINE R == {ss \in Nat \X Nat : ss[1] < ss[2]}
<1>1. IsWellFoundedOn(R, Nat)
  BY NatLessThanWellFounded DEF OpToRel
<1>2. PICK i \in I : \A j \in I : ~(<<j, i>> \in R)
  <2> HIDE DEF R
  <2> QED BY <1>1, WFMin
<1>3. ASSUME NEW j \in I PROVE i <= j
  <2>1. i \in Nat /\ j \in Nat
    OBVIOUS
  <2>2. ASSUME j < i PROVE <<j, i>> \in R
    <3>1. <<j, i>> \in Nat \X Nat /\ <<j, i>>[1] = j /\ <<j, i>>[2] = i
      BY <2>1
    <3> QED BY <3>1, <2>2
  <2> QED BY <1>2, <2>1, <2>2
<1> QED BY <1>3 DEF Min

\* What a failed frame leaves of the queue.
LEMMA UntilKeyframeIs ==
  ASSUME NEW q \in Seq(QueuedFrame), q # <<>> => q[1].next = 0,
         NEW r, r = UntilKeyframe(q)
  PROVE  /\ r \in Seq(QueuedFrame)
         /\ r # <<>> => r[1].kind # "delta"
         /\ \E d \in Nat : FromKeyframe(r, q, d) /\ \A i \in 1..Len(r) : r[i] = q[i + d]
<1> DEFINE I == {i \in 1..Len(q) : q[i].kind # "delta"}
           live == SelectInSeq(q, LAMBDA f : f.kind # "delta")
<1>0. Len(q) \in Nat /\ \A i \in 1..Len(q) : q[i] \in QueuedFrame
  BY QueueFrames
<1>1. ~Started(q)
  BY DEF Started
<1>2. AfterCurrent(q) = <<>> /\ Discarded(q) = q
  BY <1>1 DEF AfterCurrent, Discarded
<1> DEFINE kept == IF live = 0 THEN <<>> ELSE SubSeq(q, live, Len(q))
<1>3. r = <<>> \o kept
  BY <1>2 DEF UntilKeyframe
<1>4. live = IF I # {} THEN Min(I) ELSE 0
  BY DEF SelectInSeq
<1>5. I \in SUBSET Nat
  OBVIOUS
<1>6. CASE I = {}
  <2>1. r = <<>>
    <3>1. live = 0
      BY <1>4, <1>6
    <3>2. kept = <<>>
      BY <3>1
    <3> HIDE DEF kept
    <3>3. r = <<>> \o <<>>
      BY <1>3, <3>2
    <3> QED BY <3>3
  <2>2. \A i \in 1..Len(q) : q[i].kind = "delta"
    BY <1>6
  <2> HIDE DEF I, live, kept
  <2>3. Segment(r, q, Len(q)) /\ Len(r) + Len(q) = Len(q)
    BY <1>0, <2>1 DEF Segment
  <2>4. FromKeyframe(r, q, Len(q)) /\ \A i \in 1..Len(r) : r[i] = q[i + Len(q)]
    BY <1>0, <2>1, <2>2, <2>3 DEF FromKeyframe
  <2> QED BY <1>0, <2>1, <2>4
<1>7. CASE I # {}
  <2> DEFINE k == Min(I)
  <2>1. k \in I /\ \A j \in I : k <= j
    BY <1>5, <1>7, LeastOf
  <2> HIDE DEF k
  <2>2. /\ k \in 1..Len(q) /\ q[k].kind # "delta"
        /\ \A i \in 1..k - 1 : q[i].kind = "delta"
    BY <1>0, <2>1
  <2>3. live = k
    BY <1>4, <1>7 DEF k
  <2>4. kept = SubSeq(q, k, Len(q))
    BY <2>2, <2>3
  <2> HIDE DEF I, live, kept
  <2>5. /\ kept \in Seq(QueuedFrame) /\ Len(kept) = Len(q) - k + 1
        /\ \A i \in 1..Len(kept) : kept[i] = q[i + (k - 1)]
    <3>1. \A i \in k..Len(q) : q[i] \in QueuedFrame
      BY <1>0, <2>2
    <3>2. kept \in Seq(QueuedFrame)
      BY <1>0, <2>2, <2>4, <3>1, SubSeqProperties
    <3>3. /\ Len(kept) = Len(q) - k + 1
          /\ \A i \in 1..Len(kept) : kept[i] = q[i + (k - 1)]
      BY <1>0, <2>2, <2>4, SubSeqProperties
    <3> QED BY <3>2, <3>3
  <2>6. r = kept
    BY <1>3, <2>5
  <2>7. Segment(r, q, k - 1) /\ Len(r) + (k - 1) = Len(q)
    <3>1. k - 1 \in 0..Len(q) /\ Len(r) + (k - 1) = Len(q)
      <4>1. Len(q) \in Nat /\ k \in 1..Len(q) /\ Len(r) = Len(q) - k + 1
        BY <1>0, <2>2, <2>5, <2>6
      <4> QED BY <4>1
    <3>2. \A i \in 1..Len(r) : Like(r[i], q[i + (k - 1)])
      BY <2>5, <2>6 DEF Like
    <3> QED BY <1>0, <3>1, <3>2 DEF Segment
  <2>8. r # <<>> => r[1].kind # "delta"
    <3>1. k \in Nat /\ r \in Seq(QueuedFrame) /\ \A i \in 1..Len(r) : r[i] = q[i + (k - 1)]
      BY <1>0, <2>2, <2>5, <2>6
    <3>2. r # <<>> => 1 \in 1..Len(r) /\ r[1] = q[1 + (k - 1)]
      BY <3>1
    <3>3. 1 + (k - 1) = k
      BY <3>1
    <3> QED BY <2>2, <3>2, <3>3
  <2>9. FromKeyframe(r, q, k - 1)
    BY <2>2, <2>7, <2>8 DEF FromKeyframe
  <2> QED BY <1>0, <2>2, <2>5, <2>6, <2>8, <2>9
<1> QED BY <1>6, <1>7

\* A part of a queue is chained when its head is.
LEMMA ChainSegment ==
  ASSUME NEW q, NEW r, Len(q) \in Nat, Len(r) \in Nat, NEW d, Segment(r, q, d),
         NEW s, NEW w, NEW s2, NEW w2, ChainOK(q, s, w),
         r # <<>> /\ r[1].kind = "delta" => s2 = r[1].n - 1 \/ Doomed(w2)
  PROVE  ChainOK(r, s2, w2)
<1> SUFFICES ASSUME NEW i \in 1..Len(r), r[i].kind = "delta"
             PROVE  IF i = 1 THEN s2 = r[i].n - 1 \/ Doomed(w2)
                    ELSE r[i - 1].kind # "cached" /\ r[i - 1].n = r[i].n - 1
  BY DEF ChainOK
<1>1. CASE i = 1
  BY <1>1
<1>2. CASE i # 1
  <2>1. /\ d \in Nat /\ i - 1 \in 1..Len(r) /\ i + d \in 1..Len(q) /\ i + d # 1
        /\ (i - 1) + d = (i + d) - 1
    BY <1>2 DEF Segment
  <2>2. Like(r[i], q[i + d]) /\ Like(r[i - 1], q[(i + d) - 1])
    BY <2>1 DEF Segment
  <2> QED BY <1>2, <2>1, <2>2 DEF ChainOK, Like
<1> QED BY <1>1, <1>2

\* A rest of a queue has its last frame.
LEMMA LastSegment ==
  ASSUME NEW q, NEW r, Len(q) \in Nat, Len(r) \in Nat, NEW d, Segment(r, q, d),
         Len(r) + d = Len(q), r # <<>>, Len(r) # 0, NEW s, NEW w, NEW s2, NEW w2, NEW y,
         LastIs(q, s, w, y)
  PROVE  LastIs(r, s2, w2, y)
<1>1. d \in Nat /\ Len(r) \in 1..Len(r) /\ Len(q) # 0
  BY DEF Segment
<1>2. Like(r[Len(r)], q[Len(q)])
  BY <1>1 DEF Segment
<1>3. q # <<>>
  BY <1>1
<1> QED BY <1>2, <1>3 DEF LastIs, Like

(***************************************************************************)
(* What a step does to the gate, the queue and the worker.                 *)
(***************************************************************************)
SenderTypes ==
  /\ gate \in Gate /\ seq \in Numbers /\ pacer \in Seq(QueuedFrame)
  /\ worker \in WorkerRecords /\ synced \in FrameIndex

\* The gate counts right; it lets deltas pass only if it did before; the queue
\* stays chained, and its last frame the one that the viewer decodes last.
SenderKept ==
  /\ GatesOK(gate', pacer', worker')
  /\ Passing(gate') => Passing(gate)
  /\ ChainOK(pacer, synced, worker) =>
       /\ ChainOK(pacer', synced', worker')
       /\ Passing(gate') => \A y \in Nat :
            LastIs(pacer, synced, worker, y) => LastIs(pacer', synced', worker', y)

\* The fields of a worker's record.
LEMMA WorkerFields ==
  ASSUME NEW w \in WorkerRecords
  PROVE  /\ w.pc \in {"idle", "selected", "sending", "done", "over"}
         /\ w.stale \in BOOLEAN
         /\ w.ok \in BOOLEAN /\ w.frame.kind \in Kinds /\ w.frame.n \in FrameIndex
         /\ w.frame.ticket \in Nat
BY DEF WorkerRecords

\* The record of a worker at a place.
LEMMA WorkerAtIs ==
  ASSUME NEW pc \in {"idle", "selected", "sending", "done", "over"}
  PROVE  /\ WorkerAt(pc) \in WorkerRecords /\ WorkerAt(pc).pc = pc
         /\ WorkerAt(pc).stale = FALSE
BY VideoSendAssumption DEF WorkerAt, WorkerRecords, NoQueued, Kinds, FrameIndex

\* The record of a frame that left the queue.
LEMMA DoneIs ==
  ASSUME NEW f, Framed(f), NEW ok \in BOOLEAN, NEW w,
         \/ w = [WorkerAt("done") EXCEPT !.frame.kind = f.kind, !.frame.n = f.n,
                                         !.frame.ticket = f.ticket, !.ok = TRUE] /\ ok
         \/ w = [WorkerAt("done") EXCEPT !.frame.kind = f.kind, !.frame.n = f.n,
                                         !.frame.ticket = f.ticket] /\ ~ok
  PROVE  /\ w \in WorkerRecords /\ w.pc = "done" /\ w.ok = ok
         /\ Like(w.frame, f) /\ w.frame.kind = f.kind
<1> DEFINE frame == [kind |-> f.kind, n |-> f.n, ticket |-> f.ticket]
           v == [pc |-> "done", stale |-> FALSE, frame |-> frame, ok |-> ok]
<1>1. w = v
  BY DEF WorkerAt, NoQueued
<1>2. frame \in [kind: Kinds, n: FrameIndex, ticket: Nat]
  BY VideoSendAssumption DEF Framed, FrameIndex
<1>3. Like(frame, f)
  BY DEF Like
<1> HIDE DEF frame
<1>4. v \in WorkerRecords /\ v.pc = "done" /\ v.ok = ok /\ v.frame = frame
  BY <1>2 DEF WorkerRecords
<1> QED BY <1>1, <1>3, <1>4 DEF Like

\* A part of itself.
LEMMA SegmentSelf ==
  ASSUME NEW q, Len(q) \in Nat
  PROVE  Segment(q, q, 0)
BY DEF Segment, Like

\* The discard after the current frame.
LEMMA DiscardTypes ==
  ASSUME SenderTypes, WorkerOK(pacer, worker, stopping), DiscardAndReclaim
  PROVE  /\ pacer' \in Seq(QueuedFrame) /\ seq' \in Numbers
         /\ worker' \in WorkerRecords
         /\ SameDone(worker, worker') /\ WorkerOK(pacer', worker', stopping)
         /\ Segment(pacer', pacer, 0) /\ Len(pacer) \in Nat /\ Len(pacer') \in 0..1
         /\ pacer' # <<>> => pacer # <<>> /\ pacer'[1] = pacer[1]
<1>1. /\ pacer' = AfterCurrent(pacer) /\ seq' = Reclaimed(seq, Unsent(pacer))
      /\ worker' = [worker EXCEPT !.stale = @ \/ Discarded(pacer) # <<>>]
      /\ pacer \in Seq(QueuedFrame) /\ worker \in WorkerRecords /\ seq \in Numbers
  BY DEF DiscardAndReclaim, SenderTypes
<1>2. seq' \in Numbers
  <2>1. Unsent(pacer) \in Nat /\ seq \in Int
    BY <1>1, UnsentType DEF Numbers
  <2> QED BY <1>1, <2>1, VideoSendAssumption DEF Reclaimed, Numbers
<1>3. PICK b \in BOOLEAN : /\ worker' = [worker EXCEPT !.stale = b]
                           /\ Discarded(pacer) # <<>> => b
                           /\ worker.stale => b
  <2>1. (worker.stale \/ Discarded(pacer) # <<>>) \in BOOLEAN
    OBVIOUS
  <2> QED BY <1>1, <2>1
<1>4. /\ worker' \in WorkerRecords /\ worker'.pc = worker.pc
      /\ worker'.ok = worker.ok
      /\ worker'.frame = worker.frame /\ worker'.stale = b
  BY <1>1, <1>3 DEF WorkerRecords
<1>5. SameDone(worker, worker')
  BY <1>4 DEF SameDone, Done
<1>6. /\ pacer' \in Seq(QueuedFrame) /\ Len(pacer') \in 0..1
      /\ Segment(pacer', pacer, 0)
      /\ pacer' # <<>> => pacer # <<>> /\ pacer'[1] = pacer[1]
      /\ pacer # <<>> /\ pacer[1].next > 0 => pacer' # <<>>
      /\ pacer # <<>> /\ pacer' = <<>> => Discarded(pacer) # <<>>
  BY <1>1, CurrentIs
<1>7. \A i \in 1..Len(pacer') : ~(i > 1)
  <2>1. PICK k \in 0..1 : k = Len(pacer')
    BY <1>6
  <2>2. \A i \in 1..k : ~(i > 1)
    OBVIOUS
  <2> QED BY <2>1, <2>2
<1>8. WorkerOK(pacer', worker', stopping)
  BY <1>3, <1>4, <1>6, <1>7 DEF WorkerOK
<1> QED BY <1>1, <1>2, <1>4, <1>5, <1>6, <1>8

\* A queue's frames have tickets.
LEMMA Tickets ==
  ASSUME SenderTypes
  PROVE  /\ \A i \in 1..Len(pacer) : pacer[i].ticket \in Nat
         /\ worker.frame.ticket \in Nat /\ Len(pacer) \in Nat
BY QueueFrames, WorkerFields DEF SenderTypes, Framed

\* Closing the gate, with the discard or without.
LEMMA ClosingKeeps ==
  ASSUME SenderTypes, WorkerOK(pacer, worker, stopping), GatesOK(gate, pacer, worker),
         gate' \in Gate, Closes(gate, gate'), UNCHANGED synced,
         DiscardAndReclaim \/ UNCHANGED <<pacer, worker>>
  PROVE  SenderKept /\ ~Passing(gate')
<1>1. /\ Segment(pacer', pacer, 0) /\ Len(pacer') \in Nat
      /\ SameDone(worker, worker')
      /\ pacer' # <<>> => pacer'[1] = pacer[1] /\ pacer # <<>>
  <2>1. CASE DiscardAndReclaim
    BY <2>1, DiscardTypes
  <2>2. CASE UNCHANGED <<pacer, worker>>
    BY <2>2, SegmentSelf, Tickets DEF SameDone
  <2> QED BY <2>1, <2>2
<1>2. TicketsOK(gate, pacer, worker) /\ gate \in Gate
  BY DEF GatesOK, SenderTypes
<1>3. Done(worker') => Done(worker) /\ worker'.frame = worker.frame
  BY <1>1 DEF SameDone
<1>4. GatesOK(gate', pacer', worker') /\ ~Passing(gate')
  BY <1>1, <1>2, <1>3, Tickets, GateCloses
<1>5. ASSUME ChainOK(pacer, synced, worker)
      PROVE  ChainOK(pacer', synced', worker')
  <2>1. pacer' # <<>> /\ pacer'[1].kind = "delta" =>
          synced' = pacer'[1].n - 1 \/ Doomed(worker')
    BY <1>1, <1>5, Tickets DEF ChainOK, Doomed, SameDone
  <2> QED BY <1>1, <1>5, <2>1, Tickets, ChainSegment
<1> QED BY <1>4, <1>5 DEF SenderKept

\* A step that leaves the gate's counts and each frame of the queue, none of
\* them done.
LEMMA LeavingKeeps ==
  ASSUME SenderTypes, GatesOK(gate, pacer, worker),
         gate' \in Gate, Leaves(gate, gate'), UNCHANGED synced,
         Len(pacer') = Len(pacer), Segment(pacer', pacer, 0), SameDone(worker, worker')
  PROVE  SenderKept
<1>1. gate \in Gate /\ Len(pacer) \in Nat
  BY Tickets DEF SenderTypes
<1>2. GatesOK(gate', pacer', worker') /\ (Passing(gate') => Passing(gate))
  BY <1>1, GateLeaves
<1>3. Doomed(worker) <=> Doomed(worker')
  BY DEF Doomed, SameDone
<1>4. ASSUME ChainOK(pacer, synced, worker)
      PROVE  ChainOK(pacer', synced', worker')
  <2>1. pacer' # <<>> /\ pacer'[1].kind = "delta" =>
          synced' = pacer'[1].n - 1 \/ Doomed(worker')
    <3> HAVE pacer' # <<>> /\ pacer'[1].kind = "delta"
    <3>1. 1 \in 1..Len(pacer') /\ 1 \in 1..Len(pacer)
      BY <1>1
    <3>2. Like(pacer'[1], pacer[1 + 0])
      BY <3>1 DEF Segment
    <3> QED BY <1>3, <1>4, <3>1, <3>2 DEF ChainOK, Like
  <2> QED BY <1>1, <1>4, <2>1, ChainSegment
<1>5. ASSUME NEW y \in Nat, LastIs(pacer, synced, worker, y)
      PROVE  LastIs(pacer', synced', worker', y)
  <2>1. CASE Len(pacer) = 0
    BY <1>1, <1>3, <1>5, <2>1 DEF LastIs
  <2>2. CASE Len(pacer) # 0
    BY <1>1, <1>5, <2>2, LastSegment
  <2> QED BY <2>1, <2>2
<1> QED BY <1>2, <1>4, <1>5 DEF SenderKept

\* A step that moves neither.
LEMMA WorkerUnchanged ==
  ASSUME WorkerOK(pacer, worker, stopping), UNCHANGED <<pacer, worker, stopping>>
  PROVE  WorkerOK(pacer', worker', stopping')
OBVIOUS

\* A frame leaves the queue, sent whole or not.
LEMMA LeftKeeps ==
  ASSUME SenderTypes, WorkerOK(pacer, worker, stopping), worker.pc = "sending",
         pacer # <<>>, pacer' = Tail(pacer), UNCHANGED <<gate, seq, stopping>>,
         worker' \in WorkerRecords, worker'.pc = "done", Like(worker'.frame, pacer[1]),
         synced' \in FrameIndex,
         worker'.ok /\ synced' # pacer[1].n =>
           /\ pacer[1].kind # "key"
           /\ pacer[1].kind = "delta" => synced # pacer[1].n - 1
  PROVE  /\ SenderTypes' /\ WorkerOK(pacer', worker', stopping')
         /\ GatesOK(gate, pacer, worker) => SenderKept
<1>1. /\ pacer \in Seq(QueuedFrame) /\ gate \in Gate /\ worker \in WorkerRecords
      /\ Len(pacer) \in Nat /\ 1 \in 1..Len(pacer) /\ worker'.ok \in BOOLEAN
  BY WorkerFields DEF SenderTypes
<1>2. /\ pacer' \in Seq(QueuedFrame) /\ Len(pacer') = Len(pacer) - 1
      /\ \A i \in 1..Len(pacer') : pacer'[i] = pacer[i + 1]
  BY <1>1, HeadTailProperties
<1>3. SenderTypes'
  BY <1>2 DEF SenderTypes
<1>4. WorkerOK(pacer', worker', stopping')
  BY <1>1, <1>2 DEF WorkerOK
<1>5. /\ Segment(pacer', pacer, 1) /\ Len(pacer') + 1 = Len(pacer)
      /\ Len(pacer') \in Nat
  BY <1>1, <1>2 DEF Segment, Like
<1>6. Done(worker') /\ ~Done(worker) /\ ~Doomed(worker)
  BY DEF Done, Doomed
<1>7. ASSUME GatesOK(gate, pacer, worker) PROVE SenderKept
  <2>1. GatesOK(gate', pacer', worker')
    BY <1>1, <1>5, <1>6, <1>7, GateFinishes
  <2>2. ASSUME ChainOK(pacer, synced, worker), worker'.ok, pacer[1].kind # "cached"
        PROVE  synced' = pacer[1].n
    <3>1. pacer[1].kind = "delta" => synced = pacer[1].n - 1
      BY <1>1, <1>6, <2>2 DEF ChainOK
    <3>2. pacer[1].kind \in Kinds
      BY <1>1, QueueFrames DEF Framed
    <3> QED BY <2>2, <3>1, <3>2 DEF Kinds
  <2>3. ASSUME ChainOK(pacer, synced, worker)
        PROVE  ChainOK(pacer', synced', worker')
    <3>1. pacer' # <<>> /\ pacer'[1].kind = "delta" =>
            synced' = pacer'[1].n - 1 \/ Doomed(worker')
      <4> HAVE pacer' # <<>> /\ pacer'[1].kind = "delta"
      <4>1. /\ pacer'[1] = pacer[2] /\ 2 \in 1..Len(pacer)
        BY <1>1, <1>2
      <4>2. pacer[1].kind # "cached" /\ pacer[1].n = pacer[2].n - 1
        BY <2>3, <4>1 DEF ChainOK
      <4> QED BY <1>6, <2>2, <2>3, <4>1, <4>2 DEF Doomed
    <3> QED BY <1>1, <1>5, <2>3, <3>1, ChainSegment
  <2>4. ASSUME ChainOK(pacer, synced, worker),
               NEW y \in Nat, LastIs(pacer, synced, worker, y)
        PROVE  LastIs(pacer', synced', worker', y)
    <3>1. CASE Len(pacer') = 0
      <4>1. pacer' = <<>> /\ Len(pacer) = 1
        BY <1>2, <1>5, <3>1
      <4>2. pacer[1].kind # "cached" /\ pacer[1].n = y
        BY <2>4, <4>1 DEF LastIs
      <4> QED BY <1>6, <2>2, <2>4, <4>1, <4>2 DEF LastIs, Doomed
    <3>2. CASE Len(pacer') # 0
      <4>1. pacer' # <<>>
        BY <3>2
      <4> QED BY <1>1, <1>5, <2>4, <3>2, <4>1, LastSegment
    <3> QED BY <3>1, <3>2
  <2>5. Passing(gate') => Passing(gate)
    OBVIOUS
  <2> QED BY <2>1, <2>3, <2>4, <2>5 DEF SenderKept
<1> QED BY <1>3, <1>4, <1>7

\* A keyframe request discards the queue only when no live keyframe is pending.
LEMMA RequestKeeps ==
  ASSUME SenderTypes, WorkerOK(pacer, worker, stopping), NEW v, KeyframeRequest(v)
  PROVE  /\ SenderTypes' /\ WorkerOK(pacer', worker', stopping')
         /\ GatesOK(gate, pacer, worker) => SenderKept
<1>1. /\ gate' = DecoderKeyframeRequest(gate) /\ UNCHANGED <<stopping, synced>>
      /\ IF NeedsNewLiveKeyframe(gate)
           THEN DiscardAndReclaim ELSE UNCHANGED <<seq, pacer, worker>>
  BY DEF KeyframeRequest, ghosts
<1>2. gate' \in Gate /\ Leaves(gate, gate') /\ gate \in Gate
  BY <1>1, RequestIs DEF SenderTypes
<1>3. CASE NeedsNewLiveKeyframe(gate)
  <2>1. DiscardAndReclaim /\ gate.pendingLive = 0 /\ gate.awaiting
    BY <1>1, <1>3 DEF NeedsNewLiveKeyframe
  <2>2. SenderTypes' /\ WorkerOK(pacer', worker', stopping')
    BY <1>1, <1>2, <2>1, DiscardTypes DEF SenderTypes
  <2>3. ASSUME GatesOK(gate, pacer, worker) PROVE SenderKept
    <3>1. /\ Segment(pacer', pacer, 0) /\ Len(pacer') \in Nat
          /\ SameDone(worker, worker')
          /\ pacer' # <<>> => pacer'[1] = pacer[1] /\ pacer # <<>>
      BY <2>1, DiscardTypes
    <3>2. GatesOK(gate', pacer', worker')
      BY <1>2, <2>1, <2>3, <3>1, Tickets, GateDiscards
    <3>3. ~Passing(gate')
      BY <1>2, <2>1, GateFields DEF Leaves, Passing
    <3>4. ASSUME ChainOK(pacer, synced, worker)
          PROVE  ChainOK(pacer', synced', worker')
      <4>1. pacer' # <<>> /\ pacer'[1].kind = "delta" =>
              synced' = pacer'[1].n - 1 \/ Doomed(worker')
        BY <1>1, <3>1, <3>4, Tickets DEF ChainOK, Doomed, SameDone
      <4> QED BY <3>1, <3>4, <4>1, Tickets, ChainSegment
    <3> QED BY <3>2, <3>3, <3>4 DEF SenderKept
  <2> QED BY <2>2, <2>3
<1>4. CASE ~NeedsNewLiveKeyframe(gate)
  <2>1. UNCHANGED <<seq, pacer, worker, stopping, synced>>
    BY <1>1, <1>4
  <2>2. SenderTypes' /\ WorkerOK(pacer', worker', stopping')
    BY <1>2, <2>1, WorkerUnchanged DEF SenderTypes
  <2>3. ASSUME GatesOK(gate, pacer, worker) PROVE SenderKept
    <3>1. /\ Len(pacer') = Len(pacer) /\ Segment(pacer', pacer, 0)
          /\ SameDone(worker, worker') /\ UNCHANGED synced
      BY <2>1, Tickets, SegmentSelf DEF SameDone
    <3> QED BY <1>2, <2>3, <3>1, LeavingKeeps
  <2> QED BY <2>2, <2>3
<1> QED BY <1>3, <1>4

\* The worker picks the front frame.
LEMMA SelectKeeps ==
  ASSUME SenderTypes, WorkerOK(pacer, worker, stopping), WorkerSelects
  PROVE  /\ SenderTypes' /\ WorkerOK(pacer', worker', stopping')
         /\ GatesOK(gate, pacer, worker) => SenderKept
<1>1. /\ worker.pc = "idle" /\ pacer # <<>> /\ worker' = WorkerAt("selected")
      /\ UNCHANGED <<gate, seq, pacer, stopping, synced>>
  BY DEF WorkerSelects, ghosts
<1>2. worker' \in WorkerRecords /\ worker'.pc = "selected"
  BY <1>1, WorkerAtIs
<1>3. SenderTypes'
  BY <1>1, <1>2 DEF SenderTypes
<1>4. WorkerOK(pacer', worker', stopping')
  BY <1>1, <1>2 DEF WorkerOK
<1>5. /\ SameDone(worker, worker') /\ Leaves(gate, gate') /\ gate' \in Gate
      /\ Len(pacer') = Len(pacer) /\ Segment(pacer', pacer, 0)
  BY <1>1, <1>2, Tickets, SegmentSelf DEF SameDone, Done, Leaves, SenderTypes
<1> QED BY <1>1, <1>3, <1>4, <1>5, LeavingKeeps

\* It takes a packet of the front frame, or sees that the queue was changed.
LEMMA TakeKeeps ==
  ASSUME SenderTypes, WorkerOK(pacer, worker, stopping), WorkerTakes
  PROVE  /\ SenderTypes' /\ WorkerOK(pacer', worker', stopping')
         /\ GatesOK(gate, pacer, worker) => SenderKept
<1>1. worker.pc = "selected" /\ UNCHANGED <<gate, seq, stopping, synced>>
  BY DEF WorkerTakes
<1>2. CASE Reselects
  <2>1. worker' = WorkerAt("idle") /\ pacer' = pacer
    BY <1>2 DEF WorkerTakes
  <2>2. worker' \in WorkerRecords /\ worker'.pc = "idle"
    BY <2>1, WorkerAtIs
  <2>3. SenderTypes'
    BY <1>1, <2>1, <2>2 DEF SenderTypes
  <2>4. WorkerOK(pacer', worker', stopping')
    BY <1>1, <2>1, <2>2 DEF WorkerOK
  <2>5. /\ SameDone(worker, worker') /\ Leaves(gate, gate') /\ gate' \in Gate
        /\ Len(pacer') = Len(pacer) /\ Segment(pacer', pacer, 0)
    BY <1>1, <2>1, <2>2, Tickets, SegmentSelf DEF SameDone, Done, Leaves, SenderTypes
  <2> QED BY <1>1, <2>3, <2>4, <2>5, LeavingKeeps
<1>3. CASE ~Reselects
  <2>1. /\ worker' = WorkerAt("sending")
        /\ pacer' = [pacer EXCEPT ![1].next = @ + 1]
        /\ pacer # <<>>
    BY <1>1, <1>3 DEF WorkerTakes, Reselects, WorkerOK
  <2>2. worker' \in WorkerRecords /\ worker'.pc = "sending"
    BY <2>1, WorkerAtIs
  <2>3. pacer \in Seq(QueuedFrame) /\ Len(pacer) \in Nat /\ 1 \in 1..Len(pacer)
    BY <2>1 DEF SenderTypes
  <2>4. /\ pacer[1] \in QueuedFrame /\ pacer[1].next \in Nat
    BY <2>3, QueueFrames DEF Framed
  <2> DEFINE f == [pacer[1] EXCEPT !.next = @ + 1]
  <2>5. f \in QueuedFrame /\ Like(f, pacer[1]) /\ f.next > 0
    BY <2>4 DEF QueuedFrame, Like
  <2>6. pacer' = [pacer EXCEPT ![1] = f]
    BY <2>1
  <2> HIDE DEF f
  <2>7. /\ pacer' \in Seq(QueuedFrame) /\ Len(pacer') = Len(pacer) /\ pacer'[1] = f
        /\ \A i \in 1..Len(pacer) : i # 1 => pacer'[i] = pacer[i]
    BY <2>3, <2>5, <2>6
  <2>8. SenderTypes'
    BY <1>1, <2>2, <2>7 DEF SenderTypes
  <2>9. WorkerOK(pacer', worker', stopping')
    BY <2>2, <2>3, <2>5, <2>7 DEF WorkerOK
  <2>10. \A i \in 1..Len(pacer') : Like(pacer'[i], pacer[i])
    BY <2>5, <2>7 DEF Like
  <2>11. Segment(pacer', pacer, 0)
    BY <2>3, <2>7, <2>10 DEF Segment
  <2>12. SameDone(worker, worker') /\ Leaves(gate, gate') /\ gate' \in Gate
    BY <1>1, <2>2 DEF SameDone, Done, Leaves, SenderTypes
  <2> QED BY <1>1, <2>7, <2>8, <2>9, <2>11, <2>12, LeavingKeeps
<1> QED BY <1>2, <1>3

\* A packet is sent; with its last one the frame leaves the queue.
LEMMA SentKeeps ==
  ASSUME SenderTypes, WorkerOK(pacer, worker, stopping), PacketSent
  PROVE  /\ SenderTypes' /\ WorkerOK(pacer', worker', stopping')
         /\ GatesOK(gate, pacer, worker) => SenderKept
<1> DEFINE f == Head(pacer)
           last == f.next = f.size
<1>1. /\ worker.pc = "sending" /\ UNCHANGED <<gate, seq, stopping>>
      /\ pacer' = IF last THEN Tail(pacer) ELSE pacer
      /\ worker' = IF last
                     THEN [WorkerAt("done") EXCEPT !.frame.kind = f.kind,
                             !.frame.n = f.n, !.frame.ticket = f.ticket, !.ok = TRUE]
                     ELSE WorkerAt("idle")
      /\ synced' = IF ~last THEN synced
                   ELSE IF f.kind = "key" \/ (f.kind = "delta" /\ synced = f.n - 1)
                     THEN f.n
                   ELSE 0
  BY DEF PacketSent
<1>2. /\ pacer # <<>> /\ pacer[1].next > 0 /\ pacer \in Seq(QueuedFrame)
      /\ f = pacer[1]
  BY <1>1 DEF WorkerOK, SenderTypes
<1>3. Len(pacer) \in Nat /\ 1 \in 1..Len(pacer)
  BY <1>2
<1>4. Framed(f)
  BY <1>2, <1>3, QueueFrames
<1> HIDE DEF f
<1>5. CASE ~last
  <2>1. worker' = WorkerAt("idle") /\ UNCHANGED <<pacer, synced>>
    BY <1>1, <1>5
  <2> HIDE DEF last
  <2>2. worker' \in WorkerRecords /\ worker'.pc = "idle"
    BY <2>1, WorkerAtIs
  <2>3. SenderTypes'
    BY <1>1, <2>1, <2>2 DEF SenderTypes
  <2>4. WorkerOK(pacer', worker', stopping')
    BY <1>1, <2>1, <2>2 DEF WorkerOK
  <2>5. /\ SameDone(worker, worker') /\ Leaves(gate, gate') /\ gate' \in Gate
        /\ Len(pacer') = Len(pacer) /\ Segment(pacer', pacer, 0)
    BY <1>1, <2>1, <2>2, Tickets, SegmentSelf DEF SameDone, Done, Leaves, SenderTypes
  <2> QED BY <2>1, <2>3, <2>4, <2>5, LeavingKeeps
<1>6. CASE last
  <2>1. /\ worker' = [WorkerAt("done") EXCEPT !.frame.kind = f.kind,
                             !.frame.n = f.n, !.frame.ticket = f.ticket, !.ok = TRUE]
        /\ pacer' = Tail(pacer)
        /\ synced' = IF f.kind = "key" \/ (f.kind = "delta" /\ synced = f.n - 1)
                       THEN f.n ELSE 0
    BY <1>1, <1>6
  <2> HIDE DEF last
  <2>2. /\ worker' \in WorkerRecords /\ worker'.pc = "done" /\ worker'.ok = TRUE
        /\ Like(worker'.frame, f)
    BY <1>4, <2>1, DoneIs
  <2>3. /\ synced' \in FrameIndex /\ UNCHANGED <<gate, seq, stopping>>
        /\ synced' # f.n => f.kind # "key" /\ (f.kind = "delta" => synced # f.n - 1)
    BY <1>1, <1>4, <2>1, VideoSendAssumption DEF Framed, FrameIndex
  <2> QED BY <1>1, <1>2, <2>1, <2>2, <2>3, LeftKeeps
<1> QED BY <1>5, <1>6

\* A packet fails, and its frame leaves the queue.
LEMMA FailedKeeps ==
  ASSUME SenderTypes, WorkerOK(pacer, worker, stopping), PacketFails
  PROVE  /\ SenderTypes' /\ WorkerOK(pacer', worker', stopping')
         /\ GatesOK(gate, pacer, worker) => SenderKept
<1> DEFINE f == Head(pacer)
<1>1. /\ worker.pc = "sending" /\ UNCHANGED <<gate, seq, stopping>>
      /\ pacer' = Tail(pacer) /\ synced' = 0
      /\ worker' = [WorkerAt("done") EXCEPT !.frame.kind = f.kind, !.frame.n = f.n,
                                            !.frame.ticket = f.ticket]
  BY DEF PacketFails
<1>2. /\ pacer # <<>> /\ pacer[1].next > 0 /\ pacer \in Seq(QueuedFrame)
      /\ f = pacer[1]
  BY <1>1 DEF WorkerOK, SenderTypes
<1>3. Len(pacer) \in Nat /\ 1 \in 1..Len(pacer)
  BY <1>2
<1>4. Framed(f)
  BY <1>2, <1>3, QueueFrames
<1> HIDE DEF f
<1>5. /\ worker' \in WorkerRecords /\ worker'.pc = "done" /\ worker'.ok = FALSE
      /\ Like(worker'.frame, f)
  BY <1>1, <1>4, DoneIs
<1>6. synced' \in FrameIndex
  BY <1>1, VideoSendAssumption DEF FrameIndex
<1> QED BY <1>1, <1>2, <1>5, <1>6, LeftKeeps

\* The completion of a frame.
LEMMA CompleteKeeps ==
  ASSUME SenderTypes, WorkerOK(pacer, worker, stopping), WorkerCompletes
  PROVE  /\ SenderTypes' /\ WorkerOK(pacer', worker', stopping')
         /\ peer.retired => UNCHANGED gate
         /\ ~peer.retired /\ GatesOK(gate, pacer, worker) => SenderKept
<1>1. /\ worker.pc = "done" /\ worker' = WorkerAt("idle")
      /\ UNCHANGED <<seq, stopping, synced>>
      /\ IF peer.retired
           THEN UNCHANGED <<gate, pacer>>
           ELSE /\ gate' = CompletedGate(worker.frame, worker.ok)
                /\ pacer' = IF worker.ok THEN pacer ELSE UntilKeyframe(pacer)
  BY DEF WorkerCompletes, ghosts
<1>2. /\ worker' \in WorkerRecords /\ worker'.pc = "idle" /\ ~Done(worker')
      /\ Done(worker)
  BY <1>1, WorkerAtIs DEF Done
<1>3. /\ pacer \in Seq(QueuedFrame) /\ Len(pacer) \in Nat /\ gate \in Gate
      /\ worker \in WorkerRecords /\ worker.ok \in BOOLEAN
      /\ worker.frame.kind \in Kinds
      /\ worker.frame.ticket \in Nat
      /\ pacer # <<>> => pacer[1].next = 0
      /\ \A i \in 1..Len(pacer) : pacer[i].next = 0
  <2>1. /\ pacer # <<>> => pacer[1].next = 0
        /\ \A i \in 1..Len(pacer) : i > 1 => pacer[i].next = 0
    BY <1>1 DEF WorkerOK
  <2>2. /\ pacer \in Seq(QueuedFrame) /\ gate \in Gate /\ worker \in WorkerRecords
    BY DEF SenderTypes
  <2>3. \A i \in 1..Len(pacer) : pacer[i].next = 0
    <3> TAKE i \in 1..Len(pacer)
    <3>1. i = 1 \/ i > 1
      BY <2>2
    <3>2. pacer # <<>>
      BY <2>2
    <3> QED BY <2>1, <3>1, <3>2
  <2> QED BY <2>1, <2>2, <2>3, WorkerFields
<1>4. CASE peer.retired
  <2>1. UNCHANGED <<gate, pacer, seq, stopping, synced>>
    BY <1>1, <1>4
  <2>2. SenderTypes'
    BY <1>2, <2>1 DEF SenderTypes
  <2>3. WorkerOK(pacer', worker', stopping')
    BY <1>2, <1>3, <2>1 DEF WorkerOK
  <2> QED BY <1>4, <2>1, <2>2, <2>3
<1>5. CASE ~peer.retired
  <2>1. /\ gate' = CompletedGate(worker.frame, worker.ok)
        /\ pacer' = IF worker.ok THEN pacer ELSE UntilKeyframe(pacer)
    BY <1>1, <1>5
  <2>2. GateAfter(gate, worker.frame, worker.ok, gate')
    BY <2>1 DEF GateAfter, CompletedGate
  <2>3. /\ pacer' \in Seq(QueuedFrame)
        /\ ~worker.ok => (pacer' # <<>> => pacer'[1].kind # "delta")
        /\ \E d \in Nat : /\ FromKeyframe(pacer', pacer, d)
                          /\ \A i \in 1..Len(pacer') : pacer'[i] = pacer[i + d]
                          /\ worker.ok => d = 0 /\ pacer' = pacer
    <3>1. CASE worker.ok
      <4>1. pacer' = pacer /\ Segment(pacer, pacer, 0)
        BY <1>3, <2>1, <3>1, SegmentSelf
      <4>2. FromKeyframe(pacer, pacer, 0)
        BY <1>3, <4>1 DEF FromKeyframe
      <4> QED BY <1>3, <3>1, <4>1, <4>2
    <3>2. CASE ~worker.ok
      <4>1. pacer' = UntilKeyframe(pacer)
        BY <2>1, <3>2
      <4> QED BY <1>3, <3>2, <4>1, UntilKeyframeIs
    <3> QED BY <3>1, <3>2
  <2>4. PICK d \in Nat : /\ FromKeyframe(pacer', pacer, d)
                         /\ \A i \in 1..Len(pacer') : pacer'[i] = pacer[i + d]
                         /\ worker.ok => d = 0 /\ pacer' = pacer
    BY <2>3
  <2>5. /\ Segment(pacer', pacer, d) /\ Len(pacer') + d = Len(pacer)
        /\ Len(pacer') \in Nat
    <3>1. pacer' \in Seq(QueuedFrame) /\ FromKeyframe(pacer', pacer, d)
      BY <2>3, <2>4
    <3>2. Len(pacer') \in Nat
      BY <3>1
    <3> QED BY <3>1, <3>2 DEF FromKeyframe
  <2>6. gate' \in Gate
    <3>1. CASE worker.frame.kind # "delta"
      <4>1. gate' = KeyframeSendCompleted(gate, worker.frame.ticket, worker.ok,
                                          worker.frame.kind = "cached")
        BY <2>2, <3>1 DEF GateAfter
      <4>2. PICK b \in BOOLEAN : b = (worker.frame.kind = "cached")
        OBVIOUS
      <4>3. gate' = KeyframeSendCompleted(gate, worker.frame.ticket, worker.ok, b)
        BY <4>1, <4>2
      <4>4. Completes(gate, worker.frame.ticket, worker.ok, b, gate')
        BY <1>3, <4>3, CompletedIs
      <4> QED BY <4>4 DEF Completes
    <3>2. CASE worker.frame.kind = "delta"
      <4>1. gate' = gate \/ gate' = RequireLiveKeyframe(gate, TRUE)
        BY <2>2, <3>2 DEF GateAfter
      <4> QED BY <1>3, <4>1, RequiredIs
    <3> QED BY <3>1, <3>2
  <2>7. SenderTypes'
    BY <1>1, <1>2, <2>3, <2>6 DEF SenderTypes
  <2>8. WorkerOK(pacer', worker', stopping')
    <3>1. \A i \in 1..Len(pacer') : pacer'[i].next = 0
      <4> TAKE i \in 1..Len(pacer')
      <4>1. i + d \in 1..Len(pacer) /\ pacer'[i] = pacer[i + d]
        BY <2>4, <2>5
      <4>2. pacer[i + d].next = 0
        BY <1>3, <4>1
      <4> QED BY <4>1, <4>2
    <3> QED BY <1>2, <3>1 DEF WorkerOK
  <2>9. ASSUME GatesOK(gate, pacer, worker) PROVE SenderKept
    <3>1. /\ GatesOK(gate', pacer', worker') /\ (Passing(gate') => Passing(gate))
          /\ Passing(gate') /\ ~worker.ok => HasLive(pacer')
      <4>1. /\ gate \in Gate /\ pacer \in Seq(QueuedFrame)
            /\ pacer' \in Seq(QueuedFrame)
            /\ FromKeyframe(pacer', pacer, d) /\ worker \in WorkerRecords
            /\ Done(worker) /\ ~Done(worker') /\ (worker.ok => d = 0)
        BY <1>2, <1>3, <2>3, <2>4
      <4> QED BY <2>2, <2>9, <4>1, GateCompletes
    <3>2. worker.ok => ~Doomed(worker)
      BY DEF Doomed
    <3>3. ASSUME ChainOK(pacer, synced, worker)
          PROVE  ChainOK(pacer', synced', worker')
      <4>1. pacer' # <<>> /\ pacer'[1].kind = "delta" =>
              synced' = pacer'[1].n - 1 \/ Doomed(worker')
        <5> HAVE pacer' # <<>> /\ pacer'[1].kind = "delta"
        <5>1. worker.ok /\ pacer' = pacer
          BY <2>3, <2>4
        <5>2. 1 \in 1..Len(pacer)
          BY <1>3, <5>1
        <5> QED BY <1>1, <3>2, <3>3, <5>1, <5>2 DEF ChainOK
      <4> QED BY <1>3, <2>5, <3>3, <4>1, ChainSegment
    <3>4. ASSUME Passing(gate'), NEW y \in Nat, LastIs(pacer, synced, worker, y)
          PROVE  LastIs(pacer', synced', worker', y)
      <4>1. CASE Len(pacer') = 0
        <5>1. worker.ok
          BY <3>1, <3>4, <4>1 DEF HasLive
        <5>2. pacer' = pacer /\ pacer = <<>>
          BY <1>3, <2>4, <4>1, <5>1
        <5> QED BY <1>1, <3>2, <3>4, <5>1, <5>2 DEF LastIs
      <4>2. CASE Len(pacer') # 0
        <5>1. pacer' # <<>>
          BY <4>2
        <5> QED BY <1>3, <2>5, <3>4, <4>2, <5>1, LastSegment
      <4> QED BY <4>1, <4>2
    <3> QED BY <3>1, <3>3, <3>4 DEF SenderKept
  <2> QED BY <1>5, <2>7, <2>8, <2>9
<1> QED BY <1>4, <1>5

\* The live keyframes that are pending are pending.
LEMMA LiveIsPending ==
  ASSUME NEW g \in Gate, NEW q, Len(q) \in Nat, NEW w, CountsOK(g, q, w)
  PROVE  g.pendingLive <= g.pending
<1>1. Places(q, {"key"}, g.generation) \in SUBSET Places(q, Keys, g.generation)
  BY DEF Places, Keys
<1>2. /\ IsFiniteSet(Places(q, Keys, g.generation))
      /\ CountOf(q, Keys, g.generation) \in Nat
      /\ CountOf(q, {"key"}, g.generation) \in Nat
  BY PlacesFinite
<1>3. CountOf(q, {"key"}, g.generation) <= CountOf(q, Keys, g.generation)
  BY <1>1, <1>2, FS_Subset DEF CountOf
<1>4. /\ Due(w, {"key"}, g.generation) \in Nat /\ Due(w, Keys, g.generation) \in Nat
      /\ Due(w, {"key"}, g.generation) <= Due(w, Keys, g.generation)
  BY DEF Due, Keys
<1> QED BY <1>2, <1>3, <1>4, GateFields DEF CountsOK

\* The frame that Queued appends.
QueuedAs(f, cachedReplay, size) ==
  [kind |-> IF cachedReplay THEN "cached" ELSE f.kind, n |-> f.n,
   ticket |-> IF f.kind = "key" THEN gate.generation ELSE 0,
   first |-> seq, size |-> size, next |-> 0]

\* What such a step makes of the queue.
QueueKept(f, cachedReplay) ==
  GatesOK(gate, pacer, worker) =>
    /\ GatesOK(gate', pacer', worker')
    /\ cachedReplay => SenderKept
    /\ f.kind = "delta" => Passing(gate) /\ gate' = gate
    /\ ~cachedReplay /\ ChainOK(pacer, synced, worker)
         /\ (f.kind = "delta" => LastIs(pacer, synced, worker, f.n - 1)) =>
            /\ ChainOK(pacer', synced', worker')
            /\ LastIs(pacer', synced', worker', f.n)

\* A frame joins the queue: a cached keyframe while the gate lets no delta pass;
\* a live one anywhere; a delta behind the frame it refers to.
Joins(f, cachedReplay) ==
  /\ f.kind \in {"key", "delta"} /\ f.n \in 1..MaxFrames
  /\ cachedReplay => f.kind = "key"
  /\ ~Refuses(f, cachedReplay) /\ Queued(f, cachedReplay)
  /\ UNCHANGED <<stopping, synced>>

LEMMA QueueKeeps ==
  ASSUME SenderTypes, WorkerOK(pacer, worker, stopping),
         NEW f, NEW cachedReplay \in BOOLEAN, Joins(f, cachedReplay)
  PROVE  /\ SenderTypes' /\ WorkerOK(pacer', worker', stopping')
         /\ QueueKept(f, cachedReplay)
<1>0. /\ f.kind \in {"key", "delta"} /\ f.n \in 1..MaxFrames
      /\ cachedReplay => f.kind = "key"
      /\ ~Refuses(f, cachedReplay) /\ Queued(f, cachedReplay)
      /\ UNCHANGED <<stopping, synced>>
  BY DEF Joins
<1> USE <1>0
<1>1. PICK size \in Sizes :
        /\ pacer' = Append(pacer, QueuedAs(f, cachedReplay, size))
        /\ seq' = (seq + size) % SeqModulus
        /\ gate' = IF f.kind = "key" THEN KeyframeQueued(gate, cachedReplay) ELSE gate
        /\ UNCHANGED worker
  BY DEF Queued, QueuedAs
<1>2. CanQueueFrame(gate, f.kind = "key", cachedReplay)
  BY DEF Refuses
<1>3. /\ pacer \in Seq(QueuedFrame) /\ gate \in Gate /\ seq \in Numbers
      /\ worker \in WorkerRecords /\ Len(pacer) \in Nat /\ gate.generation \in Nat
      /\ size \in Nat \ {0}
  BY VideoSendAssumption, GateFields DEF SenderTypes
<1> DEFINE frame == QueuedAs(f, cachedReplay, size)
<1>4. /\ frame \in QueuedFrame /\ frame.n = f.n /\ frame.next = 0
      /\ frame.kind = IF cachedReplay THEN "cached" ELSE f.kind
      /\ frame.ticket = IF f.kind = "key" THEN gate.generation ELSE 0
  BY <1>3 DEF QueuedAs, QueuedFrame
<1> HIDE DEF frame
<1>5. /\ pacer' = Append(pacer, frame)
  BY <1>1 DEF frame
<1>6. /\ pacer' \in Seq(QueuedFrame) /\ Len(pacer') = Len(pacer) + 1
      /\ pacer'[Len(pacer) + 1] = frame /\ pacer' # <<>>
      /\ \A i \in 1..Len(pacer) : pacer'[i] = pacer[i]
  BY <1>3, <1>4, <1>5
<1>7. seq' \in Numbers
  BY <1>1, <1>3, VideoSendAssumption DEF Numbers
<1> DEFINE Joined ==
             /\ gate' \in Gate
             /\ GatesOK(gate, pacer, worker) =>
                  /\ GatesOK(gate', pacer', worker')
                  /\ cachedReplay => ~Passing(gate') /\ frame.kind = "cached"
             /\ f.kind = "delta" => Passing(gate) /\ gate' = gate
<1>8. ASSUME f.kind = "key" PROVE Joined
  <2>1. gate' = KeyframeQueued(gate, cachedReplay)
    BY <1>1, <1>8
  <2>2. /\ gate' \in Gate /\ gate'.generation = gate.generation
        /\ gate'.awaiting = gate.awaiting /\ gate'.pending = gate.pending + 1
        /\ gate'.pendingLive = gate.pendingLive + IF cachedReplay THEN 0 ELSE 1
    BY <1>3, <2>1, QueuedIs
  <2>3. frame.kind \in Keys /\ (frame.kind = "key" <=> ~cachedReplay)
    BY <1>4, <1>8 DEF Keys
  <2>4. GatesOK(gate, pacer, worker) => GatesOK(gate', pacer', worker')
    <3> HAVE GatesOK(gate, pacer, worker)
    <3>1. /\ gate'.pending = gate.pending + (IF frame.kind \in Keys THEN 1 ELSE 0)
          /\ gate'.pendingLive = gate.pendingLive + (IF frame.kind = "key" THEN 1 ELSE 0)
          /\ frame.kind \in Keys => frame.ticket = gate.generation
          /\ worker.frame.ticket \in Nat
      BY <1>4, <1>8, <2>2, <2>3, Tickets
    <3>2. GatesOK(gate', pacer', worker)
      BY <1>3, <1>4, <1>5, <2>2, <3>1, GateQueues
    <3> QED BY <1>1, <3>2
  <2>5. cachedReplay /\ GatesOK(gate, pacer, worker) => ~Passing(gate')
    <3> HAVE cachedReplay /\ GatesOK(gate, pacer, worker)
    <3>1. gate.awaiting /\ gate.pending = 0
      BY <1>2 DEF CanQueueFrame
    <3>2. gate.pendingLive <= gate.pending
      BY <1>3, LiveIsPending DEF GatesOK
    <3>3. gate'.awaiting /\ gate'.pendingLive = 0
      BY <1>3, <2>2, <3>1, <3>2, GateFields
    <3> QED BY <3>3 DEF Passing
  <2>6. gate' \in Gate /\ frame.kind # "delta"
    BY <2>2, <2>3 DEF Keys
  <2>7. cachedReplay => frame.kind = "cached"
    BY <1>4
  <2> QED BY <1>8, <2>4, <2>5, <2>6, <2>7
<1>9. ASSUME f.kind = "delta" PROVE Joined
  <2>1. gate' = gate /\ ~cachedReplay /\ frame.kind = "delta"
    BY <1>1, <1>4, <1>9
  <2>2. Passing(gate)
    BY <1>2, <1>9, <2>1 DEF CanQueueFrame, Passing
  <2>3. GatesOK(gate, pacer, worker) => GatesOK(gate', pacer', worker')
    <3> HAVE GatesOK(gate, pacer, worker)
    <3>1. /\ gate.pending = gate.pending + (IF frame.kind \in Keys THEN 1 ELSE 0)
          /\ gate.pendingLive = gate.pendingLive + (IF frame.kind = "key" THEN 1 ELSE 0)
          /\ frame.kind \in Keys => frame.ticket = gate.generation
          /\ worker.frame.ticket \in Nat
      BY <1>3, <2>1, Tickets, GateFields DEF Keys
    <3>2. GatesOK(gate, pacer', worker)
      BY <1>3, <1>4, <1>5, <3>1, GateQueues
    <3> QED BY <1>1, <2>1, <3>2
  <2> QED BY <1>3, <1>9, <2>1, <2>2, <2>3
<1>10. Joined
  BY <1>8, <1>9
<1>11. SenderTypes'
  BY <1>1, <1>6, <1>7, <1>10 DEF SenderTypes
<1>12. WorkerOK(pacer', worker', stopping')
  <2>1. /\ \A i \in 1..Len(pacer') : i > 1 => pacer'[i].next = 0
        /\ pacer = <<>> => pacer'[1] = frame
        /\ pacer # <<>> => pacer'[1] = pacer[1]
    <3>1. \A i \in 1..Len(pacer') : i > 1 => pacer'[i].next = 0
      <4> TAKE i \in 1..Len(pacer')
      <4>1. i \in 1..Len(pacer) \/ i = Len(pacer) + 1
        BY <1>3, <1>6
      <4> QED BY <1>4, <1>6, <4>1 DEF WorkerOK
    <3> QED BY <1>3, <1>6, <3>1
  <2> QED BY <1>1, <1>4, <1>6, <2>1 DEF WorkerOK
<1>13. ASSUME ChainOK(pacer, synced, worker),
              frame.kind = "delta" => LastIs(pacer, synced, worker, frame.n - 1)
       PROVE  ChainOK(pacer', synced', worker')
  <2> SUFFICES ASSUME NEW i \in 1..Len(pacer'), pacer'[i].kind = "delta"
               PROVE  IF i = 1 THEN synced' = pacer'[i].n - 1 \/ Doomed(worker')
                      ELSE /\ pacer'[i - 1].kind # "cached"
                           /\ pacer'[i - 1].n = pacer'[i].n - 1
    BY DEF ChainOK
  <2>1. CASE i \in 1..Len(pacer)
    <3>1. i # 1 => i - 1 \in 1..Len(pacer)
      BY <1>3, <2>1
    <3> QED BY <1>1, <1>6, <1>13, <2>1, <3>1 DEF ChainOK
  <2>2. CASE i = Len(pacer) + 1
    <3>1. LastIs(pacer, synced, worker, frame.n - 1) /\ pacer'[i] = frame
      BY <1>6, <1>13, <2>2
    <3>2. CASE pacer = <<>>
      BY <1>1, <1>3, <2>2, <3>1, <3>2 DEF LastIs
    <3>3. CASE pacer # <<>>
      <4>1. i # 1 /\ i - 1 = Len(pacer) /\ Len(pacer) \in 1..Len(pacer)
        BY <1>3, <2>2, <3>3
      <4> QED BY <1>6, <3>1, <3>3, <4>1 DEF LastIs
    <3> QED BY <3>2, <3>3
  <2> QED BY <1>3, <1>6, <2>1, <2>2
<1>14. ~cachedReplay => LastIs(pacer', synced', worker', f.n)
  BY <1>4, <1>6 DEF LastIs
<1>15. GatesOK(gate, pacer, worker) /\ cachedReplay => SenderKept
  <2> HAVE GatesOK(gate, pacer, worker) /\ cachedReplay
  <2>1. GatesOK(gate', pacer', worker') /\ ~Passing(gate') /\ frame.kind # "delta"
    BY <1>10
  <2> QED BY <1>13, <2>1 DEF SenderKept
<1>16. ~cachedReplay => frame.kind = f.kind /\ frame.n = f.n
  BY <1>4
<1> QED BY <1>10, <1>11, <1>12, <1>13, <1>14, <1>15, <1>16 DEF QueueKept
(***************************************************************************)
(* The media queue.                                                        *)
(***************************************************************************)
Video(f) == f.kind # "audio"

\* The video frames of a media queue are those from x+1 to p, in order.
Ordered(o) == \A i \in 1..Len(o) : Video(o[i]) =>
                \A j \in 1..i - 1 : Video(o[j]) => o[j].n < o[i].n
Follows(o, p, x) ==
  /\ x <= p /\ Ordered(o)
  /\ \A i \in 1..Len(o) : Video(o[i]) => x < o[i].n /\ o[i].n <= p
  /\ \A n \in x + 1..p : \E i \in 1..Len(o) : Video(o[i]) /\ o[i].n = n

\* The fields of a frame.
LEMMA FrameFields ==
  ASSUME NEW f \in Frame
  PROVE  f.kind \in {"key", "delta", "audio"} /\ f.n \in FrameIndex /\ f.n \in Nat
BY VideoSendAssumption DEF Frame, FrameIndex

\* Without its head the rest of the queue follows what the head was.
LEMMA TailFollows ==
  ASSUME NEW o \in Seq(Frame), o # <<>>, NEW r, r = Tail(o), NEW p \in Nat, NEW x \in Nat,
         Follows(o, p, x)
  PROVE  /\ r \in Seq(Frame) /\ Len(r) = Len(o) - 1
         /\ Video(Head(o)) => Head(o).n = x + 1 /\ Follows(r, p, x + 1)
         /\ ~Video(Head(o)) => Follows(r, p, x)
<1>1. /\ Len(o) \in Nat /\ 1 \in 1..Len(o) /\ Head(o) = o[1] /\ r \in Seq(Frame)
      /\ Len(r) = Len(o) - 1 /\ \A i \in 1..Len(r) : r[i] = o[i + 1]
  BY HeadTailProperties
<1>2. \A i \in 1..Len(o) : o[i] \in Frame /\ o[i].n \in Nat
  BY <1>1, FrameFields
<1>3. \A i \in 1..Len(r) : i + 1 \in 1..Len(o)
  BY <1>1
<1>4. Ordered(r)
  <2> SUFFICES ASSUME NEW i \in 1..Len(r), Video(r[i]), NEW j \in 1..i - 1, Video(r[j])
               PROVE  r[j].n < r[i].n
    BY DEF Ordered
  <2>1. j \in 1..Len(r) /\ i + 1 \in 1..Len(o) /\ j + 1 \in 1..(i + 1) - 1
    BY <1>1
  <2> QED BY <1>1, <2>1 DEF Follows, Ordered
<1>5. ASSUME Video(Head(o)) PROVE Head(o).n = x + 1 /\ Follows(r, p, x + 1)
  <2>1. x < o[1].n /\ o[1].n <= p
    BY <1>1, <1>5 DEF Follows
  <2>2. x + 1 \in x + 1..p
    BY <1>1, <1>2, <2>1
  <2>3. PICK i \in 1..Len(o) : Video(o[i]) /\ o[i].n = x + 1
    BY <2>2 DEF Follows
  <2>4. o[1].n = x + 1
    <3>1. CASE i = 1
      BY <2>3, <3>1
    <3>2. CASE i # 1
      <4>1. 1 \in 1..i - 1
        BY <1>1, <3>2
      <4>2. o[1].n < o[i].n
        BY <1>1, <1>5, <2>3, <4>1 DEF Follows, Ordered
      <4> QED BY <1>1, <1>2, <2>1, <2>3, <4>2
    <3> QED BY <3>1, <3>2
  <2>5. \A k \in 1..Len(r) : Video(r[k]) => x + 1 < r[k].n /\ r[k].n <= p
    <3> TAKE k \in 1..Len(r)
    <3> HAVE Video(r[k])
    <3>1. k + 1 \in 1..Len(o) /\ 1 \in 1..(k + 1) - 1 /\ r[k] = o[k + 1]
      BY <1>1
    <3> QED BY <1>1, <1>5, <2>4, <3>1 DEF Follows, Ordered
  <2>6. \A n \in (x + 1) + 1..p : \E k \in 1..Len(r) : Video(r[k]) /\ r[k].n = n
    <3> TAKE n \in (x + 1) + 1..p
    <3>1. n \in x + 1..p /\ n # x + 1
      OBVIOUS
    <3>2. PICK k \in 1..Len(o) : Video(o[k]) /\ o[k].n = n
      BY <3>1 DEF Follows
    <3>3. k # 1 /\ k - 1 \in 1..Len(r) /\ r[k - 1] = o[k]
      BY <1>1, <2>4, <3>1, <3>2
    <3> QED BY <3>2, <3>3
  <2>7. x + 1 <= p
    BY <1>2, <2>2
  <2> QED BY <1>1, <1>4, <2>4, <2>5, <2>6, <2>7 DEF Follows
<1>6. ASSUME ~Video(Head(o)) PROVE Follows(r, p, x)
  <2>1. \A k \in 1..Len(r) : Video(r[k]) => x < r[k].n /\ r[k].n <= p
    BY <1>1, <1>3 DEF Follows
  <2>2. \A n \in x + 1..p : \E k \in 1..Len(r) : Video(r[k]) /\ r[k].n = n
    <3> TAKE n \in x + 1..p
    <3>1. PICK k \in 1..Len(o) : Video(o[k]) /\ o[k].n = n
      BY DEF Follows
    <3>2. k # 1 /\ k - 1 \in 1..Len(r) /\ r[k - 1] = o[k]
      BY <1>1, <1>6, <3>1
    <3> QED BY <3>1, <3>2
  <2> QED BY <1>4, <2>1, <2>2 DEF Follows
<1> QED BY <1>1, <1>5, <1>6

\* The next frame of the encoder joins the queue; audio changes nothing.
LEMMA AppendFollows ==
  ASSUME NEW o \in Seq(Frame), NEW f \in Frame, NEW r, r = Append(o, f),
         NEW p \in Nat, NEW c \in Nat, NEW x \in Nat, Follows(o, p, x),
         Video(f) => f.n = p + 1 /\ c = p + 1,
         ~Video(f) => c = p
  PROVE  r \in Seq(Frame) /\ Len(r) = Len(o) + 1 /\ Follows(r, c, x)
<1>1. /\ Len(o) \in Nat /\ r \in Seq(Frame) /\ Len(r) = Len(o) + 1
      /\ r[Len(o) + 1] = f
      /\ \A i \in 1..Len(o) : r[i] = o[i]
  OBVIOUS
<1>2. p <= c /\ x <= c /\ x <= p
  BY DEF Follows
<1>3. \A i \in 1..Len(o) : o[i] \in Frame /\ o[i].n \in Nat
  BY <1>1, FrameFields
<1>4. \A i \in 1..Len(r) : i \in 1..Len(o) \/ i = Len(o) + 1
  BY <1>1
<1>5. Ordered(r)
  <2> SUFFICES ASSUME NEW i \in 1..Len(r), Video(r[i]), NEW j \in 1..i - 1, Video(r[j])
               PROVE  r[j].n < r[i].n
    BY DEF Ordered
  <2>1. j \in 1..Len(o)
    BY <1>1
  <2>2. CASE i \in 1..Len(o)
    BY <1>1, <2>1, <2>2 DEF Follows, Ordered
  <2>3. CASE i = Len(o) + 1
    <3>1. r[i] = f /\ f.n = p + 1 /\ r[j] = o[j] /\ o[j].n <= p
      BY <1>1, <2>1, <2>3 DEF Follows
    <3> QED BY <1>3, <2>1, <3>1
  <2> QED BY <1>4, <2>2, <2>3
<1>6. \A i \in 1..Len(r) : Video(r[i]) => x < r[i].n /\ r[i].n <= c
  <2> TAKE i \in 1..Len(r)
  <2> HAVE Video(r[i])
  <2>1. CASE i \in 1..Len(o)
    <3>1. x < o[i].n /\ o[i].n <= p
      BY <1>1, <2>1 DEF Follows
    <3> QED BY <1>1, <1>2, <1>3, <2>1, <3>1
  <2>2. CASE i = Len(o) + 1
    BY <1>1, <1>2, <2>2
  <2> QED BY <1>4, <2>1, <2>2
<1>7. \A n \in x + 1..c : \E i \in 1..Len(r) : Video(r[i]) /\ r[i].n = n
  <2> TAKE n \in x + 1..c
  <2>1. CASE n \in x + 1..p
    <3>1. PICK i \in 1..Len(o) : Video(o[i]) /\ o[i].n = n
      BY <2>1 DEF Follows
    <3> QED BY <1>1, <3>1
  <2>2. CASE n \notin x + 1..p
    <3>1. Video(f) /\ n = f.n
      BY <2>2
    <3>2. Len(o) + 1 \in 1..Len(r)
      BY <1>1
    <3> QED BY <1>1, <3>1, <3>2
  <2> QED BY <2>1, <2>2
<1> QED BY <1>1, <1>2, <1>5, <1>6, <1>7 DEF Follows

(***************************************************************************)
(* The invariant.                                                          *)
(***************************************************************************)
\* The frames that were queued, and whether the media worker carries one.
Produced(e, c) == IF e = "key" THEN c - 1 ELSE c
Carries(m) == m.pc # "idle" /\ Video(m.frame)

OutputTypes ==
  /\ encoded \in FrameIndex /\ cached \in FrameIndex /\ encoder \in {"idle", "key"}
  /\ outq \in Seq(Frame) /\ Len(outq) <= QueueLimit
  /\ media \in [pc: {"idle", "taken", "targeted"}, frame: Frame]
  /\ peer \in [connected: BOOLEAN, retired: BOOLEAN, enabled: BOOLEAN]
  /\ viewer \in [Viewers -> [pc: {"idle", "copy", "prime", "reset"}, n: FrameIndex]]
  /\ sent \subseteq Numbers /\ {stopping, broken, overtaken} \subseteq BOOLEAN
  /\ counts \in [audio: Nat, losses: Nat, events: Nat]

\* A cached keyframe in the hands of a viewer's thread has a number.
PrimesOK == \A v \in Viewers : viewer[v].pc = "prime" => viewer[v].n >= 1

\* Frames are numbered from 1; a peer without a connection was never sent a
\* keyframe; only the release of a retired peer stops its pacer.
PlacesOK ==
  /\ Carries(media) => media.frame.n >= 1
  /\ media.pc = "targeted" => Video(media.frame)
  /\ PrimesOK
  /\ encoder = "key" => encoded >= 1
  /\ stopping => peer.retired
  /\ peer.connected => ~peer.retired
  /\ ~peer.retired /\ ~peer.connected => ~Passing(gate)

\* The media queue holds the video frames up to the last one produced.
OrderOK == \E x \in Nat : Follows(outq, Produced(encoder, encoded), x)

\* A frame that the media worker carries and the viewer may get is followed
\* by those in the media queue.
HandOK(m, o, p, g) ==
  Carries(m) /\ (m.frame.kind = "key" \/ Passing(g)) => Follows(o, p, m.frame.n)

\* While deltas pass, the last frame that the viewer will have decoded is
\* followed by the one that the media worker carries, or by the media queue.
NextIs(m, o, p, y) == IF Carries(m) THEN y = m.frame.n - 1 ELSE Follows(o, p, y)
EndOK(q, s, w, m, o, p) == \E y \in Nat : LastIs(q, s, w, y) /\ NextIs(m, o, p, y)

SoundOK ==
  /\ ChainOK(pacer, synced, worker)
  /\ HandOK(media, outq, Produced(encoder, encoded), gate)
  /\ Passing(gate) /\ peer.enabled =>
       EndOK(pacer, synced, worker, media, outq, Produced(encoder, encoded))

\* The invariant.
VideoInv ==
  /\ OutputTypes /\ PlacesOK /\ SenderTypes /\ WorkerOK(pacer, worker, stopping)
  /\ OrderOK
  /\ ~peer.retired => GatesOK(gate, pacer, worker)
  /\ ~peer.retired /\ ~overtaken => SoundOK
  /\ BrokenOnlyWhenOvertaken

(***************************************************************************)
(* Types.                                                                  *)
(***************************************************************************)
\* The bounds of the model.
Counts == [audio: Nat, losses: Nat, events: Nat]

\* One of them counts up.
LEMMA CountUp ==
  ASSUME NEW c \in Counts, NEW d,
         \/ d = [c EXCEPT !.audio = @ + 1] \/ d = [c EXCEPT !.losses = @ + 1]
         \/ d = [c EXCEPT !.events = @ + 1]
  PROVE  d \in Counts
BY DEF Counts

\* enqueueMediaFrame() keeps the limit of the media queue.
LEMMA EnqueueTypes ==
  ASSUME outq \in Seq(Frame), Len(outq) <= QueueLimit, overtaken \in BOOLEAN,
         NEW f \in Frame, Enqueue(f)
  PROVE  outq' \in Seq(Frame) /\ Len(outq') <= QueueLimit /\ overtaken' \in BOOLEAN
<1> DEFINE r == IF Saturated(outq) THEN Tail(outq) ELSE outq
<1>1. /\ outq' = Append(r, f)
      /\ overtaken' = (overtaken \/ (DropsVideo /\ Holds("key")))
  BY DEF Enqueue
<1>2. Len(outq) \in Nat /\ QueueLimit \in Nat \ {0}
  BY VideoSendAssumption
<1>3. r \in Seq(Frame) /\ Len(r) < QueueLimit
  <2>1. CASE Saturated(outq)
    <3>1. outq # <<>> /\ r = Tail(outq)
      BY <1>2, <2>1 DEF Saturated
    <3>2. r \in Seq(Frame) /\ Len(r) = Len(outq) - 1
      BY <3>1, HeadTailProperties
    <3> QED BY <1>2, <3>2
  <2>2. CASE ~Saturated(outq)
    BY <1>2, <2>2 DEF Saturated
  <2> QED BY <2>1, <2>2
<1> HIDE DEF r
<1>4. outq' \in Seq(Frame) /\ Len(outq') = Len(r) + 1
  BY <1>1, <1>3
<1> QED BY <1>1, <1>2, <1>3, <1>4

\* The peer manager counts its losses.
LEMMA SendCounts ==
  ASSUME counts \in Counts, NEW f, NEW cachedReplay \in BOOLEAN, SendToPeer(f, cachedReplay)
  PROVE  counts' \in Counts
<1>1. UNCHANGED counts \/ counts' = [counts EXCEPT !.losses = @ + 1]
  BY DEF SendToPeer, Rejected, Queued
<1> QED BY <1>1, CountUp

\* A media worker without a frame.
LEMMA MediaTyped ==
  /\ NoFrame \in Frame
  /\ MediaIdle \in [pc: {"idle", "taken", "targeted"}, frame: Frame]
  /\ ~Carries(MediaIdle) /\ MediaIdle.pc = "idle"
<1>1. 0 \in FrameIndex
  BY VideoSendAssumption DEF FrameIndex
<1>2. NoFrame \in Frame
  BY <1>1 DEF NoFrame, Frame
<1> HIDE DEF NoFrame
<1>3. MediaIdle = [pc |-> "idle", frame |-> NoFrame]
  BY DEF MediaIdle
<1> QED BY <1>2, <1>3 DEF Carries

\* The types, by who changes them.
EncoderTypes ==
  /\ encoded \in FrameIndex /\ cached \in FrameIndex /\ encoder \in {"idle", "key"}
  /\ outq \in Seq(Frame) /\ Len(outq) <= QueueLimit
  /\ counts \in Counts /\ overtaken \in BOOLEAN
MediaTypes == media \in [pc: {"idle", "taken", "targeted"}, frame: Frame]
PeerTypes == peer \in [connected: BOOLEAN, retired: BOOLEAN, enabled: BOOLEAN]
ViewerTypes ==
  viewer \in [Viewers -> [pc: {"idle", "copy", "prime", "reset"}, n: FrameIndex]]
SentTypes == sent \subseteq Numbers /\ stopping \in BOOLEAN /\ broken \in BOOLEAN

\* They are those of the invariant.
LEMMA OutputParts ==
  OutputTypes <=> EncoderTypes /\ MediaTypes /\ PeerTypes /\ ViewerTypes /\ SentTypes
BY DEF OutputTypes, EncoderTypes, MediaTypes, PeerTypes, ViewerTypes, SentTypes, Counts

\* Every step keeps the types.
LEMMA EncoderTyped ==
  ASSUME OutputTypes, Encoder
  PROVE  OutputTypes'
<1>1. EncoderTypes /\ MediaTypes /\ PeerTypes /\ ViewerTypes /\ SentTypes
  BY OutputParts
<1>2. UNCHANGED <<media, peer, viewer, sent, stopping, broken>>
  BY DEF Encoder, CacheKeyframe, EncodeKeyframe, EncodeDelta, EncodeAudio, ghosts
<1>3. EncoderTypes'
  <2>1. CASE CacheKeyframe
    <3>1. encoded < MaxFrames /\ encoder' = "key" /\ encoded' = encoded + 1 /\ cached' = encoded'
          /\ UNCHANGED <<outq, counts, overtaken>>
      BY <2>1 DEF CacheKeyframe, ghosts
    <3> QED BY <1>1, <3>1, VideoSendAssumption DEF EncoderTypes, FrameIndex
  <2>2. CASE EncodeKeyframe
    <3> DEFINE f == [kind |-> "key", n |-> encoded]
    <3>1. /\ encoder' = "idle" /\ Enqueue(f)
          /\ UNCHANGED <<encoded, cached, counts>>
      BY <2>2 DEF EncodeKeyframe
    <3>2. f \in Frame
      BY <1>1 DEF EncoderTypes, Frame
    <3> HIDE DEF f
    <3> QED BY <1>1, <3>1, <3>2, EnqueueTypes DEF EncoderTypes
  <2>3. CASE EncodeDelta
    <3> DEFINE f == [kind |-> "delta", n |-> encoded']
    <3>1. /\ encoded \in 1..MaxFrames - 1 /\ encoded' = encoded + 1 /\ Enqueue(f)
          /\ UNCHANGED <<encoder, cached, counts>>
      BY <2>3 DEF EncodeDelta
    <3>2. encoded' \in FrameIndex
      BY <3>1, VideoSendAssumption DEF FrameIndex
    <3>3. f \in Frame
      BY <3>2 DEF Frame
    <3> HIDE DEF f
    <3> QED BY <1>1, <3>1, <3>2, <3>3, EnqueueTypes DEF EncoderTypes
  <2>4. CASE EncodeAudio
    <3>1. /\ counts' = [counts EXCEPT !.audio = @ + 1] /\ Enqueue(NoFrame)
          /\ UNCHANGED <<encoded, encoder, cached>>
      BY <2>4 DEF EncodeAudio
    <3>2. NoFrame \in Frame /\ counts' \in Counts
      BY <1>1, <3>1, MediaTyped, CountUp DEF EncoderTypes
    <3> QED BY <1>1, <3>1, <3>2, EnqueueTypes DEF EncoderTypes
  <2> QED BY <2>1, <2>2, <2>3, <2>4 DEF Encoder
<1>4. MediaTypes' /\ PeerTypes' /\ ViewerTypes' /\ SentTypes'
  BY <1>1, <1>2 DEF MediaTypes, PeerTypes, ViewerTypes, SentTypes
<1>5. OutputTypes' <=> EncoderTypes' /\ MediaTypes' /\ PeerTypes' /\ ViewerTypes' /\ SentTypes'
  BY DEF OutputTypes, EncoderTypes, MediaTypes, PeerTypes, ViewerTypes, SentTypes, Counts
<1> QED BY <1>3, <1>4, <1>5

LEMMA MediaWorkerTyped ==
  ASSUME OutputTypes, MediaWorker
  PROVE  OutputTypes'
<1>1. EncoderTypes /\ MediaTypes /\ PeerTypes /\ ViewerTypes /\ SentTypes
  BY OutputParts
<1>2. UNCHANGED <<encoded, encoder, cached, overtaken, peer, viewer, sent, stopping, broken>>
  BY DEF MediaWorker, MediaTakes, MediaTargets, MediaSends, ghosts
<1>3. EncoderTypes' /\ MediaTypes'
  <2>1. CASE MediaTakes
    <3>1. /\ outq # <<>> /\ media' = [pc |-> "taken", frame |-> Head(outq)]
          /\ outq' = Tail(outq) /\ UNCHANGED counts
      BY <2>1 DEF MediaTakes
    <3>2. outq \in Seq(Frame) /\ Len(outq) \in Nat /\ Len(outq) <= QueueLimit
      BY <1>1 DEF EncoderTypes
    <3>3. Head(outq) \in Frame /\ outq' \in Seq(Frame) /\ Len(outq') = Len(outq) - 1
      BY <3>1, <3>2, HeadTailProperties
    <3>4. Len(outq') <= QueueLimit
      BY <3>2, <3>3, VideoSendAssumption
    <3> QED BY <1>1, <1>2, <3>1, <3>3, <3>4 DEF EncoderTypes, MediaTypes
  <2>2. CASE MediaTargets
    <3>1. /\ media' = IF media.frame.kind # "audio" /\ peer.connected
                        THEN [media EXCEPT !.pc = "targeted"] ELSE MediaIdle
          /\ UNCHANGED <<outq, counts>>
      BY <2>2 DEF MediaTargets
    <3>2. MediaTypes'
      BY <1>1, <3>1, MediaTyped DEF MediaTypes
    <3> QED BY <1>1, <1>2, <3>1, <3>2 DEF EncoderTypes
  <2>3. CASE MediaSends
    <3>1. SendToPeer(media.frame, FALSE) /\ media' = MediaIdle /\ UNCHANGED outq
      BY <2>3 DEF MediaSends, output
    <3>2. counts' \in Counts
      BY <1>1, <3>1, SendCounts DEF EncoderTypes
    <3> QED BY <1>1, <1>2, <3>1, <3>2, MediaTyped DEF EncoderTypes, MediaTypes
  <2> QED BY <2>1, <2>2, <2>3 DEF MediaWorker
<1>4. PeerTypes' /\ ViewerTypes' /\ SentTypes'
  BY <1>1, <1>2 DEF PeerTypes, ViewerTypes, SentTypes
<1>5. OutputTypes' <=> EncoderTypes' /\ MediaTypes' /\ PeerTypes' /\ ViewerTypes' /\ SentTypes'
  BY DEF OutputTypes, EncoderTypes, MediaTypes, PeerTypes, ViewerTypes, SentTypes, Counts
<1> QED BY <1>3, <1>4, <1>5

\* A viewer thread moves.
LEMMA ViewerMoves ==
  ASSUME ViewerTypes, NEW v \in Viewers,
         \/ \E pc \in {"idle", "copy", "prime", "reset"} : viewer' = [viewer EXCEPT ![v].pc = pc]
         \/ \E r \in [pc: {"idle", "copy", "prime", "reset"}, n: FrameIndex] :
              viewer' = [viewer EXCEPT ![v] = r]
         \/ UNCHANGED viewer
  PROVE  ViewerTypes'
BY DEF ViewerTypes

LEMMA ViewerTyped ==
  ASSUME OutputTypes, NEW v \in Viewers, Viewer(v)
  PROVE  OutputTypes'
<1>1. EncoderTypes /\ MediaTypes /\ PeerTypes /\ ViewerTypes /\ SentTypes
  BY OutputParts
<1>2. UNCHANGED <<encoded, encoder, outq, cached, overtaken, media, sent, stopping, broken>>
  BY DEF Viewer, Connect, KeyframeRequest, DisableVideo, EnableVideo, OfferRequest,
     OfferResetsGate, CopyCached, Prime, ghosts, output
<1>3. counts' \in Counts
  <2>1. counts \in Counts
    BY <1>1 DEF EncoderTypes
  <2>2. CASE Prime(v)
    <3>1. SendToPeer([kind |-> "key", n |-> viewer[v].n], TRUE)
      BY <2>2 DEF Prime
    <3> QED BY <2>1, <3>1, SendCounts
  <2>3. CASE ~Prime(v)
    <3>1. UNCHANGED counts \/ counts' = [counts EXCEPT !.events = @ + 1]
      BY <2>3 DEF Viewer, Connect, KeyframeRequest, DisableVideo, EnableVideo, OfferRequest,
         OfferResetsGate, CopyCached, Event
    <3> QED BY <2>1, <3>1, CountUp
  <2> QED BY <2>2, <2>3
<1>4. PeerTypes'
  <2>1. \/ UNCHANGED peer \/ peer' = [peer EXCEPT !.connected = TRUE]
        \/ peer' = [peer EXCEPT !.enabled = FALSE] \/ peer' = [peer EXCEPT !.enabled = TRUE]
    BY DEF Viewer, Connect, KeyframeRequest, DisableVideo, EnableVideo, OfferRequest,
       OfferResetsGate, CopyCached, Prime
  <2> QED BY <1>1, <2>1 DEF PeerTypes
<1>5. ViewerTypes'
  <2>1. CASE CopyCached(v)
    <3> DEFINE r == IF cached = 0 THEN ViewerIdle ELSE [pc |-> "prime", n |-> cached]
    <3>1. viewer' = [viewer EXCEPT ![v] = r]
      BY <2>1 DEF CopyCached
    <3>2. r \in [pc: {"idle", "copy", "prime", "reset"}, n: FrameIndex]
      BY <1>1, VideoSendAssumption DEF ViewerIdle, EncoderTypes, FrameIndex
    <3> HIDE DEF r
    <3> QED BY <1>1, <3>1, <3>2, ViewerMoves
  <2>2. CASE Prime(v)
    <3>1. viewer' = [viewer EXCEPT ![v] = ViewerIdle]
      BY <2>2 DEF Prime
    <3>2. ViewerIdle \in [pc: {"idle", "copy", "prime", "reset"}, n: FrameIndex]
      BY VideoSendAssumption DEF ViewerIdle, FrameIndex
    <3> QED BY <1>1, <3>1, <3>2, ViewerMoves
  <2>3. CASE ~CopyCached(v) /\ ~Prime(v)
    <3>1. \/ viewer' = [viewer EXCEPT ![v].pc = "copy"]
          \/ viewer' = [viewer EXCEPT ![v].pc = "reset"]
          \/ viewer' = [viewer EXCEPT ![v].pc = "idle"] \/ UNCHANGED viewer
      BY <2>3 DEF Viewer, Connect, KeyframeRequest, DisableVideo, EnableVideo, OfferRequest,
         OfferResetsGate, ViewerAt
    <3> QED BY <1>1, <3>1, ViewerMoves
  <2> QED BY <2>1, <2>2, <2>3
<1>6. EncoderTypes' /\ MediaTypes' /\ SentTypes'
  BY <1>1, <1>2, <1>3 DEF EncoderTypes, MediaTypes, SentTypes
<1>7. OutputTypes' <=> EncoderTypes' /\ MediaTypes' /\ PeerTypes' /\ ViewerTypes' /\ SentTypes'
  BY DEF OutputTypes, EncoderTypes, MediaTypes, PeerTypes, ViewerTypes, SentTypes, Counts
<1> QED BY <1>4, <1>5, <1>6, <1>7

LEMMA PacerWorkerTyped ==
  ASSUME OutputTypes, SenderTypes, WorkerOK(pacer, worker, stopping),
         PacerWorker \/ Retire \/ StopPacer
  PROVE  OutputTypes'
<1>1. EncoderTypes /\ MediaTypes /\ PeerTypes /\ ViewerTypes /\ SentTypes
  BY OutputParts
<1>2. UNCHANGED <<encoded, encoder, outq, cached, overtaken, media, viewer>>
  BY DEF PacerWorker, WorkerSelects, WorkerTakes, PacketSent, PacketFails, WorkerCompletes,
     WorkerEnds, Retire, StopPacer, ghosts, output
<1>3. counts' \in Counts
  <2>1. counts \in Counts
    BY <1>1 DEF EncoderTypes
  <2>2. UNCHANGED counts \/ counts' = [counts EXCEPT !.losses = @ + 1]
    BY DEF PacerWorker, WorkerSelects, WorkerTakes, PacketSent, PacketFails, WorkerCompletes,
       WorkerEnds, Retire, StopPacer
  <2> QED BY <2>1, <2>2, CountUp
<1>4. PeerTypes'
  <2>1. UNCHANGED peer \/ peer' = [peer EXCEPT !.retired = TRUE, !.connected = FALSE]
    BY DEF PacerWorker, WorkerSelects, WorkerTakes, PacketSent, PacketFails, WorkerCompletes,
       WorkerEnds, Retire, StopPacer
  <2> QED BY <1>1, <2>1 DEF PeerTypes
<1>5. SentTypes'
  <2>1. stopping' = stopping \/ stopping' = TRUE
    BY DEF PacerWorker, WorkerSelects, WorkerTakes, PacketSent, PacketFails, WorkerCompletes,
       WorkerEnds, Retire, StopPacer
  <2>2. broken' \in BOOLEAN
    <3>1. broken' = broken \/ broken' = (broken \/ (Undecodable(Head(pacer)) /\ ~peer.retired))
      BY DEF PacerWorker, WorkerSelects, WorkerTakes, PacketSent, PacketFails, WorkerCompletes,
         WorkerEnds, Retire, StopPacer, ghosts
    <3> QED BY <1>1, <3>1 DEF SentTypes
  <2>3. sent' \subseteq Numbers
    <3>1. CASE PacketSent
      <4> DEFINE number == Head(pacer).first + Head(pacer).next - 1
      <4>1. worker.pc = "sending" /\ sent' = sent \cup {number % SeqModulus}
        BY <3>1 DEF PacketSent
      <4>2. pacer # <<>> /\ pacer \in Seq(QueuedFrame)
        BY <4>1 DEF WorkerOK, SenderTypes
      <4>3. 1 \in 1..Len(pacer) /\ Head(pacer) = pacer[1]
        BY <4>2
      <4>4. number \in Int
        BY <4>2, <4>3, QueueFrames DEF Framed, Numbers
      <4> HIDE DEF number
      <4>5. number % SeqModulus \in Numbers
        BY <4>4, VideoSendAssumption DEF Numbers
      <4> QED BY <1>1, <4>1, <4>5 DEF SentTypes
    <3>2. CASE ~PacketSent
      <4>1. UNCHANGED sent
        BY <3>2 DEF PacerWorker, WorkerSelects, WorkerTakes, PacketFails, WorkerCompletes,
           WorkerEnds, Retire, StopPacer, ghosts
      <4> QED BY <1>1, <4>1 DEF SentTypes
    <3> QED BY <3>1, <3>2
  <2> QED BY <1>1, <2>1, <2>2, <2>3 DEF SentTypes
<1>6. EncoderTypes' /\ MediaTypes' /\ ViewerTypes'
  BY <1>1, <1>2, <1>3 DEF EncoderTypes, MediaTypes, ViewerTypes
<1>7. OutputTypes' <=> EncoderTypes' /\ MediaTypes' /\ PeerTypes' /\ ViewerTypes' /\ SentTypes'
  BY DEF OutputTypes, EncoderTypes, MediaTypes, PeerTypes, ViewerTypes, SentTypes, Counts
<1> QED BY <1>4, <1>5, <1>6, <1>7

(***************************************************************************)
(* The steps of the invariant.                                             *)
(***************************************************************************)
\* A step of the sender or of a viewer, the output as it was.
LEMMA SenderStep ==
  ASSUME VideoInv, OutputTypes', UNCHANGED <<encoded, encoder, outq, media, overtaken, stopping>>,
         PrimesOK', peer'.retired = peer.retired,
         peer'.connected = peer.connected \/ (peer'.connected /\ ~peer.retired),
         peer'.enabled => peer.enabled \/ ~Passing(gate'),
         SenderTypes', WorkerOK(pacer', worker', stopping'), ~peer.retired => SenderKept,
         BrokenOnlyWhenOvertaken'
  PROVE  VideoInv'
<1>1. PlacesOK'
  BY DEF VideoInv, PlacesOK, Carries, SenderKept
<1>2. OrderOK'
  BY DEF VideoInv, OrderOK, Produced
<1>3. ~peer'.retired => GatesOK(gate', pacer', worker')
  BY DEF SenderKept
<1>4. ASSUME ~peer'.retired, ~overtaken' PROVE SoundOK'
  <2> DEFINE p == Produced(encoder, encoded)
  <2>1. SoundOK /\ SenderKept /\ Produced(encoder', encoded') = p
    BY <1>4 DEF VideoInv, Produced
  <2>2. ChainOK(pacer', synced', worker')
    BY <2>1 DEF SoundOK, SenderKept
  <2> HIDE DEF p
  <2>3. HandOK(media', outq', p, gate')
    BY <2>1 DEF SoundOK, SenderKept, HandOK, Carries, p
  <2>4. ASSUME Passing(gate'), peer'.enabled
        PROVE  EndOK(pacer', synced', worker', media', outq', p)
    <3>1. Passing(gate) /\ peer.enabled
      BY <2>1, <2>4 DEF SenderKept
    <3>2. EndOK(pacer, synced, worker, media, outq, p)
      BY <2>1, <3>1 DEF SoundOK, p
    <3>3. PICK y \in Nat : LastIs(pacer, synced, worker, y) /\ NextIs(media, outq, p, y)
      BY <3>2 DEF EndOK
    <3>4. LastIs(pacer', synced', worker', y)
      BY <2>1, <2>4, <3>3 DEF SenderKept, SoundOK
    <3>5. NextIs(media', outq', p, y)
      BY <3>3
    <3> QED BY <3>4, <3>5 DEF EndOK
  <2> QED BY <2>1, <2>2, <2>3, <2>4 DEF SoundOK
<1> QED BY <1>1, <1>2, <1>3, <1>4 DEF VideoInv

\* A step of a peer that is retired, or now retires.
LEMMA RetiredStep ==
  ASSUME VideoInv, OutputTypes', UNCHANGED <<encoded, encoder, outq, media, viewer>>,
         peer'.retired, ~peer'.connected,
         SenderTypes', WorkerOK(pacer', worker', stopping'), BrokenOnlyWhenOvertaken'
  PROVE  VideoInv'
<1>1. PlacesOK'
  BY DEF VideoInv, PlacesOK, Carries, PrimesOK
<1>2. OrderOK'
  BY DEF VideoInv, OrderOK, Produced
<1> QED BY <1>1, <1>2 DEF VideoInv

\* A viewer retires, its pacer stops, its worker ends.
LEMMA RetireStep ==
  ASSUME VideoInv, Retire
  PROVE  VideoInv'
<1>1. /\ peer' = [peer EXCEPT !.retired = TRUE, !.connected = FALSE]
      /\ UNCHANGED <<encoded, encoder, outq, media, viewer, gate, seq, pacer, worker, stopping,
                     synced, broken, overtaken>>
  BY DEF Retire, output, ghosts
<1>2. OutputTypes'
  BY PacerWorkerTyped DEF VideoInv
<1>3. peer'.retired /\ ~peer'.connected
  BY <1>1 DEF VideoInv, OutputTypes
<1>4. /\ SenderTypes' /\ WorkerOK(pacer', worker', stopping')
      /\ BrokenOnlyWhenOvertaken'
  BY <1>1 DEF VideoInv, SenderTypes, BrokenOnlyWhenOvertaken
<1> QED BY <1>1, <1>2, <1>3, <1>4, RetiredStep

LEMMA StopPacerStep ==
  ASSUME VideoInv, StopPacer
  PROVE  VideoInv'
<1>1. /\ peer.retired /\ stopping'
      /\ UNCHANGED <<encoded, encoder, outq, media, viewer, gate, seq, pacer, worker, peer,
                     synced, broken, overtaken>>
  BY DEF StopPacer, output, ghosts
<1>2. OutputTypes'
  BY PacerWorkerTyped DEF VideoInv
<1>3. peer'.retired /\ ~peer'.connected
  BY <1>1 DEF VideoInv, PlacesOK
<1>4. /\ SenderTypes' /\ WorkerOK(pacer', worker', stopping')
      /\ BrokenOnlyWhenOvertaken'
  BY <1>1 DEF VideoInv, SenderTypes, BrokenOnlyWhenOvertaken, WorkerOK
<1> QED BY <1>1, <1>2, <1>3, <1>4, RetiredStep

LEMMA WorkerEndsStep ==
  ASSUME VideoInv, WorkerEnds
  PROVE  VideoInv'
<1>1. /\ stopping /\ worker' = WorkerAt("over") /\ pacer' = <<>>
      /\ UNCHANGED <<encoded, encoder, outq, media, viewer, gate, seq, peer, stopping,
                     synced, broken, overtaken>>
  BY DEF WorkerEnds, output, ghosts
<1>2. OutputTypes'
  BY PacerWorkerTyped DEF VideoInv, PacerWorker
<1>3. peer'.retired /\ ~peer'.connected
  BY <1>1 DEF VideoInv, PlacesOK
<1>4. worker' \in WorkerRecords /\ worker'.pc = "over"
  BY <1>1, WorkerAtIs
<1>5. /\ SenderTypes' /\ WorkerOK(pacer', worker', stopping')
      /\ BrokenOnlyWhenOvertaken'
  BY <1>1, <1>4 DEF VideoInv, SenderTypes, BrokenOnlyWhenOvertaken, WorkerOK
<1> QED BY <1>1, <1>2, <1>3, <1>5, RetiredStep

\* The worker takes a packet: a delta whose frame was never decoded goes out
\* only after the media queue overtook a keyframe.
LEMMA WorkerTakesStep ==
  ASSUME VideoInv, WorkerTakes
  PROVE  VideoInv'
<1>1. UNCHANGED <<encoded, encoder, outq, media, viewer, peer, overtaken, stopping>>
  BY DEF WorkerTakes, output
<1>2. OutputTypes'
  BY PacerWorkerTyped DEF VideoInv, PacerWorker
<1>3. /\ SenderTypes' /\ WorkerOK(pacer', worker', stopping')
      /\ ~peer.retired => SenderKept
  BY TakeKeeps DEF VideoInv
<1>4. BrokenOnlyWhenOvertaken'
  <2>1. CASE Reselects
    <3>1. UNCHANGED broken
      BY <2>1 DEF WorkerTakes
    <3> QED BY <1>1, <3>1 DEF VideoInv, BrokenOnlyWhenOvertaken
  <2>2. CASE ~Reselects
    <3>1. /\ broken' = (broken \/ (Undecodable(Head(pacer)) /\ ~peer.retired))
          /\ worker.pc = "selected" /\ pacer # <<>> /\ pacer \in Seq(QueuedFrame)
      BY <2>2 DEF WorkerTakes, Reselects, VideoInv, WorkerOK, SenderTypes
    <3>2. ASSUME ~peer.retired, ~overtaken PROVE ~Undecodable(Head(pacer))
      <4>1. ChainOK(pacer, synced, worker)
        BY <3>2 DEF VideoInv, SoundOK
      <4>2. 1 \in 1..Len(pacer) /\ Head(pacer) = pacer[1] /\ ~Doomed(worker)
        BY <3>1 DEF Doomed, Done
      <4> QED BY <4>1, <4>2 DEF ChainOK, Undecodable
    <3> QED BY <1>1, <3>1, <3>2 DEF VideoInv, BrokenOnlyWhenOvertaken
  <2> QED BY <2>1, <2>2
<1>5. PrimesOK'
  BY <1>1 DEF VideoInv, PlacesOK, PrimesOK
<1> QED BY <1>1, <1>2, <1>3, <1>4, <1>5, SenderStep

\* Every step of the pacer's worker.
LEMMA PacerWorkerStep ==
  ASSUME VideoInv, PacerWorker
  PROVE  VideoInv'
<1>1. OutputTypes'
  BY PacerWorkerTyped DEF VideoInv
<1>2. ASSUME WorkerSelects \/ PacketSent \/ PacketFails PROVE VideoInv'
  <2>1. UNCHANGED <<encoded, encoder, outq, media, viewer, peer, overtaken, stopping, broken>>
    BY <1>2 DEF WorkerSelects, PacketSent, PacketFails, output, ghosts
  <2>2. /\ SenderTypes' /\ WorkerOK(pacer', worker', stopping')
        /\ ~peer.retired => SenderKept
    BY <1>2, SelectKeeps, SentKeeps, FailedKeeps DEF VideoInv
  <2>3. PrimesOK' /\ BrokenOnlyWhenOvertaken'
    BY <2>1 DEF VideoInv, PlacesOK, PrimesOK, BrokenOnlyWhenOvertaken
  <2> QED BY <1>1, <2>1, <2>2, <2>3, SenderStep
<1>3. ASSUME WorkerCompletes PROVE VideoInv'
  <2>1. UNCHANGED <<encoded, encoder, outq, media, viewer, peer, overtaken, stopping, broken>>
    BY <1>3 DEF WorkerCompletes, output, ghosts
  <2>2. /\ SenderTypes' /\ WorkerOK(pacer', worker', stopping')
        /\ ~peer.retired => SenderKept
    BY <1>3, CompleteKeeps DEF VideoInv
  <2>3. PrimesOK' /\ BrokenOnlyWhenOvertaken'
    BY <2>1 DEF VideoInv, PlacesOK, PrimesOK, BrokenOnlyWhenOvertaken
  <2> QED BY <1>1, <2>1, <2>2, <2>3, SenderStep
<1> QED BY <1>2, <1>3, WorkerTakesStep, WorkerEndsStep DEF PacerWorker

\* A gate that was closed lets no delta pass.
LEMMA GateShut ==
  ASSUME NEW g, NEW h \in Gate, Closes(g, h)
  PROVE  ~Passing(h)
<1>1. h.awaiting /\ h.pendingLive = 0
  BY DEF Closes
<1> QED BY <1>1 DEF Passing

\* A live frame is refused, or rejected, or joins the queue; so is a cached one.
LEMMA RejectedCloses ==
  ASSUME SenderTypes, WorkerOK(pacer, worker, stopping), UNCHANGED <<stopping, synced>>,
         gate' = RequireLiveKeyframe(gate, FALSE), DiscardAndReclaim
  PROVE  /\ SenderTypes' /\ WorkerOK(pacer', worker', stopping')
         /\ ~Passing(gate')
         /\ GatesOK(gate, pacer, worker) => SenderKept
<1>1. gate \in Gate /\ gate' \in Gate /\ Closes(gate, gate')
  BY RequiredIs DEF SenderTypes
<1>2. SenderTypes' /\ WorkerOK(pacer', worker', stopping')
  BY <1>1, DiscardTypes DEF SenderTypes
<1>3. ~Passing(gate')
  BY <1>1, GateShut
<1>4. GatesOK(gate, pacer, worker) => SenderKept
  BY <1>1, ClosingKeeps
<1> QED BY <1>2, <1>3, <1>4

\* A step that does not touch the sender.
LEMMA Untouched ==
  ASSUME SenderTypes, WorkerOK(pacer, worker, stopping),
         UNCHANGED <<gate, seq, pacer, worker, stopping, synced>>
  PROVE  /\ SenderTypes' /\ WorkerOK(pacer', worker', stopping')
         /\ GatesOK(gate, pacer, worker) => SenderKept
<1>1. SenderTypes' /\ WorkerOK(pacer', worker', stopping')
  BY DEF SenderTypes
<1>2. /\ gate' \in Gate /\ Leaves(gate, gate') /\ UNCHANGED synced
      /\ Len(pacer') = Len(pacer) /\ Segment(pacer', pacer, 0)
      /\ SameDone(worker, worker')
  BY Tickets, SegmentSelf DEF SenderTypes, Leaves, SameDone
<1> QED BY <1>1, <1>2, LeavingKeeps

\* The cached keyframe is sent to a viewer.
LEMMA PrimeStep ==
  ASSUME VideoInv, NEW v \in Viewers, Prime(v)
  PROVE  VideoInv'
<1> DEFINE f == [kind |-> "key", n |-> viewer[v].n]
<1>1. /\ viewer[v].pc = "prime" /\ SendToPeer(f, TRUE)
      /\ viewer' = [viewer EXCEPT ![v] = ViewerIdle]
      /\ UNCHANGED <<encoded, encoder, outq, media, peer, overtaken, stopping, broken, synced>>
  BY DEF Prime, output, ghosts
<1>2. OutputTypes'
  BY ViewerTyped DEF VideoInv, Viewer
<1>3. f.kind = "key" /\ f.n \in 1..MaxFrames
  BY <1>1, VideoSendAssumption DEF VideoInv, PlacesOK, PrimesOK, OutputTypes, FrameIndex
<1> HIDE DEF f
<1>4. /\ SenderTypes /\ WorkerOK(pacer, worker, stopping)
      /\ (~peer.retired => GatesOK(gate, pacer, worker))
  BY DEF VideoInv
<1>5. /\ SenderTypes' /\ WorkerOK(pacer', worker', stopping')
      /\ ~peer.retired => SenderKept
  <2>1. CASE Refuses(f, TRUE)
    <3>1. UNCHANGED <<gate, seq, pacer, worker>>
      BY <1>1, <2>1 DEF SendToPeer
    <3> QED BY <1>1, <1>4, <3>1, Untouched
  <2>2. CASE ~Refuses(f, TRUE) /\ Rejected
    <3>1. gate' = RequireLiveKeyframe(gate, FALSE) /\ DiscardAndReclaim
      BY <2>2 DEF Rejected
    <3> QED BY <1>1, <1>4, <3>1, RejectedCloses
  <2>3. CASE ~Refuses(f, TRUE) /\ Queued(f, TRUE)
    <3>1. Joins(f, TRUE)
      BY <1>1, <1>3, <2>3 DEF Joins
    <3>2. /\ SenderTypes' /\ WorkerOK(pacer', worker', stopping')
          /\ QueueKept(f, TRUE)
      BY <1>4, <3>1, QueueKeeps
    <3> QED BY <1>4, <3>2 DEF QueueKept
  <2> QED BY <1>1, <2>1, <2>2, <2>3 DEF SendToPeer
<1>6. PrimesOK'
  BY <1>1 DEF VideoInv, PlacesOK, PrimesOK, OutputTypes, ViewerIdle
<1>7. BrokenOnlyWhenOvertaken'
  BY <1>1 DEF VideoInv, BrokenOnlyWhenOvertaken
<1>8. peer'.enabled => peer.enabled
  BY <1>1
<1> QED BY <1>1, <1>2, <1>5, <1>6, <1>7, <1>8, SenderStep

\* Some viewer's thread moves, but not to a copy of the cached keyframe.
LEMMA PrimesKept ==
  ASSUME VideoInv, NEW v \in Viewers,
         \/ viewer' = [viewer EXCEPT ![v].pc = "copy"]
         \/ viewer' = [viewer EXCEPT ![v].pc = "reset"]
         \/ viewer' = [viewer EXCEPT ![v].pc = "idle"] \/ UNCHANGED viewer
  PROVE  PrimesOK'
BY DEF VideoInv, PlacesOK, PrimesOK, OutputTypes

\* The steps of a viewer that leave the gate and the queue.
LEMMA QuietStep ==
  ASSUME VideoInv, NEW v \in Viewers,
         Connect(v) \/ DisableVideo(v) \/ OfferRequest(v) \/ CopyCached(v)
  PROVE  VideoInv'
<1>1. UNCHANGED <<encoded, encoder, outq, media, overtaken, stopping, gate, seq, pacer, worker,
                  synced, broken>>
  BY DEF Connect, DisableVideo, OfferRequest, CopyCached, output, ghosts
<1>2. OutputTypes'
  BY ViewerTyped DEF VideoInv, Viewer
<1>3. /\ SenderTypes' /\ WorkerOK(pacer', worker', stopping')
      /\ ~peer.retired => SenderKept
  BY <1>1, Untouched DEF VideoInv
<1>4. /\ peer'.retired = peer.retired
      /\ peer'.connected = peer.connected \/ (peer'.connected /\ ~peer.retired)
      /\ peer'.enabled => peer.enabled
  BY DEF Connect, DisableVideo, OfferRequest, CopyCached, VideoInv, OutputTypes
<1>5. PrimesOK'
  <2>1. CASE CopyCached(v)
    <3>1. viewer' = [viewer EXCEPT ![v] =
            IF cached = 0 THEN ViewerIdle ELSE [pc |-> "prime", n |-> cached]]
      BY <2>1 DEF CopyCached
    <3> DEFINE r == IF cached = 0 THEN ViewerIdle ELSE [pc |-> "prime", n |-> cached]
    <3>2. r.pc = "prime" => r.n >= 1
      BY VideoSendAssumption DEF ViewerIdle, VideoInv, OutputTypes, FrameIndex
    <3>3. viewer' = [viewer EXCEPT ![v] = r]
      BY <3>1
    <3> HIDE DEF r
    <3>4. viewer'[v] = r /\ \A u \in Viewers : u # v => viewer'[u] = viewer[u]
      BY <3>3 DEF VideoInv, OutputTypes
    <3> QED BY <3>2, <3>4 DEF VideoInv, PlacesOK, PrimesOK
  <2>2. CASE ~CopyCached(v)
    <3>1. \/ viewer' = [viewer EXCEPT ![v].pc = "copy"]
          \/ viewer' = [viewer EXCEPT ![v].pc = "reset"] \/ UNCHANGED viewer
      BY <2>2 DEF Connect, DisableVideo, OfferRequest, ViewerAt
    <3> QED BY <3>1, PrimesKept
  <2> QED BY <2>1, <2>2
<1>6. BrokenOnlyWhenOvertaken'
  BY <1>1 DEF VideoInv, BrokenOnlyWhenOvertaken
<1> QED BY <1>1, <1>2, <1>3, <1>4, <1>5, <1>6, SenderStep

\* A viewer asks for a keyframe.
LEMMA KeyframeRequestStep ==
  ASSUME VideoInv, NEW v \in Viewers, KeyframeRequest(v)
  PROVE  VideoInv'
<1>1. UNCHANGED <<encoded, encoder, outq, media, overtaken, stopping, peer, broken>>
  BY DEF KeyframeRequest, output, ghosts
<1>2. OutputTypes'
  BY ViewerTyped DEF VideoInv, Viewer
<1>3. /\ SenderTypes' /\ WorkerOK(pacer', worker', stopping')
      /\ ~peer.retired => SenderKept
  BY RequestKeeps DEF VideoInv
<1>4. PrimesOK'
  BY PrimesKept DEF KeyframeRequest, ViewerAt
<1>5. BrokenOnlyWhenOvertaken'
  BY <1>1 DEF VideoInv, BrokenOnlyWhenOvertaken
<1> QED BY <1>1, <1>2, <1>3, <1>4, <1>5, SenderStep

\* A reset of the gate lets no delta pass.
LEMMA ResetStep ==
  ASSUME VideoInv, NEW v \in Viewers, EnableVideo(v) \/ OfferResetsGate(v)
  PROVE  VideoInv'
<1>1. /\ UNCHANGED <<encoded, encoder, outq, media, overtaken, stopping, seq, pacer, worker,
                     synced, broken>>
      /\ gate' = ResetForCachedPrime(gate)
  BY DEF EnableVideo, OfferResetsGate, output, ghosts
<1>2. OutputTypes'
  BY ViewerTyped DEF VideoInv, Viewer
<1>3. SenderTypes /\ WorkerOK(pacer, worker, stopping)
  BY DEF VideoInv
<1>4. gate' \in Gate /\ Closes(gate, gate')
  BY <1>1, <1>3, ResetIs DEF SenderTypes
<1>5. ~Passing(gate')
  BY <1>4, GateShut
<1>6. SenderTypes' /\ WorkerOK(pacer', worker', stopping')
  BY <1>1, <1>3, <1>4 DEF SenderTypes
<1>7. ~peer.retired => SenderKept
  BY <1>1, <1>3, <1>4, ClosingKeeps DEF VideoInv
<1>8. peer'.retired = peer.retired /\ peer'.connected = peer.connected
  BY DEF EnableVideo, OfferResetsGate, VideoInv, OutputTypes
<1>9. PrimesOK'
  BY PrimesKept DEF EnableVideo, OfferResetsGate, ViewerAt
<1>10. BrokenOnlyWhenOvertaken'
  BY <1>1 DEF VideoInv, BrokenOnlyWhenOvertaken
<1> QED BY <1>1, <1>2, <1>5, <1>6, <1>7, <1>8, <1>9, <1>10, SenderStep

\* Every step of a viewer.
LEMMA ViewerStep ==
  ASSUME VideoInv, NEW v \in Viewers, Viewer(v)
  PROVE  VideoInv'
BY QuietStep, KeyframeRequestStep, ResetStep, PrimeStep DEF Viewer

(***************************************************************************)
(* The encoder and the media worker.                                       *)
(***************************************************************************)
\* A keyframe is copied to the cache.
LEMMA CacheKeyframeStep ==
  ASSUME VideoInv, CacheKeyframe
  PROVE  VideoInv'
<1>1. /\ encoder = "idle" /\ encoder' = "key" /\ encoded' = encoded + 1
      /\ UNCHANGED <<outq, media, overtaken, stopping, peer, viewer, gate, seq, pacer, worker,
                     synced, broken>>
  BY DEF CacheKeyframe, ghosts
<1>2. OutputTypes'
  BY EncoderTyped DEF VideoInv, Encoder
<1>3. encoded \in Nat /\ Produced(encoder', encoded') = Produced(encoder, encoded)
  BY <1>1, VideoSendAssumption DEF Produced, VideoInv, OutputTypes, FrameIndex
<1>4. PlacesOK'
  BY <1>1, <1>3 DEF VideoInv, PlacesOK, PrimesOK, Carries
<1>5. OrderOK'
  BY <1>1, <1>3 DEF VideoInv, OrderOK
<1>6. SenderTypes' /\ WorkerOK(pacer', worker', stopping')
  BY <1>1 DEF VideoInv, SenderTypes
<1>7. ~peer'.retired => GatesOK(gate', pacer', worker')
  BY <1>1 DEF VideoInv
<1>8. SoundOK => SoundOK'
  BY <1>1, <1>3 DEF SoundOK
<1>9. BrokenOnlyWhenOvertaken'
  BY <1>1 DEF VideoInv, BrokenOnlyWhenOvertaken
<1> QED BY <1>1, <1>2, <1>4, <1>5, <1>6, <1>7, <1>8, <1>9 DEF VideoInv

\* enqueueMediaFrame(), and the gate that it closes when it drops a video frame.
LEMMA EnqueueStep ==
  ASSUME VideoInv, OutputTypes', NEW f \in Frame, Enqueue(f),
         UNCHANGED <<media, stopping, peer, viewer, synced, broken>>,
         Video(f) => f.n = Produced(encoder, encoded) + 1
                       /\ Produced(encoder', encoded') = f.n,
         ~Video(f) => Produced(encoder', encoded') = Produced(encoder, encoded),
         encoder' = "idle", Produced(encoder, encoded) \in Nat
  PROVE  VideoInv'
<1> DEFINE p == Produced(encoder, encoded)
           c == Produced(encoder', encoded')
           r == IF Saturated(outq) THEN Tail(outq) ELSE outq
<1>1. /\ outq' = Append(r, f)
      /\ IF DropsVideo THEN CloseGate ELSE UNCHANGED <<gate, seq, pacer, worker>>
      /\ overtaken' = (overtaken \/ (DropsVideo /\ Holds("key")))
  BY DEF Enqueue
<1>2. /\ outq \in Seq(Frame) /\ Len(outq) \in Nat /\ p \in Nat /\ c \in Nat
      /\ Saturated(outq) => outq # <<>>
  <2>1. outq \in Seq(Frame) /\ Len(outq) \in Nat /\ p \in Nat
    BY DEF VideoInv, OutputTypes
  <2>2. c \in Nat
    BY <2>1
  <2>3. Saturated(outq) => outq # <<>>
    BY <2>1, VideoSendAssumption DEF Saturated
  <2> QED BY <2>1, <2>2, <2>3
<1>3. r \in Seq(Frame) /\ \A x \in Nat : Follows(outq, p, x) =>
        /\ DropsVideo => Follows(r, p, x + 1)
        /\ ~DropsVideo => Follows(r, p, x)
  <2>1. CASE Saturated(outq)
    <3>1. r = Tail(outq) /\ r \in Seq(Frame) /\ (DropsVideo <=> Video(Head(outq)))
      BY <1>2, <2>1, HeadTailProperties DEF DropsVideo, Video
    <3> HIDE DEF r, p
    <3>2. ASSUME NEW x \in Nat, Follows(outq, p, x)
          PROVE  /\ DropsVideo => Follows(r, p, x + 1)
                 /\ ~DropsVideo => Follows(r, p, x)
      BY <1>2, <2>1, <3>1, <3>2, TailFollows
    <3> QED BY <3>1, <3>2
  <2>2. CASE ~Saturated(outq)
    BY <1>2, <2>2 DEF DropsVideo
  <2> QED BY <2>1, <2>2
<1> HIDE DEF r, p
<1>4. \A x \in Nat : Follows(r, p, x) => Follows(outq', c, x)
  <2> TAKE x \in Nat
  <2> HAVE Follows(r, p, x)
  <2>1. /\ Video(f) => f.n = p + 1 /\ c = p + 1
        /\ ~Video(f) => c = p
    BY DEF p
  <2> HIDE DEF c
  <2> QED BY <1>1, <1>2, <1>3, <2>1, AppendFollows
<1>5. OrderOK'
  <2>1. PICK x \in Nat : Follows(outq, p, x)
    BY DEF VideoInv, OrderOK, p
  <2>2. Follows(outq', c, x) \/ Follows(outq', c, x + 1)
    BY <1>3, <1>4, <2>1
  <2>3. x + 1 \in Nat
    OBVIOUS
  <2> QED BY <2>2, <2>3 DEF OrderOK
<1>6. SenderTypes /\ WorkerOK(pacer, worker, stopping)
      /\ (~peer.retired => GatesOK(gate, pacer, worker))
  BY DEF VideoInv
<1>7. /\ SenderTypes' /\ WorkerOK(pacer', worker', stopping')
      /\ ~peer.retired => SenderKept
      /\ ~peer.retired /\ DropsVideo => ~Passing(gate')
  <2>1. CASE DropsVideo /\ ~peer.retired
    <3>1. gate' = RequireLiveKeyframe(gate, FALSE) /\ DiscardAndReclaim
      BY <1>1, <2>1 DEF CloseGate
    <3> QED BY <1>6, <2>1, <3>1, RejectedCloses
  <2>2. CASE ~(DropsVideo /\ ~peer.retired)
    <3>1. UNCHANGED <<gate, seq, pacer, worker>>
      BY <1>1, <2>2 DEF CloseGate
    <3> QED BY <1>6, <2>2, <3>1, Untouched
  <2> QED BY <2>1, <2>2
<1>8. PlacesOK'
  BY <1>7 DEF VideoInv, PlacesOK, Carries, PrimesOK, SenderKept
<1>9. BrokenOnlyWhenOvertaken'
  BY <1>1 DEF VideoInv, BrokenOnlyWhenOvertaken
<1>10. ASSUME ~peer'.retired, ~overtaken' PROVE SoundOK'
  <2>1. /\ SoundOK /\ SenderKept /\ ~overtaken
        /\ (DropsVideo => ~Holds("key") /\ ~Passing(gate'))
    BY <1>1, <1>7, <1>10 DEF VideoInv
  <2>2. ChainOK(pacer', synced', worker')
    BY <2>1 DEF SoundOK, SenderKept
  <2> HIDE DEF c
  <2>3. HandOK(media', outq', c, gate')
    <3>1. SUFFICES ASSUME Carries(media), media.frame.kind = "key" \/ Passing(gate')
                   PROVE  Follows(outq', c, media.frame.n)
      BY DEF HandOK
    <3>2. ~DropsVideo
      BY <2>1, <3>1 DEF Holds, Carries
    <3>3. Follows(outq, p, media.frame.n)
      BY <2>1, <3>1 DEF SoundOK, HandOK, SenderKept, p
    <3>4. media.frame.n \in Nat
      BY FrameFields DEF VideoInv, OutputTypes
    <3> QED BY <1>3, <1>4, <3>2, <3>3, <3>4
  <2>4. ASSUME Passing(gate'), peer'.enabled
        PROVE  EndOK(pacer', synced', worker', media', outq', c)
    <3>1. Passing(gate) /\ peer.enabled /\ ~DropsVideo
      BY <2>1, <2>4 DEF SenderKept
    <3>2. EndOK(pacer, synced, worker, media, outq, p)
      BY <2>1, <3>1 DEF SoundOK, p
    <3>3. PICK y \in Nat : LastIs(pacer, synced, worker, y) /\ NextIs(media, outq, p, y)
      BY <3>2 DEF EndOK
    <3>4. LastIs(pacer', synced', worker', y)
      BY <2>1, <2>4, <3>3 DEF SenderKept, SoundOK
    <3>5. NextIs(media', outq', c, y)
      BY <1>3, <1>4, <3>1, <3>3 DEF NextIs
    <3> QED BY <3>4, <3>5 DEF EndOK
  <2> QED BY <2>2, <2>3, <2>4 DEF SoundOK, c
<1>11. ~peer'.retired => GatesOK(gate', pacer', worker')
  BY <1>7 DEF SenderKept
<1> QED BY <1>5, <1>7, <1>8, <1>9, <1>10, <1>11 DEF VideoInv

\* Every step of the encoder.
LEMMA EncoderStep ==
  ASSUME VideoInv, Encoder
  PROVE  VideoInv'
<1>1. OutputTypes'
  BY EncoderTyped DEF VideoInv
<1>2. encoded \in FrameIndex /\ encoded \in Nat /\ (encoder = "key" => encoded >= 1)
  BY VideoSendAssumption DEF VideoInv, OutputTypes, FrameIndex, PlacesOK
<1>3. ASSUME EncodeKeyframe PROVE VideoInv'
  <2> DEFINE f == [kind |-> "key", n |-> encoded]
  <2>1. /\ encoder = "key" /\ encoder' = "idle" /\ Enqueue(f)
        /\ UNCHANGED <<encoded, media, stopping, peer, viewer, synced, broken>>
    BY <1>3 DEF EncodeKeyframe
  <2>2. f \in Frame /\ Video(f) /\ f.n = encoded
    BY <1>2 DEF Frame, Video
  <2> HIDE DEF f
  <2>3. /\ Produced(encoder, encoded) = encoded - 1
        /\ Produced(encoder', encoded') = encoded
    BY <2>1 DEF Produced
  <2> QED BY <1>1, <1>2, <2>1, <2>2, <2>3, EnqueueStep
<1>4. ASSUME EncodeDelta PROVE VideoInv'
  <2> DEFINE f == [kind |-> "delta", n |-> encoded']
  <2>1. /\ encoder = "idle" /\ encoder' = "idle" /\ Enqueue(f)
        /\ encoded' = encoded + 1
        /\ UNCHANGED <<media, stopping, peer, viewer, synced, broken>>
    BY <1>4 DEF EncodeDelta
  <2>2. f \in Frame /\ Video(f) /\ f.n = encoded + 1
    BY <1>1, <2>1 DEF Frame, Video, OutputTypes
  <2> HIDE DEF f
  <2>3. /\ Produced(encoder, encoded) = encoded
        /\ Produced(encoder', encoded') = encoded + 1
    BY <2>1 DEF Produced
  <2> QED BY <1>1, <1>2, <2>1, <2>2, <2>3, EnqueueStep
<1>5. ASSUME EncodeAudio PROVE VideoInv'
  <2>1. /\ encoder = "idle" /\ encoder' = "idle" /\ Enqueue(NoFrame)
        /\ UNCHANGED <<encoded, media, stopping, peer, viewer, synced, broken>>
    BY <1>1, <1>5 DEF EncodeAudio
  <2>2. NoFrame \in Frame /\ ~Video(NoFrame)
    BY MediaTyped DEF Video, NoFrame
  <2>3. /\ Produced(encoder, encoded) = encoded
        /\ Produced(encoder', encoded') = encoded
    BY <2>1 DEF Produced
  <2> QED BY <1>1, <1>2, <2>1, <2>2, <2>3, EnqueueStep
<1> QED BY <1>3, <1>4, <1>5, CacheKeyframeStep DEF Encoder

\* The media worker takes the first frame of its queue: the one that the viewer
\* decodes next, when it is a video frame.
LEMMA MediaTakesStep ==
  ASSUME VideoInv, MediaTakes
  PROVE  VideoInv'
<1> DEFINE p == Produced(encoder, encoded)
           f == Head(outq)
<1>1. /\ media.pc = "idle" /\ outq # <<>> /\ media' = [pc |-> "taken", frame |-> f]
      /\ outq' = Tail(outq)
      /\ UNCHANGED <<encoded, encoder, overtaken, stopping, peer, viewer, gate, seq, pacer,
                     worker, synced, broken>>
  BY DEF MediaTakes, ghosts
<1>2. OutputTypes'
  BY MediaWorkerTyped DEF VideoInv, MediaWorker
<1>3. /\ outq \in Seq(Frame) /\ p \in Nat /\ f \in Frame
      /\ Produced(encoder', encoded') = p
  BY <1>1, VideoSendAssumption DEF VideoInv, OutputTypes, PlacesOK, Produced, FrameIndex
<1>4. /\ media'.pc = "taken" /\ media'.frame = f /\ ~Carries(media)
      /\ Carries(media') <=> Video(f)
  BY <1>1 DEF Carries
<1> HIDE DEF p, f
<1>5. \A x \in Nat : Follows(outq, p, x) =>
        /\ Video(f) => f.n = x + 1 /\ Follows(outq', p, f.n)
        /\ ~Video(f) => Follows(outq', p, x)
  <2> TAKE x \in Nat
  <2> HAVE Follows(outq, p, x)
  <2>1. /\ Video(f) => f.n = x + 1 /\ Follows(outq', p, x + 1)
        /\ ~Video(f) => Follows(outq', p, x)
    <3>1. outq' = Tail(outq) /\ f = Head(outq)
      BY <1>1 DEF f
    <3> QED BY <1>1, <1>3, <3>1, TailFollows
  <2> QED BY <2>1
<1>6. PICK x \in Nat : Follows(outq, p, x)
  BY DEF VideoInv, OrderOK, p
<1>7. OrderOK'
  <2>1. f.n \in Nat
    BY <1>3, FrameFields
  <2>2. Follows(outq', p, x) \/ Follows(outq', p, f.n)
    BY <1>5, <1>6
  <2> QED BY <1>3, <2>1, <2>2 DEF OrderOK
<1>8. PlacesOK'
  <2>1. Video(f) => f.n >= 1
    BY <1>5, <1>6
  <2> QED BY <1>1, <1>4, <2>1 DEF VideoInv, PlacesOK, PrimesOK
<1>9. SenderTypes' /\ WorkerOK(pacer', worker', stopping') /\ BrokenOnlyWhenOvertaken'
      /\ (~peer'.retired => GatesOK(gate', pacer', worker'))
  BY <1>1 DEF VideoInv, SenderTypes, BrokenOnlyWhenOvertaken
<1>10. SoundOK => SoundOK'
  <2> HAVE SoundOK
  <2>1. ChainOK(pacer', synced', worker')
    BY <1>1 DEF SoundOK
  <2>2. HandOK(media', outq', p, gate')
    BY <1>4, <1>5, <1>6 DEF HandOK
  <2>3. ASSUME Passing(gate'), peer'.enabled
        PROVE  EndOK(pacer', synced', worker', media', outq', p)
    <3>1. EndOK(pacer, synced, worker, media, outq, p)
      BY <1>1, <2>3 DEF SoundOK, p
    <3>2. PICK y \in Nat : LastIs(pacer, synced, worker, y) /\ NextIs(media, outq, p, y)
      BY <3>1 DEF EndOK
    <3>3. Follows(outq, p, y)
      BY <1>4, <3>2 DEF NextIs
    <3>4. NextIs(media', outq', p, y)
      <4>1. CASE Video(f)
        <5>1. f.n = y + 1
          BY <1>5, <3>3, <4>1
        <5>2. y = media'.frame.n - 1
          BY <1>4, <5>1
        <5> QED BY <1>4, <4>1, <5>2 DEF NextIs
      <4>2. CASE ~Video(f)
        BY <1>4, <1>5, <3>3, <4>2 DEF NextIs
      <4> QED BY <4>1, <4>2
    <3>5. LastIs(pacer', synced', worker', y)
      BY <1>1, <3>2
    <3> QED BY <3>4, <3>5 DEF EndOK
  <2> QED BY <1>3, <2>1, <2>2, <2>3 DEF SoundOK
<1> QED BY <1>1, <1>2, <1>7, <1>8, <1>9, <1>10 DEF VideoInv

\* A frame for no viewer, or audio, leaves the media worker.
LEMMA MediaTargetsStep ==
  ASSUME VideoInv, MediaTargets
  PROVE  VideoInv'
<1> DEFINE p == Produced(encoder, encoded)
<1>1. /\ media.pc = "taken"
      /\ media' = IF media.frame.kind # "audio" /\ peer.connected
                    THEN [media EXCEPT !.pc = "targeted"] ELSE MediaIdle
      /\ UNCHANGED <<encoded, encoder, outq, overtaken, stopping, peer, viewer, gate, seq, pacer,
                     worker, synced, broken>>
  BY DEF MediaTargets, ghosts
<1>2. OutputTypes'
  BY MediaWorkerTyped DEF VideoInv, MediaWorker
<1>3. \/ /\ media'.pc = "targeted" /\ media'.frame = media.frame /\ Video(media.frame)
         /\ Carries(media) /\ Carries(media')
      \/ /\ media'.pc = "idle" /\ ~Carries(media')
         /\ ~Carries(media) \/ ~peer.connected
  BY <1>1, MediaTyped DEF VideoInv, OutputTypes, Carries, Video
<1>4. PlacesOK'
  BY <1>1, <1>3 DEF VideoInv, PlacesOK, PrimesOK
<1>5. OrderOK'
  BY <1>1 DEF VideoInv, OrderOK
<1>6. SenderTypes' /\ WorkerOK(pacer', worker', stopping') /\ BrokenOnlyWhenOvertaken'
      /\ (~peer'.retired => GatesOK(gate', pacer', worker'))
  BY <1>1 DEF VideoInv, SenderTypes, BrokenOnlyWhenOvertaken
<1>7. ASSUME ~peer'.retired, ~overtaken' PROVE SoundOK'
  <2>1. /\ SoundOK /\ (~peer.connected => ~Passing(gate))
        /\ Produced(encoder', encoded') = p
    BY <1>1, <1>7 DEF VideoInv, PlacesOK
  <2> HIDE DEF p
  <2>2. ChainOK(pacer', synced', worker')
    BY <1>1, <2>1 DEF SoundOK
  <2>3. HandOK(media', outq', p, gate')
    BY <1>1, <1>3, <2>1 DEF SoundOK, HandOK, p
  <2>4. ASSUME Passing(gate'), peer'.enabled
        PROVE  EndOK(pacer', synced', worker', media', outq', p)
    <3>1. EndOK(pacer, synced, worker, media, outq, p)
      BY <1>1, <2>1, <2>4 DEF SoundOK, p
    <3>2. PICK y \in Nat : LastIs(pacer, synced, worker, y) /\ NextIs(media, outq, p, y)
      BY <3>1 DEF EndOK
    <3>3. NextIs(media', outq', p, y)
      BY <1>1, <1>3, <2>1, <2>4, <3>2 DEF NextIs
    <3>4. LastIs(pacer', synced', worker', y)
      BY <1>1, <3>2
    <3> QED BY <3>3, <3>4 DEF EndOK
  <2> QED BY <2>1, <2>2, <2>3, <2>4 DEF SoundOK
<1> QED BY <1>2, <1>4, <1>5, <1>6, <1>7 DEF VideoInv

\* The media worker gives its frame to the viewer: what it queues is what the
\* viewer decodes next, or the gate lets no delta pass.
LEMMA MediaSendsStep ==
  ASSUME VideoInv, MediaSends
  PROVE  VideoInv'
<1> DEFINE p == Produced(encoder, encoded)
           f == media.frame
<1>1. /\ media.pc = "targeted" /\ SendToPeer(f, FALSE) /\ media' = MediaIdle
      /\ UNCHANGED <<encoded, encoder, outq, overtaken, stopping, peer, viewer, synced, broken>>
  BY DEF MediaSends, ghosts
<1>2. OutputTypes'
  BY MediaWorkerTyped DEF VideoInv, MediaWorker
<1>3. /\ f.kind \in {"key", "delta"} /\ f.n \in 1..MaxFrames /\ f.n \in Nat
      /\ Carries(media) /\ Produced(encoder', encoded') = p
  <2>1. Carries(media) /\ Video(f) /\ f.n >= 1 /\ f \in Frame
    BY <1>1 DEF VideoInv, PlacesOK, Carries, OutputTypes
  <2> HIDE DEF f
  <2>2. f.kind \in {"key", "delta"} /\ f.n \in 1..MaxFrames /\ f.n \in Nat
    BY <2>1, FrameFields, VideoSendAssumption DEF Video, FrameIndex
  <2> QED BY <1>1, <2>1, <2>2
<1>4. media'.pc = "idle" /\ ~Carries(media')
  BY <1>1, MediaTyped
<1> HIDE DEF f, p
<1>5. SenderTypes /\ WorkerOK(pacer, worker, stopping)
      /\ (~peer.retired => GatesOK(gate, pacer, worker))
  BY DEF VideoInv
<1>6. OrderOK' /\ BrokenOnlyWhenOvertaken'
  BY <1>1 DEF VideoInv, OrderOK, BrokenOnlyWhenOvertaken
<1>7. ASSUME SenderTypes', WorkerOK(pacer', worker', stopping'), ~peer.retired => SenderKept,
             ~peer.retired /\ peer.enabled => ~Passing(gate')
      PROVE  VideoInv'
  <2>1. PlacesOK'
    BY <1>1, <1>4, <1>7 DEF VideoInv, PlacesOK, PrimesOK, SenderKept
  <2>2. ~peer'.retired /\ ~overtaken' => SoundOK'
    BY <1>1, <1>4, <1>7 DEF VideoInv, SoundOK, SenderKept, HandOK
  <2> QED BY <1>1, <1>2, <1>6, <1>7, <2>1, <2>2 DEF VideoInv, SenderKept
<1>8. CASE Refuses(f, FALSE)
  <2>1. UNCHANGED <<gate, seq, pacer, worker>>
    BY <1>1, <1>8 DEF SendToPeer
  <2>2. /\ SenderTypes' /\ WorkerOK(pacer', worker', stopping')
        /\ ~peer.retired => SenderKept
    BY <1>1, <1>5, <2>1, Untouched
  <2>3. ASSUME ~peer.retired, peer.enabled PROVE ~Passing(gate')
    <3>1. CASE ~peer.connected
      BY <2>1, <2>3, <3>1 DEF VideoInv, PlacesOK
    <3>2. CASE ~CanQueueFrame(gate, f.kind = "key", FALSE)
      BY <2>1, <3>2 DEF CanQueueFrame, Passing
    <3> QED BY <1>8, <2>3, <3>1, <3>2 DEF Refuses
  <2> QED BY <1>7, <2>2, <2>3
<1>9. CASE ~Refuses(f, FALSE) /\ Rejected
  <2>1. gate' = RequireLiveKeyframe(gate, FALSE) /\ DiscardAndReclaim
    BY <1>9 DEF Rejected
  <2>2. /\ SenderTypes' /\ WorkerOK(pacer', worker', stopping') /\ ~Passing(gate')
        /\ ~peer.retired => SenderKept
    BY <1>1, <1>5, <2>1, RejectedCloses
  <2> QED BY <1>7, <2>2
<1>10. CASE ~Refuses(f, FALSE) /\ Queued(f, FALSE)
  <2>1. Joins(f, FALSE)
    BY <1>1, <1>3, <1>10 DEF Joins
  <2>2. SenderTypes' /\ WorkerOK(pacer', worker', stopping') /\ QueueKept(f, FALSE)
    BY <1>5, <2>1, QueueKeeps
  <2>3. ~peer.retired /\ peer.connected /\ peer.enabled
    BY <1>10 DEF Refuses
  <2>4. /\ GatesOK(gate', pacer', worker')
        /\ f.kind = "delta" => Passing(gate) /\ gate' = gate
        /\ ChainOK(pacer, synced, worker)
             /\ (f.kind = "delta" => LastIs(pacer, synced, worker, f.n - 1)) =>
                /\ ChainOK(pacer', synced', worker')
                /\ LastIs(pacer', synced', worker', f.n)
    BY <1>5, <2>2, <2>3 DEF QueueKept
  <2>5. PlacesOK'
    BY <1>1, <1>4, <2>3 DEF VideoInv, PlacesOK, PrimesOK
  <2>6. ASSUME ~overtaken' PROVE SoundOK'
    <3>1. SoundOK
      BY <1>1, <2>3, <2>6 DEF VideoInv
    <3>2. f.kind = "delta" => LastIs(pacer, synced, worker, f.n - 1)
      <4> HAVE f.kind = "delta"
      <4>1. EndOK(pacer, synced, worker, media, outq, p)
        BY <2>3, <2>4, <3>1 DEF SoundOK, p
      <4>2. PICK y \in Nat : LastIs(pacer, synced, worker, y) /\ NextIs(media, outq, p, y)
        BY <4>1 DEF EndOK
      <4>3. y = f.n - 1
        BY <1>3, <4>2 DEF NextIs, f
      <4> QED BY <4>2, <4>3
    <3>3. ChainOK(pacer', synced', worker') /\ LastIs(pacer', synced', worker', f.n)
      BY <2>4, <3>1, <3>2 DEF SoundOK
    <3>4. Follows(outq, p, f.n)
      <4>1. f.kind = "key" \/ Passing(gate)
        BY <1>3, <2>4
      <4> QED BY <1>3, <3>1, <4>1 DEF SoundOK, HandOK, f, p
    <3>5. EndOK(pacer', synced', worker', media', outq', p)
      <4>1. NextIs(media', outq', p, f.n)
        BY <1>1, <1>4, <3>4 DEF NextIs
      <4> QED BY <1>3, <3>3, <4>1 DEF EndOK
    <3> QED BY <1>3, <1>4, <3>3, <3>5 DEF SoundOK, HandOK
  <2> QED BY <1>2, <1>6, <2>2, <2>4, <2>5, <2>6 DEF VideoInv
<1> QED BY <1>1, <1>8, <1>9, <1>10 DEF SendToPeer

\* Every step of the media worker.
LEMMA MediaWorkerStep ==
  ASSUME VideoInv, MediaWorker
  PROVE  VideoInv'
BY MediaTakesStep, MediaTargetsStep, MediaSendsStep DEF MediaWorker

(***************************************************************************)
(* The theorems.                                                           *)
(***************************************************************************)
\* The initial states.
LEMMA VideoStarts ==
  ASSUME VideoInit
  PROVE  VideoInv
<1> DEFINE first == [awaiting |-> TRUE, cachedPrime |-> TRUE, generation |-> 1,
                     pending |-> 0, pendingLive |-> 0]
<1>1. first \in Gate
  BY DEF Gate
<1>2. gate = ResetForCachedPrime(ResetForCachedPrime(first))
  BY DEF VideoInit
<1> HIDE DEF first
<1>3. ResetForCachedPrime(first) \in Gate
  BY <1>1, ResetIs
<1>4. gate \in Gate /\ Closes(ResetForCachedPrime(first), gate)
  BY <1>2, <1>3, ResetIs
<1>5. gate.pendingLive = 0 /\ ~Passing(gate)
  BY <1>4, GateShut DEF Closes
<1>6. worker \in WorkerRecords /\ worker.pc = "idle"
  BY WorkerAtIs DEF VideoInit
<1>7. /\ 0 \in FrameIndex /\ ViewerIdle.pc = "idle"
      /\ ViewerIdle \in [pc: {"idle", "copy", "prime", "reset"}, n: FrameIndex]
  BY VideoSendAssumption DEF FrameIndex, ViewerIdle
<1>8. OutputTypes
  <2>1. encoded \in FrameIndex /\ cached \in FrameIndex /\ encoder \in {"idle", "key"}
        /\ outq \in Seq(Frame) /\ Len(outq) <= QueueLimit
    BY <1>7, VideoSendAssumption DEF VideoInit
  <2>2. /\ media \in [pc: {"idle", "taken", "targeted"}, frame: Frame]
        /\ peer \in [connected: BOOLEAN, retired: BOOLEAN, enabled: BOOLEAN]
    BY MediaTyped DEF VideoInit
  <2>3. viewer \in [Viewers -> [pc: {"idle", "copy", "prime", "reset"}, n: FrameIndex]]
    BY <1>7 DEF VideoInit
  <2>4. /\ sent \subseteq Numbers /\ {stopping, broken, overtaken} \subseteq BOOLEAN
        /\ counts \in [audio: Nat, losses: Nat, events: Nat]
    BY DEF VideoInit
  <2> QED BY <2>1, <2>2, <2>3, <2>4 DEF OutputTypes
<1>9. SenderTypes
  BY <1>4, <1>6, <1>7, VideoSendAssumption DEF SenderTypes, VideoInit, Numbers
<1>10. PlacesOK
  BY <1>5, <1>7, MediaTyped DEF PlacesOK, PrimesOK, VideoInit
<1>11. WorkerOK(pacer, worker, stopping)
  BY <1>6 DEF WorkerOK, VideoInit
<1>12. OrderOK
  <2>1. outq = <<>> /\ Produced(encoder, encoded) = 0
    BY DEF VideoInit, Produced
  <2>2. Follows(outq, 0, 0)
    BY <2>1 DEF Follows, Ordered
  <2> QED BY <2>1, <2>2 DEF OrderOK
<1>13. GatesOK(gate, pacer, worker)
  <2>1. Len(pacer) = 0 /\ ~Done(worker)
    BY <1>6 DEF VideoInit, Done
  <2>2. /\ CountOf(pacer, {"key"}, gate.generation) = 0
        /\ CountOf(pacer, Keys, gate.generation) = 0
    BY <2>1, CountNone
  <2>3. /\ Due(worker, {"key"}, gate.generation) = 0
        /\ Due(worker, Keys, gate.generation) = 0
        /\ gate.pending = 0
    BY <1>4, <2>1 DEF Due, Closes
  <2> QED BY <1>5, <2>1, <2>2, <2>3 DEF GatesOK, CountsOK, TicketsOK
<1>14. SoundOK
  <2>1. ChainOK(pacer, synced, worker)
    BY DEF VideoInit, ChainOK
  <2>2. HandOK(media, outq, Produced(encoder, encoded), gate)
    BY MediaTyped DEF VideoInit, HandOK
  <2> QED BY <1>5, <2>1, <2>2 DEF SoundOK
<1>15. BrokenOnlyWhenOvertaken
  BY DEF VideoInit, BrokenOnlyWhenOvertaken
<1> QED BY <1>8, <1>9, <1>10, <1>11, <1>12, <1>13, <1>14, <1>15 DEF VideoInv

\* A step of somebody else.
LEMMA VideoIdles ==
  ASSUME VideoInv, UNCHANGED videoVars
  PROVE  VideoInv'
<1> USE DEF videoVars
<1>1. /\ OutputTypes' /\ PlacesOK' /\ SenderTypes'
      /\ WorkerOK(pacer', worker', stopping')
  BY DEF VideoInv, OutputTypes, PlacesOK, PrimesOK, SenderTypes
<1>2. OrderOK' /\ BrokenOnlyWhenOvertaken'
  BY DEF VideoInv, OrderOK, BrokenOnlyWhenOvertaken
<1>3. ~peer'.retired => GatesOK(gate', pacer', worker')
  BY DEF VideoInv
<1>4. SoundOK => SoundOK'
  BY DEF SoundOK
<1> QED BY <1>1, <1>2, <1>3, <1>4 DEF VideoInv

\* The inductive invariant holds for any numbers of viewers, frames, losses and
\* requests, any sizes and any limit of the media queue.
THEOREM VideoInvHolds == VideoSpec => []VideoInv
<1>1. VideoInit => VideoInv
  BY VideoStarts
<1>2. VideoInv /\ [VideoNext]_videoVars => VideoInv'
  BY VideoIdles, EncoderStep, MediaWorkerStep, PacerWorkerStep, RetireStep, StopPacerStep,
     ViewerStep DEF VideoNext
<1> QED BY <1>1, <1>2, PTL DEF VideoSpec

\* A viewer never receives a delta without the frame it refers to, unless the
\* media queue dropped a frame behind a keyframe in the media worker's hands.
THEOREM BrokenOnlyWhenOvertakenHolds == VideoSpec => []BrokenOnlyWhenOvertaken
<1>1. VideoInv => BrokenOnlyWhenOvertaken
  BY DEF VideoInv
<1> QED BY <1>1, VideoInvHolds, PTL

\* The media queue is bounded, and the live keyframes that the gate counts as
\* pending are those that the pacer still has or is about to complete.
THEOREM QueuesOKHolds == VideoSpec => []QueuesOK
<1>1. VideoInv => VideoTypeOK
  BY DEF VideoInv, OutputTypes, SenderTypes, VideoTypeOK, WorkerRecords, Kinds
<1>2. VideoInv => PendingIsQueued
  <2> SUFFICES ASSUME VideoInv, ~peer.retired
               PROVE  gate.pendingLive =
                        Cardinality({i \in DOMAIN pacer : LivePending(pacer[i])})
                          + IF worker.pc = "done" /\ LivePending(worker.frame) THEN 1 ELSE 0
    BY DEF PendingIsQueued
  <2>1. /\ pacer \in Seq(QueuedFrame)
        /\ gate.pendingLive = CountOf(pacer, {"key"}, gate.generation)
                                + Due(worker, {"key"}, gate.generation)
    BY DEF VideoInv, SenderTypes, GatesOK, CountsOK
  <2>2. {i \in DOMAIN pacer : LivePending(pacer[i])} = Places(pacer, {"key"}, gate.generation)
    BY <2>1 DEF Places, LivePending
  <2>3. Due(worker, {"key"}, gate.generation) =
          IF worker.pc = "done" /\ LivePending(worker.frame) THEN 1 ELSE 0
    BY DEF Due, Done, LivePending
  <2> QED BY <2>1, <2>2, <2>3 DEF CountOf
<1>3. VideoInv => QueuesOK
  BY <1>1, <1>2 DEF QueuesOK
<1> QED BY <1>3, VideoInvHolds, PTL

(***************************************************************************)
(* The numbers of the packets.                                             *)
(***************************************************************************)
\* What % gives, and the only number that it gives.
LEMMA ModIs ==
  ASSUME NEW m \in Nat \ {0}, NEW x \in Int
  PROVE  (x % m) \in 0..m - 1 /\ \E q \in Int : x = m * q + (x % m)
<1>1. (x \div m) \in Int /\ x = m * (x \div m) + (x % m)
  BY SMT
<1>2. (x % m) \in 0..m - 1
  BY SMT
<1> QED BY <1>1, <1>2

LEMMA ModOnly ==
  ASSUME NEW m \in Nat \ {0}, NEW q \in Int, NEW r \in 0..m - 1
  PROVE  (m * q + r) % m = r
BY SMT

\* A number may be reduced before another is added.
LEMMA ModAdd ==
  ASSUME NEW m \in Nat \ {0}, NEW x \in Int, NEW k \in Int
  PROVE  ((x % m) + k) % m = (x + k) % m
<1> DEFINE a == x % m
           b == (a + k) % m
<1>1. a \in Int /\ \E q \in Int : x = m * q + a
  <2>1. a \in 0..m - 1 /\ \E q \in Int : x = m * q + a
    BY ModIs
  <2> HIDE DEF a
  <2> QED BY <2>1
<1>2. PICK q \in Int : x = m * q + a
  BY <1>1
<1> HIDE DEF a
<1>3. a + k \in Int
  BY <1>1
<1>4. b \in 0..m - 1 /\ \E p \in Int : a + k = m * p + b
  BY <1>3, ModIs
<1> HIDE DEF b
<1>5. PICK p \in Int : a + k = m * p + b
  BY <1>4
<1>6. x + k = m * (q + p) + b
  <2>1. m * (q + p) = m * q + m * p
    BY SMT
  <2>2. m * q \in Int /\ m * p \in Int /\ b \in Int
    BY <1>4
  <2> QED BY <1>1, <1>2, <1>5, <2>1, <2>2
<1>7. (m * (q + p) + b) % m = b
  BY <1>4, ModOnly
<1> QED BY <1>6, <1>7 DEF b, a

\* Fewer than m numbers in a row differ.
LEMMA ModApart ==
  ASSUME NEW m \in Nat \ {0}, NEW x \in Int, NEW a \in 0..m - 1, NEW b \in 0..m - 1,
         (x + a) % m = (x + b) % m
  PROVE  a = b
<1> DEFINE r == (x + a) % m
<1>1. x + a \in Int /\ x + b \in Int
  OBVIOUS
<1>2. r \in Int /\ (\E p \in Int : x + a = m * p + r) /\ (\E q \in Int : x + b = m * q + r)
  <2>1. r \in 0..m - 1 /\ \E p \in Int : x + a = m * p + r
    BY <1>1, ModIs
  <2>2. \E q \in Int : x + b = m * q + r
    BY <1>1, ModIs
  <2>3. m - 1 \in Int /\ \A y \in 0..m - 1 : y \in Int
    OBVIOUS
  <2> HIDE DEF r
  <2>4. r \in Int /\ \E p \in Int : x + a = m * p + r
    BY <2>1, <2>3
  <2> QED BY <2>2, <2>4
<1> HIDE DEF r
<1>3. PICK p \in Int, q \in Int : x + a = m * p + r /\ x + b = m * q + r
  BY <1>2
<1>4. a - b = m * (p - q) /\ m * (p - q) \in Int
  <2>1. m * (p - q) = m * p - m * q
    BY SMT
  <2>2. m * p \in Int /\ m * q \in Int
    OBVIOUS
  <2> QED BY <1>2, <1>3, <2>1, <2>2
<1>5. p - q = 0
  <2>1. p - q \in Int
    OBVIOUS
  <2>2. p - q >= 1 => m * (p - q) >= m
    BY <2>1, SMT
  <2>3. p - q <= -1 => m * (p - q) <= -m
    BY <2>1, SMT
  <2> QED BY <1>4, <2>1, <2>2, <2>3
<1>6. m * (p - q) = 0
  BY <1>5
<1> QED BY <1>4, <1>6

\* One more frame of at most s packets.
LEMMA TimesGrow ==
  ASSUME NEW s \in Nat, NEW u \in Nat, NEW v \in Nat, u + 1 <= v
  PROVE  s * u \in Nat /\ s * v \in Nat /\ s * u + s <= s * v
BY SMT

\* Number k of this viewer, before it is reduced.
At(k) == (FirstSequence + k) % SeqModulus

LEMMA AtIs ==
  ASSUME NEW a \in Nat
  PROVE  /\ At(a) \in Numbers
         /\ \A k \in Int : (At(a) + k) % SeqModulus = At(a + k)
         /\ \A b \in Nat : a < SeqModulus /\ b < SeqModulus /\ At(a) = At(b) => a = b
<1>1. SeqModulus \in Nat \ {0} /\ FirstSequence \in Int /\ FirstSequence + a \in Int
  BY VideoSendAssumption
<1>2. At(a) \in Numbers
  BY <1>1, ModIs DEF At, Numbers
<1>3. ASSUME NEW k \in Int PROVE (At(a) + k) % SeqModulus = At(a + k)
  <2>1. (((FirstSequence + a) % SeqModulus) + k) % SeqModulus = ((FirstSequence + a) + k) % SeqModulus
    BY <1>1, ModAdd
  <2>2. (FirstSequence + a) + k = FirstSequence + (a + k)
    BY <1>1
  <2> QED BY <2>1, <2>2 DEF At
<1>4. ASSUME NEW b \in Nat, a < SeqModulus, b < SeqModulus, At(a) = At(b) PROVE a = b
  <2>1. a \in 0..SeqModulus - 1 /\ b \in 0..SeqModulus - 1
    BY <1>1, <1>4
  <2> QED BY <1>1, <1>4, <2>1, ModApart DEF At
<1> QED BY <1>2, <1>3, <1>4

\* The frames of a queue have their numbers one after the other, up to number
\* hi; what was sent has numbers before those that wait.
Placed(q, at, hi) ==
  /\ at \in [1..Len(q) -> Nat]
  /\ \A i \in 1..Len(q) : /\ q[i].first = At(at[i]) /\ q[i].next <= q[i].size
                          /\ at[i] + q[i].size <= hi
  /\ \A i, j \in 1..Len(q) : i < j => at[i] + q[i].size <= at[j]
  /\ \A i \in 1..Len(q), k \in Nat : at[i] <= k /\ k < hi =>
       \E j \in 1..Len(q) : at[j] <= k /\ k < at[j] + q[j].size
Went(s, q, at, hi) ==
  \A x \in s : \E k \in Nat :
    x = At(k) /\ k < hi /\ \A i \in 1..Len(q) : k < at[i] + q[i].next

\* The rest of a queue.
Shifted(at, n, d) == [i \in 1..n |-> at[i + d]]
LEMMA PlacedRest ==
  ASSUME NEW q \in Seq(QueuedFrame), NEW r \in Seq(QueuedFrame), NEW d \in Nat,
         Len(r) + d = Len(q), \A i \in 1..Len(r) : r[i] = q[i + d],
         NEW hi \in Nat, NEW at, Placed(q, at, hi)
  PROVE  /\ Placed(r, Shifted(at, Len(r), d), hi)
         /\ \A s : Went(s, q, at, hi) => Went(s, r, Shifted(at, Len(r), d), hi)
<1> DEFINE ar == Shifted(at, Len(r), d)
<1>1. Len(q) \in Nat /\ Len(r) \in Nat /\ \A i \in 1..Len(r) : i + d \in 1..Len(q)
  OBVIOUS
<1>2. \A i \in 1..Len(q) : /\ at[i] \in Nat /\ q[i].size \in Nat \ {0} /\ q[i].next \in Nat
  BY QueueFrames DEF Placed, Framed
<1>3. \A i \in 1..Len(r) : ar[i] = at[i + d] /\ r[i] = q[i + d] /\ i + d \in 1..Len(q)
  BY <1>1 DEF Shifted
<1>4. ar \in [1..Len(r) -> Nat]
  BY <1>1, <1>2 DEF Shifted
<1> HIDE DEF ar
<1>5. \A i \in 1..Len(r) : /\ r[i].first = At(ar[i]) /\ r[i].next <= r[i].size
                           /\ ar[i] + r[i].size <= hi
  BY <1>3 DEF Placed
<1>6. ASSUME NEW i \in 1..Len(r), NEW j \in 1..Len(r), i < j
      PROVE  ar[i] + r[i].size <= ar[j]
  <2>1. i + d < j + d
    BY <1>6
  <2> QED BY <1>3, <2>1 DEF Placed
<1>7. ASSUME NEW i \in 1..Len(r), NEW k \in Nat, ar[i] <= k, k < hi
      PROVE  \E j \in 1..Len(r) : ar[j] <= k /\ k < ar[j] + r[j].size
  <2>1. PICK j \in 1..Len(q) : at[j] <= k /\ k < at[j] + q[j].size
    BY <1>3, <1>7 DEF Placed
  <2>2. ASSUME j < i + d PROVE FALSE
    <3>1. at[j] + q[j].size <= at[i + d] /\ ar[i] = at[i + d] /\ i + d \in 1..Len(q)
      BY <1>3, <2>2 DEF Placed
    <3>2. at[j] \in Nat /\ at[i + d] \in Nat /\ q[j].size \in Nat
      BY <1>2, <3>1
    <3> QED BY <1>7, <2>1, <3>1, <3>2
  <2>3. j - d \in 1..Len(r) /\ (j - d) + d = j
    BY <1>1, <2>2
  <2>4. ar[j - d] = at[j] /\ r[j - d] = q[j]
    BY <1>3, <2>3
  <2> QED BY <2>1, <2>3, <2>4
<1>8. Placed(r, ar, hi)
  BY <1>4, <1>5, <1>6, <1>7 DEF Placed
<1>9. ASSUME NEW s, Went(s, q, at, hi) PROVE Went(s, r, ar, hi)
  <2> SUFFICES ASSUME NEW x \in s
               PROVE  \E k \in Nat :
                        x = At(k) /\ k < hi /\ \A i \in 1..Len(r) : k < ar[i] + r[i].next
    BY DEF Went
  <2>1. PICK k \in Nat : x = At(k) /\ k < hi /\ \A i \in 1..Len(q) : k < at[i] + q[i].next
    BY <1>9 DEF Went
  <2> QED BY <1>3, <2>1
<1> QED BY <1>8, <1>9 DEF ar

\* A frame joins the queue with the next numbers.
LEMMA PlacedJoins ==
  ASSUME NEW q \in Seq(QueuedFrame), NEW f \in QueuedFrame, NEW hi \in Nat,
         f.next = 0, f.first = At(hi), NEW at, Placed(q, at, hi), NEW s, Went(s, q, at, hi)
  PROVE  \E ar : /\ Placed(Append(q, f), ar, hi + f.size)
                 /\ Went(s, Append(q, f), ar, hi + f.size)
<1> DEFINE r == Append(q, f)
           n == Len(q)
           ar == [i \in 1..Len(r) |-> IF i <= n THEN at[i] ELSE hi]
<1>1. /\ n \in Nat /\ Len(r) = n + 1 /\ r[n + 1] = f /\ \A i \in 1..n : r[i] = q[i]
  OBVIOUS
<1>2. /\ \A i \in 1..n : /\ at[i] \in Nat /\ q[i].size \in Nat \ {0} /\ q[i].next \in Nat
                         /\ at[i] + q[i].size <= hi
      /\ f.size \in Nat \ {0} /\ hi + f.size \in Nat
  <2>1. f.size \in Nat \ {0}
    BY VideoSendAssumption DEF QueuedFrame
  <2>2. \A i \in 1..n : at[i] \in Nat /\ at[i] + q[i].size <= hi
    BY DEF Placed
  <2>3. \A i \in 1..n : q[i].size \in Nat \ {0} /\ q[i].next \in Nat
    BY QueueFrames DEF Framed
  <2> HIDE DEF n
  <2> QED BY <2>1, <2>2, <2>3
<1>3. \A i \in 1..Len(r) : \/ i \in 1..n /\ ar[i] = at[i] /\ r[i] = q[i]
                           \/ i = n + 1 /\ ar[i] = hi /\ r[i] = f
  BY <1>1
<1>4. ar \in [1..Len(r) -> Nat]
  BY <1>2, <1>3
<1>5. n + 1 \in 1..Len(r) /\ ar[n + 1] = hi /\ \A i \in 1..n : i \in 1..Len(r) /\ ar[i] = at[i]
  BY <1>1
<1> HIDE DEF ar, r, n
<1>6. \A i \in 1..Len(r) : /\ r[i].first = At(ar[i]) /\ r[i].next <= r[i].size
                           /\ ar[i] + r[i].size <= hi + f.size
  <2> TAKE i \in 1..Len(r)
  <2>1. CASE i \in 1..n /\ ar[i] = at[i] /\ r[i] = q[i]
    <3>1. q[i].first = At(at[i]) /\ q[i].next <= q[i].size
      BY <2>1 DEF Placed, n
    <3> QED BY <1>2, <2>1, <3>1
  <2>2. CASE i = n + 1 /\ ar[i] = hi /\ r[i] = f
    BY <1>2, <2>2
  <2> QED BY <1>3, <2>1, <2>2
<1>7. ASSUME NEW i \in 1..Len(r), NEW j \in 1..Len(r), i < j
      PROVE  ar[i] + r[i].size <= ar[j]
  <2>1. i \in 1..n
    BY <1>1, <1>3, <1>7
  <2>2. ar[i] = at[i] /\ r[i] = q[i]
    BY <1>1, <1>3, <2>1
  <2>3. CASE j \in 1..n /\ ar[j] = at[j]
    BY <1>7, <2>1, <2>2, <2>3 DEF Placed, n
  <2>4. CASE ar[j] = hi
    BY <1>2, <2>1, <2>2, <2>4
  <2> QED BY <1>3, <2>3, <2>4
<1>8. ASSUME NEW i \in 1..Len(r), NEW k \in Nat, ar[i] <= k, k < hi + f.size
      PROVE  \E j \in 1..Len(r) : ar[j] <= k /\ k < ar[j] + r[j].size
  <2>1. CASE k < hi
    <3>1. i \in 1..n /\ at[i] <= k
      BY <1>2, <1>3, <1>8, <2>1
    <3>2. PICK j \in 1..n : at[j] <= k /\ k < at[j] + q[j].size
      BY <2>1, <3>1 DEF Placed, n
    <3> QED BY <1>1, <1>5, <3>2
  <2>2. CASE ~(k < hi)
    BY <1>1, <1>5, <1>8, <2>2
  <2> QED BY <2>1, <2>2
<1>9. Placed(r, ar, hi + f.size)
  BY <1>4, <1>6, <1>7, <1>8 DEF Placed
<1>10. Went(s, r, ar, hi + f.size)
  <2> SUFFICES ASSUME NEW x \in s
               PROVE  \E k \in Nat : /\ x = At(k) /\ k < hi + f.size
                                     /\ \A i \in 1..Len(r) : k < ar[i] + r[i].next
    BY DEF Went
  <2>1. PICK k \in Nat : x = At(k) /\ k < hi /\ \A i \in 1..n : k < at[i] + q[i].next
    BY DEF Went, n
  <2>2. k < hi + f.size /\ \A i \in 1..Len(r) : k < ar[i] + r[i].next
    BY <1>2, <1>3, <2>1
  <2> QED BY <2>1, <2>2
<1> QED BY <1>9, <1>10 DEF r

\* Packets of which none was taken: as many as there are numbers for them.
LEMMA UnsentIs ==
  ASSUME NEW r \in Seq(QueuedFrame), r # <<>>, \A i \in 1..Len(r) : r[i].next = 0,
         NEW hi \in Nat, NEW ar, Placed(r, ar, hi)
  PROVE  Cardinality(PacketsOf(r)) = hi - ar[1]
<1> DEFINE P == PacketsOf(r)
           I == ar[1]..hi - 1
           f == [e \in P |-> ar[e[1]] + e[2]]
<1>1. /\ Len(r) \in Nat /\ 1 \in 1..Len(r)
      /\ \A i \in 1..Len(r) : ar[i] \in Nat /\ r[i].size \in Nat \ {0}
  <2>1. \A i \in 1..Len(r) : ar[i] \in Nat
    BY DEF Placed
  <2> QED BY <2>1, QueueFrames DEF Framed
<1>2. \A e \in P : /\ e[1] \in 1..Len(r) /\ e[2] \in Nat /\ e[2] < r[e[1]].size
                   /\ e = <<e[1], e[2]>>
  <2> SUFFICES ASSUME NEW i \in 1..Len(r), NEW e \in {i} \X (r[i].next..r[i].size - 1)
               PROVE  /\ e[1] \in 1..Len(r) /\ e[2] \in Nat /\ e[2] < r[e[1]].size
                      /\ e = <<e[1], e[2]>>
    BY <1>1 DEF PacketsOf
  <2>1. e[1] = i /\ e[2] \in 0..r[i].size - 1 /\ e = <<e[1], e[2]>>
    OBVIOUS
  <2> QED BY <1>1, <2>1
<1>3. \A i \in 1..Len(r), k \in Nat : k < r[i].size => <<i, k>> \in P
  <2> TAKE i \in 1..Len(r), k \in Nat
  <2> HAVE k < r[i].size
  <2>1. k \in r[i].next..r[i].size - 1
    BY <1>1
  <2> QED BY <1>1, <2>1 DEF PacketsOf
<1> HIDE DEF P
<1>4. \A e \in P : f[e] \in I
  <2> TAKE e \in P
  <2>1. ar[1] <= ar[e[1]]
    <3>1. CASE e[1] = 1
      BY <1>1, <3>1
    <3>2. CASE e[1] # 1
      <4>1. 1 < e[1]
        BY <1>1, <1>2, <3>2
      <4>2. ar[1] + r[1].size <= ar[e[1]]
        BY <1>1, <1>2, <4>1 DEF Placed
      <4> QED BY <1>1, <1>2, <4>2
    <3> QED BY <3>1, <3>2
  <2>2. ar[e[1]] + r[e[1]].size <= hi
    BY <1>2 DEF Placed
  <2> QED BY <1>1, <1>2, <2>1, <2>2
<1>5. ASSUME NEW e \in P, NEW d \in P, e[1] < d[1] PROVE f[e] < f[d]
  <2>1. ar[e[1]] + r[e[1]].size <= ar[d[1]]
    BY <1>2, <1>5 DEF Placed
  <2> QED BY <1>1, <1>2, <2>1
<1>6. ASSUME NEW e \in P, NEW d \in P, f[e] = f[d] PROVE e = d
  <2>1. f[e] \in Nat /\ f[d] \in Nat /\ e[1] \in Nat /\ d[1] \in Nat
    BY <1>1, <1>2
  <2>2. e[1] = d[1]
    BY <1>5, <1>6, <2>1
  <2>3. e[2] = d[2]
    BY <1>1, <1>2, <1>6, <2>2
  <2> QED BY <1>2, <2>2, <2>3
<1>7. ASSUME NEW k \in I PROVE \E e \in P : f[e] = k
  <2>1. k \in Nat /\ ar[1] <= k /\ k < hi
    BY <1>1
  <2>2. PICK j \in 1..Len(r) : ar[j] <= k /\ k < ar[j] + r[j].size
    BY <1>1, <2>1 DEF Placed
  <2>3. k - ar[j] \in Nat /\ k - ar[j] < r[j].size
    BY <1>1, <2>1, <2>2
  <2>4. <<j, k - ar[j]>> \in P
    BY <1>3, <2>3
  <2>5. f[<<j, k - ar[j]>>] = ar[j] + (k - ar[j])
    BY <2>4
  <2> QED BY <1>1, <2>1, <2>4, <2>5
<1>8. f \in [P -> I]
  BY <1>4
<1> HIDE DEF f, I
<1>9. ExistsBijection(P, I)
  <2>1. f \in Injection(P, I)
    BY <1>6, <1>8 DEF Injection, IsInjective
  <2>2. f \in Surjection(P, I)
    BY <1>7, <1>8 DEF Surjection
  <2> QED BY <2>1, <2>2 DEF ExistsBijection, Bijection
<1>10. IsFiniteSet(I) /\ Cardinality(I) = hi - ar[1]
  <2>1. ar[1] \in Int /\ hi - 1 \in Int /\ ar[1] + r[1].size <= hi
    BY <1>1 DEF Placed
  <2>2. ar[1] <= hi - 1
    BY <1>1, <2>1
  <2>3. /\ IsFiniteSet(ar[1]..hi - 1)
        /\ Cardinality(ar[1]..hi - 1) = IF ar[1] > hi - 1 THEN 0 ELSE (hi - 1) - ar[1] + 1
    BY <2>1, FS_Interval
  <2> QED BY <1>1, <2>1, <2>2, <2>3 DEF I
<1>11. ExistsBijection(I, P)
  BY <1>9, Fun_ExistsBijSymmetric
<1> QED BY <1>10, <1>11, FS_Bijection DEF P

\* The queue's frames, what was sent and the next number agree.
Numbered(hi) ==
  \E at : Placed(pacer, at, hi) /\ Went(sent, pacer, at, hi) /\ seq = At(hi)

\* A frame whose packets were all taken is the one that is being sent.
PartWay(q, w) ==
  \A i \in 1..Len(q) : q[i].next = q[i].size => i = 1 /\ w.pc = "sending"

\* A discard gives back the numbers of the frames it removes.
LEMMA DiscardNumbers ==
  ASSUME SenderTypes, WorkerOK(pacer, worker, stopping), DiscardAndReclaim,
         UNCHANGED sent, NEW hi \in Nat, Numbered(hi), PartWay(pacer, worker)
  PROVE  PartWay(pacer', worker') /\ \E h \in 0..hi : Numbered(h)'
<1> DEFINE d == IF Started(pacer) THEN 1 ELSE 0
           rest == Discarded(pacer)
           left == AfterCurrent(pacer)
<1>1. PICK at : Placed(pacer, at, hi) /\ Went(sent, pacer, at, hi) /\ seq = At(hi)
  BY DEF Numbered
<1>2. /\ pacer' = left /\ seq' = (seq - Unsent(pacer)) % SeqModulus
      /\ pacer \in Seq(QueuedFrame) /\ Len(pacer) \in Nat /\ worker \in WorkerRecords
      /\ worker'.pc = worker.pc
  <2>1. worker \in WorkerRecords /\ worker' = [worker EXCEPT !.stale = @ \/ Discarded(pacer) # <<>>]
    BY DEF SenderTypes, DiscardAndReclaim
  <2>2. worker'.pc = worker.pc
    BY <2>1 DEF WorkerRecords
  <2> QED BY <2>1, <2>2 DEF SenderTypes, DiscardAndReclaim, Reclaimed
<1>3. \A i \in 1..Len(pacer) : /\ at[i] \in Nat /\ pacer[i].size \in Nat \ {0}
                               /\ pacer[i].next \in Nat /\ at[i] + pacer[i].size <= hi
                               /\ pacer[i].next <= pacer[i].size
  <2>1. \A i \in 1..Len(pacer) : /\ at[i] \in Nat /\ at[i] + pacer[i].size <= hi
                                 /\ pacer[i].next <= pacer[i].size
    BY <1>1 DEF Placed
  <2> QED BY <1>2, <2>1, QueueFrames DEF Framed
<1>4. /\ rest \in Seq(QueuedFrame) /\ Len(rest) + d = Len(pacer) /\ d \in 0..1
      /\ \A i \in 1..Len(rest) : rest[i] = pacer[i + d] /\ rest[i].next = 0
      /\ Len(left) = d /\ \A i \in 1..d : i = 1 /\ left[i] = pacer[i]
  <2>1. CASE Started(pacer)
    <3>1. rest = Tail(pacer) /\ pacer # <<>> /\ left = <<pacer[1]>> /\ d = 1
      BY <1>2, <2>1 DEF Started, Discarded, AfterCurrent
    <3>2. /\ Tail(pacer) \in Seq(QueuedFrame) /\ Len(Tail(pacer)) + 1 = Len(pacer)
          /\ \A i \in 1..Len(Tail(pacer)) : Tail(pacer)[i] = pacer[i + 1]
      BY <1>2, <3>1, HeadTailProperties
    <3>3. \A i \in 1..Len(Tail(pacer)) : pacer[i + 1].next = 0
      BY <1>2, <3>2 DEF WorkerOK
    <3>4. Len(left) = 1 /\ left[1] = pacer[1] /\ \A i \in 1..1 : i = 1
      BY <3>1
    <3> HIDE DEF d, rest, left
    <3> QED BY <3>1, <3>2, <3>3, <3>4
  <2>2. CASE ~Started(pacer)
    <3>1. rest = pacer /\ left = <<>> /\ d = 0 /\ \A i \in 1..0 : FALSE
      BY <2>2 DEF Discarded, AfterCurrent
    <3>2. \A i \in 1..Len(pacer) : pacer[i].next = 0
      <4> TAKE i \in 1..Len(pacer)
      <4>1. CASE i = 1
        <5>1. pacer # <<>> /\ Head(pacer) = pacer[1]
          BY <1>2, <4>1
        <5> QED BY <1>3, <2>2, <4>1, <5>1 DEF Started
      <4>2. CASE i # 1
        BY <1>2, <4>2 DEF WorkerOK
      <4> QED BY <4>1, <4>2
    <3> HIDE DEF d, rest, left
    <3> QED BY <1>2, <3>1, <3>2
  <2> QED BY <2>1, <2>2
<1> HIDE DEF d, rest, left
<1> DEFINE h == IF rest = <<>> THEN hi ELSE at[1 + d]
           a == [i \in 1..d |-> at[1]]
<1>5. /\ h \in Nat /\ h <= hi /\ Unsent(pacer) = hi - h
      /\ \A k \in Nat : at[1] <= k /\ k < h /\ d = 1 => k < at[1] + pacer[1].size
      /\ d = 1 => 1 \in 1..Len(pacer) /\ at[1] + pacer[1].size <= h
      /\ \A k \in Nat : k < hi /\ (\A i \in 1..Len(pacer) : k < at[i] + pacer[i].next) => k < h
  <2>1. CASE rest = <<>>
    <3>1. Cardinality(PacketsOf(rest)) = 0
      <4>1. PacketsOf(rest) = {}
        BY <2>1 DEF PacketsOf
      <4> QED BY <4>1, FS_EmptySet
    <3>2. Len(pacer) = d
      BY <1>4, <2>1
    <3>3. ASSUME NEW k \in Nat, at[1] <= k, k < hi, d = 1 PROVE k < at[1] + pacer[1].size
      <4>1. 1 \in 1..Len(pacer) /\ \A j \in 1..Len(pacer) : j = 1
        BY <3>2, <3>3
      <4> QED BY <1>1, <3>3, <4>1 DEF Placed
    <3>4. d = 1 => 1 \in 1..Len(pacer) /\ at[1] + pacer[1].size <= hi
      BY <1>3, <3>2
    <3> QED BY <2>1, <3>1, <3>3, <3>4 DEF Unsent, rest
  <2>2. CASE rest # <<>>
    <3>1. 1 \in 1..Len(rest) /\ 1 + d \in 1..Len(pacer) /\ rest[1] = pacer[1 + d]
      BY <1>4, <2>2
    <3>2. \E ar : Placed(rest, ar, hi) /\ ar[1] = at[1 + d]
      <4>1. Placed(rest, Shifted(at, Len(rest), d), hi)
        <5>1. d \in Nat /\ \A i \in 1..Len(rest) : rest[i] = pacer[i + d]
          BY <1>4
        <5> QED BY <1>1, <1>2, <1>4, <5>1, PlacedRest
      <4>2. Shifted(at, Len(rest), d)[1] = at[1 + d]
        BY <3>1 DEF Shifted
      <4> QED BY <4>1, <4>2
    <3>3. Unsent(pacer) = hi - at[1 + d]
      BY <1>4, <2>2, <3>2, UnsentIs DEF Unsent, rest
    <3>4. at[1 + d] \in Nat /\ at[1 + d] <= hi
      BY <1>3, <3>1
    <3>5. d = 1 => 1 \in 1..Len(pacer) /\ at[1] + pacer[1].size <= at[1 + d]
      <4> HAVE d = 1
      <4>1. 1 \in 1..Len(pacer) /\ 1 < 1 + d
        BY <1>2, <3>1
      <4> QED BY <1>1, <3>1, <4>1 DEF Placed
    <3>6. ASSUME NEW k \in Nat, at[1] <= k, k < at[1 + d], d = 1
          PROVE  k < at[1] + pacer[1].size
      <4>1. 1 \in 1..Len(pacer) /\ k < hi
        BY <3>4, <3>5, <3>6
      <4>2. PICK j \in 1..Len(pacer) : at[j] <= k /\ k < at[j] + pacer[j].size
        BY <1>1, <3>6, <4>1 DEF Placed
      <4>3. CASE j = 1
        BY <4>2, <4>3
      <4>4. CASE j = 2
        BY <1>3, <3>6, <4>2, <4>4
      <4>5. CASE j > 2
        <5>1. at[2] + pacer[2].size <= at[j] /\ 2 \in 1..Len(pacer)
          BY <1>1, <3>1, <3>6, <4>5 DEF Placed
        <5> QED BY <1>3, <3>6, <4>2, <5>1
      <4> QED BY <4>2, <4>3, <4>4, <4>5
    <3>7. ASSUME NEW k \in Nat, \A i \in 1..Len(pacer) : k < at[i] + pacer[i].next
          PROVE  k < at[1 + d]
      BY <1>4, <3>1, <3>4, <3>7
    <3> QED BY <2>2, <3>3, <3>4, <3>5, <3>6, <3>7
  <2> QED BY <2>1, <2>2
<1> HIDE DEF h
<1>13. PICK g \in Nat : g = h
  BY <1>5
<1>6. \A i \in 1..d : i = 1 /\ a[i] = at[1] /\ left[i] = pacer[1] /\ d = 1
  BY <1>4
<1>7. Placed(left, a, h)
  <2>1. \A i \in 1..d : i \in 1..Len(pacer) /\ at[1] \in Nat
    BY <1>3, <1>5, <1>6
  <2>2. a \in [1..d -> Nat]
    BY <2>1
  <2> HIDE DEF a
  <2>3. \A i \in 1..d : /\ left[i].first = At(a[i]) /\ left[i].next <= left[i].size
                        /\ a[i] + left[i].size <= h
    <3>1. \A i \in 1..Len(pacer) : pacer[i].first = At(at[i])
      BY <1>1 DEF Placed
    <3> QED BY <1>3, <1>5, <1>6, <2>1, <3>1
  <2>4. \A i, j \in 1..d : ~(i < j)
    BY <1>6
  <2>5. \A i \in 1..d, k \in Nat : a[i] <= k /\ k < h =>
          \E j \in 1..d : a[j] <= k /\ k < a[j] + left[j].size
    BY <1>5, <1>6
  <2> QED BY <1>4, <2>2, <2>3, <2>4, <2>5 DEF Placed
<1>8. Went(sent, left, a, h)
  <2> SUFFICES ASSUME NEW x \in sent
               PROVE  \E k \in Nat :
                        x = At(k) /\ k < h /\ \A i \in 1..Len(left) : k < a[i] + left[i].next
    BY DEF Went
  <2>1. PICK k \in Nat : x = At(k) /\ k < hi /\ \A i \in 1..Len(pacer) : k < at[i] + pacer[i].next
    BY <1>1 DEF Went
  <2>2. k < h /\ \A i \in 1..d : k < a[i] + left[i].next
    BY <1>5, <1>6, <2>1
  <2> QED BY <1>4, <2>1, <2>2
<1>9. seq' = At(h)
  <2>1. seq - (hi - h) = At(hi) + (h - hi) /\ h - hi \in Int /\ hi + (h - hi) = h
    <3>1. At(hi) \in Int
      BY AtIs DEF Numbers
    <3> QED BY <1>1, <1>5, <3>1
  <2> QED BY <1>2, <1>5, <2>1, AtIs
<1>10. PartWay(pacer', worker')
  <2>1. \A i \in 1..d : i = 1 /\ 1 \in 1..Len(pacer) /\ left[i] = pacer[1]
    BY <1>5, <1>6
  <2> QED BY <1>2, <1>4, <2>1 DEF PartWay
<1>11. Numbered(g)'
  <2>1. Placed(pacer', a, g) /\ Went(sent', pacer', a, g) /\ seq' = At(g)
    BY <1>2, <1>13, <1>7, <1>8, <1>9
  <2> HIDE DEF a
  <2> QED BY <2>1 DEF Numbered
<1>12. g \in 0..hi
  BY <1>5, <1>13
<1> QED BY <1>10, <1>11, <1>12

\* What is left of a queue keeps its numbers.
LEMMA RestNumbers ==
  ASSUME pacer \in Seq(QueuedFrame), pacer' \in Seq(QueuedFrame), NEW d \in Nat,
         Len(pacer') + d = Len(pacer), \A i \in 1..Len(pacer') : pacer'[i] = pacer[i + d],
         UNCHANGED seq, NEW hi \in Nat, NEW at, Placed(pacer, at, hi),
         Went(sent', pacer, at, hi), seq = At(hi),
         \A i \in 1..Len(pacer') : pacer'[i].next # pacer'[i].size
  PROVE  PartWay(pacer', worker') /\ Numbered(hi)'
<1> DEFINE ar == Shifted(at, Len(pacer'), d)
<1>1. Placed(pacer', ar, hi) /\ Went(sent', pacer', ar, hi) /\ seq' = At(hi)
  BY PlacedRest
<1> HIDE DEF ar
<1> QED BY <1>1 DEF Numbered, PartWay

\* The worker takes a frame's packets in order.
LEMMA TakeNumbers ==
  ASSUME SenderTypes, WorkerOK(pacer, worker, stopping), WorkerTakes,
         NEW hi \in Nat, Numbered(hi), PartWay(pacer, worker)
  PROVE  PartWay(pacer', worker') /\ Numbered(hi)'
<1>1. worker.pc = "selected" /\ UNCHANGED <<seq, sent>>
  BY DEF WorkerTakes
<1>2. CASE Reselects
  <2>1. UNCHANGED pacer
    BY <1>2 DEF WorkerTakes
  <2> QED BY <1>1, <2>1 DEF Numbered, PartWay
<1>3. CASE ~Reselects
  <2>1. /\ worker' = WorkerAt("sending") /\ pacer # <<>> /\ pacer \in Seq(QueuedFrame)
        /\ pacer' = [pacer EXCEPT ![1].next = @ + 1]
    BY <1>1, <1>3 DEF WorkerTakes, Reselects, WorkerOK, SenderTypes
  <2>2. Len(pacer) \in Nat /\ 1 \in 1..Len(pacer) /\ worker'.pc = "sending"
    BY <2>1, WorkerAtIs
  <2>3. PICK at : Placed(pacer, at, hi) /\ Went(sent, pacer, at, hi) /\ seq = At(hi)
    BY DEF Numbered
  <2>4. \A i \in 1..Len(pacer) : /\ at[i] \in Nat /\ pacer[i].size \in Nat \ {0}
                                 /\ pacer[i].next \in Nat /\ pacer[i].next < pacer[i].size
    <3> TAKE i \in 1..Len(pacer)
    <3>1. at[i] \in Nat /\ pacer[i].next <= pacer[i].size
      BY <2>3 DEF Placed
    <3>2. pacer[i].next # pacer[i].size
      BY <1>1 DEF PartWay
    <3>3. pacer[i].size \in Nat \ {0} /\ pacer[i].next \in Nat
      BY <2>1, QueueFrames DEF Framed
    <3> QED BY <3>1, <3>2, <3>3
  <2> DEFINE f == [pacer[1] EXCEPT !.next = @ + 1]
  <2>5. pacer[1] \in QueuedFrame
    BY <2>1, <2>2
  <2>6. f.next = pacer[1].next + 1 /\ f.size = pacer[1].size /\ f.first = pacer[1].first
    BY <2>5 DEF QueuedFrame
  <2>7. pacer' = [pacer EXCEPT ![1] = f]
    BY <2>1
  <2> HIDE DEF f
  <2>8. /\ Len(pacer') = Len(pacer)
        /\ \A i \in 1..Len(pacer) : i # 1 => pacer'[i] = pacer[i]
        /\ pacer'[1] = f
    BY <2>1, <2>2, <2>7
  <2>9. \A i \in 1..Len(pacer) :
          /\ pacer'[i].first = pacer[i].first /\ pacer'[i].size = pacer[i].size
          /\ pacer'[i].next <= pacer[i].size /\ pacer[i].next <= pacer'[i].next
          /\ pacer'[i].next \in Nat
          /\ pacer'[i].next = pacer'[i].size => i = 1
    <3> TAKE i \in 1..Len(pacer)
    <3>1. CASE i = 1
      BY <2>4, <2>6, <2>8, <3>1
    <3>2. CASE i # 1
      BY <2>4, <2>8, <3>2
    <3> QED BY <3>1, <3>2
  <2>10. PartWay(pacer', worker')
    BY <2>2, <2>8, <2>9 DEF PartWay
  <2>11. Placed(pacer', at, hi)
    BY <2>3, <2>8, <2>9 DEF Placed
  <2>12. Went(sent', pacer', at, hi)
    <3> SUFFICES ASSUME NEW x \in sent
                 PROVE  \E k \in Nat : /\ x = At(k) /\ k < hi
                                       /\ \A i \in 1..Len(pacer') : k < at[i] + pacer'[i].next
      BY <1>1 DEF Went
    <3>1. PICK k \in Nat : x = At(k) /\ k < hi /\ \A i \in 1..Len(pacer) : k < at[i] + pacer[i].next
      BY <2>3 DEF Went
    <3>2. \A i \in 1..Len(pacer) : k < at[i] + pacer'[i].next
      BY <2>4, <2>9, <3>1
    <3> QED BY <2>8, <3>1, <3>2
  <2> QED BY <1>1, <2>3, <2>10, <2>11, <2>12 DEF Numbered
<1> QED BY <1>2, <1>3

\* A packet that is sent, or fails.
LEMMA SentNumbers ==
  ASSUME SenderTypes, WorkerOK(pacer, worker, stopping), PacketSent \/ PacketFails,
         NEW hi \in Nat, Numbered(hi), PartWay(pacer, worker)
  PROVE  PartWay(pacer', worker') /\ Numbered(hi)'
<1> DEFINE f == pacer[1]
           x == (f.first + f.next - 1) % SeqModulus
<1>1. /\ worker.pc = "sending" /\ UNCHANGED seq /\ pacer \in Seq(QueuedFrame)
      /\ pacer # <<>> /\ f.next > 0 /\ Len(pacer) \in Nat /\ 1 \in 1..Len(pacer)
  <2>1. worker.pc = "sending" /\ UNCHANGED seq /\ pacer \in Seq(QueuedFrame)
    BY DEF PacketSent, PacketFails, SenderTypes
  <2>2. pacer # <<>> /\ f.next > 0
    BY <2>1 DEF WorkerOK
  <2> QED BY <2>1, <2>2
<1>2. PICK at : Placed(pacer, at, hi) /\ Went(sent, pacer, at, hi) /\ seq = At(hi)
  BY DEF Numbered
<1>3. \A i \in 1..Len(pacer) : /\ at[i] \in Nat /\ pacer[i].size \in Nat \ {0}
                               /\ pacer[i].next \in Nat /\ pacer[i].next <= pacer[i].size
                               /\ at[i] + pacer[i].size <= hi /\ pacer[i].first = At(at[i])
  <2>1. \A i \in 1..Len(pacer) : /\ at[i] \in Nat /\ pacer[i].next <= pacer[i].size
                                 /\ at[i] + pacer[i].size <= hi /\ pacer[i].first = At(at[i])
    BY <1>2 DEF Placed
  <2> QED BY <1>1, <2>1, QueueFrames DEF Framed
<1>4. /\ (pacer' = pacer /\ f.next # f.size) \/ pacer' = Tail(pacer)
      /\ sent' = sent \/ sent' = sent \cup {x}
  BY <1>1 DEF PacketSent, PacketFails, ghosts
<1> HIDE DEF f
<1>5. x = At(at[1] + (f.next - 1))
  <2>1. f.first = At(at[1]) /\ at[1] \in Nat /\ f.next - 1 \in Int /\ f.first \in Int
    <3>1. At(at[1]) \in Int
      <4>1. At(at[1]) \in Numbers
        BY <1>1, <1>3, AtIs
      <4> QED BY <4>1, VideoSendAssumption DEF Numbers
    <3> QED BY <1>1, <1>3, <3>1 DEF f
  <2>2. f.first + f.next - 1 = At(at[1]) + (f.next - 1)
    BY <1>1, <1>3, <2>1 DEF f
  <2> QED BY <2>1, <2>2, AtIs
<1> HIDE DEF x
<1>6. Went(sent', pacer, at, hi)
  <2> SUFFICES ASSUME NEW y \in sent'
               PROVE  \E k \in Nat :
                        y = At(k) /\ k < hi /\ \A i \in 1..Len(pacer) : k < at[i] + pacer[i].next
    BY DEF Went
  <2>1. CASE y \in sent
    BY <1>2, <2>1 DEF Went
  <2>2. CASE y = x
    <3> DEFINE k == at[1] + (f.next - 1)
    <3>1. k \in Nat /\ k < hi /\ k < at[1] + f.next /\ k < at[1] + pacer[1].size
      BY <1>1, <1>3 DEF f
    <3>2. ASSUME NEW i \in 1..Len(pacer) PROVE k < at[i] + pacer[i].next
      <4>1. CASE i = 1
        BY <3>1, <4>1 DEF f
      <4>2. CASE i # 1
        <5>1. at[1] + pacer[1].size <= at[i]
          BY <1>1, <1>2, <4>2 DEF Placed
        <5> QED BY <1>1, <1>3, <3>1, <5>1
      <4> QED BY <4>1, <4>2
    <3>3. y = At(k)
      BY <1>5, <2>2
    <3> HIDE DEF k
    <3> QED BY <3>1, <3>2, <3>3
  <2> QED BY <1>4, <2>1, <2>2
<1>7. CASE pacer' = pacer /\ f.next # f.size
  <2>1. \A i \in 1..Len(pacer) : pacer[i].next # pacer[i].size
    <3> TAKE i \in 1..Len(pacer)
    <3>1. CASE i = 1
      BY <1>7, <3>1 DEF f
    <3>2. CASE i # 1
      BY <3>2 DEF PartWay
    <3> QED BY <3>1, <3>2
  <2>2. \A i \in 1..Len(pacer) : pacer'[i] = pacer[i + 0] /\ i + 0 = i
    BY <1>7
  <2> QED BY <1>1, <1>2, <1>6, <1>7, <2>1, <2>2, RestNumbers
<1>8. CASE pacer' = Tail(pacer)
  <2>1. /\ pacer' \in Seq(QueuedFrame) /\ Len(pacer') + 1 = Len(pacer)
        /\ \A i \in 1..Len(pacer') : pacer'[i] = pacer[i + 1] /\ i + 1 \in 1..Len(pacer) /\ i + 1 # 1
    BY <1>1, <1>8, HeadTailProperties
  <2>2. \A i \in 1..Len(pacer') : pacer'[i].next # pacer'[i].size
    BY <2>1 DEF PartWay
  <2> QED BY <1>1, <1>2, <1>6, <2>1, <2>2, RestNumbers
<1> QED BY <1>4, <1>7, <1>8

\* Every step of the pacer's worker.
LEMMA WorkerNumbers ==
  ASSUME SenderTypes, WorkerOK(pacer, worker, stopping), PacerWorker,
         NEW hi \in Nat, Numbered(hi), PartWay(pacer, worker)
  PROVE  PartWay(pacer', worker') /\ Numbered(hi)'
<1>1. PICK at : Placed(pacer, at, hi) /\ Went(sent, pacer, at, hi) /\ seq = At(hi)
  BY DEF Numbered
<1>2. pacer \in Seq(QueuedFrame) /\ Len(pacer) \in Nat
  BY DEF SenderTypes
<1>3. ASSUME UNCHANGED <<pacer, seq, sent>>, worker.pc # "sending"
      PROVE  PartWay(pacer', worker') /\ Numbered(hi)'
  BY <1>3 DEF Numbered, PartWay
<1>4. CASE WorkerSelects
  BY <1>3, <1>4 DEF WorkerSelects, ghosts
<1>5. CASE WorkerCompletes
  <2>1. worker.pc = "done" /\ UNCHANGED <<seq, sent>>
    BY <1>5 DEF WorkerCompletes, ghosts
  <2>2. CASE UNCHANGED pacer
    BY <1>3, <2>1, <2>2
  <2>3. CASE pacer' = UntilKeyframe(pacer)
    <3>1. pacer # <<>> => pacer[1].next = 0
      BY <2>1 DEF WorkerOK
    <3>2. /\ pacer' \in Seq(QueuedFrame)
          /\ \E d \in Nat : FromKeyframe(pacer', pacer, d)
                              /\ \A i \in 1..Len(pacer') : pacer'[i] = pacer[i + d]
      BY <1>2, <2>3, <3>1, UntilKeyframeIs
    <3>3. PICK d \in Nat : /\ Len(pacer') + d = Len(pacer)
                           /\ \A i \in 1..Len(pacer') : pacer'[i] = pacer[i + d]
      BY <3>2 DEF FromKeyframe
    <3>4. \A i \in 1..Len(pacer') : i + d \in 1..Len(pacer)
      BY <1>2, <3>2, <3>3
    <3>5. \A i \in 1..Len(pacer') : pacer'[i].next # pacer'[i].size
      BY <2>1, <3>3, <3>4 DEF PartWay
    <3>6. Went(sent', pacer, at, hi)
      BY <1>1, <2>1
    <3> QED BY <1>1, <1>2, <2>1, <3>2, <3>3, <3>5, <3>6, RestNumbers
  <2> QED BY <1>5, <2>2, <2>3 DEF WorkerCompletes
<1>6. CASE WorkerEnds
  <2>1. pacer' = <<>> /\ UNCHANGED <<seq, sent>>
    BY <1>6 DEF WorkerEnds, ghosts
  <2>2. /\ pacer' \in Seq(QueuedFrame) /\ Len(pacer') + Len(pacer) = Len(pacer)
        /\ \A i \in 1..Len(pacer') : FALSE
    BY <1>2, <2>1
  <2> QED BY <1>1, <1>2, <2>1, <2>2, RestNumbers
<1> QED BY <1>4, <1>5, <1>6, TakeNumbers, SentNumbers DEF PacerWorker

\* The frames that may still be numbered: the live ones up to the p-th were
\* given to the viewer, and a cached one is owed to each thread that copies it,
\* to the first connection and to video that is off.
Passed(p) ==
  \E x \in Nat : /\ Follows(outq, Produced(encoder, encoded), x) /\ p <= x
                 /\ Carries(media) => p < media.frame.n /\ media.frame.n <= x
Priming == {v \in Viewers : viewer[v].pc \in {"copy", "prime"}}
Owed(n) == n + (IF peer.connected \/ peer.retired THEN 0 ELSE 1)
             + (IF peer.enabled THEN 0 ELSE 1)
OwedTo(c) ==
  /\ IsFiniteSet(Priming) /\ counts.events <= MaxEvents
  /\ c + Owed(Cardinality(Priming)) <= counts.events + 1

\* The invariant: what was numbered, at most most packets for each frame.
NumbersInv(most) ==
  /\ PartWay(pacer, worker)
  /\ \E hi, p, c \in Nat : hi <= most * (p + c) /\ Numbered(hi) /\ Passed(p) /\ OwedTo(c)

\* A step that queues nothing for the viewer.
LEMMA NoneNumbered ==
  ASSUME NEW most \in Nat, NumbersInv(most), \A p \in Nat : Passed(p) => Passed(p)',
         \A c \in Nat : OwedTo(c) => OwedTo(c)',
         \A hi \in Nat : Numbered(hi) /\ PartWay(pacer, worker) =>
           PartWay(pacer', worker') /\ \E h \in 0..hi : Numbered(h)'
  PROVE  NumbersInv(most)'
<1>1. PICK hi \in Nat, p \in Nat, c \in Nat :
        hi <= most * (p + c) /\ Numbered(hi) /\ Passed(p) /\ OwedTo(c)
  BY DEF NumbersInv
<1>2. PartWay(pacer', worker') /\ \E h \in 0..hi : Numbered(h)'
  BY <1>1 DEF NumbersInv
<1>3. PICK h \in 0..hi : Numbered(h)'
  BY <1>2
<1>4. h \in Nat /\ h <= most * (p + c)
  <2>1. most * (p + c) \in Nat
    OBVIOUS
  <2> HIDE DEF Numbered
  <2> QED BY <1>1, <2>1
<1> QED BY <1>1, <1>2, <1>3, <1>4 DEF NumbersInv

\* A discard, or no change.
Rewinds ==
  /\ DiscardAndReclaim \/ UNCHANGED <<seq, pacer, worker>>
  /\ UNCHANGED sent

LEMMA RewindNumbers ==
  ASSUME VideoInv, Rewinds, NEW hi \in Nat, Numbered(hi), PartWay(pacer, worker)
  PROVE  PartWay(pacer', worker') /\ \E h \in 0..hi : Numbered(h)'
<1>1. CASE DiscardAndReclaim
  BY <1>1, DiscardNumbers DEF VideoInv, Rewinds
<1>2. CASE UNCHANGED <<seq, pacer, worker>>
  <2>1. PartWay(pacer', worker') /\ Numbered(hi)' /\ hi \in 0..hi
    BY <1>2 DEF Numbered, PartWay, Rewinds
  <2> QED BY <2>1
<1> QED BY <1>1, <1>2 DEF Rewinds

\* The output and the viewer as they were.
LEMMA PassedKept ==
  ASSUME UNCHANGED <<outq, encoder, encoded, media>>, NEW p, Passed(p)
  PROVE  Passed(p)'
BY DEF Passed

LEMMA OwedKept ==
  ASSUME UNCHANGED viewer, counts'.events = counts.events, NEW c \in Nat, OwedTo(c), VideoInv,
         UNCHANGED peer \/ Retire
  PROVE  OwedTo(c)'
<1>1. Priming' = Priming
  BY DEF Priming
<1>2. peer' = peer \/ (peer'.retired /\ peer'.enabled = peer.enabled)
  BY DEF Retire, VideoInv, OutputTypes
<1>3. Cardinality(Priming) \in Nat
  BY FS_CardinalityType DEF OwedTo
<1> DEFINE n == Owed(Cardinality(Priming))
<1>4. n \in Nat /\ n' \in Nat /\ n' <= n
  BY <1>1, <1>2, <1>3 DEF Owed
<1>5. counts.events \in Nat /\ c + n <= counts.events + 1 /\ counts'.events <= MaxEvents
      /\ IsFiniteSet(Priming')
  BY <1>1 DEF OwedTo, VideoInv, OutputTypes
<1>6. c + n' <= counts'.events + 1
  <2> HIDE DEF n
  <2> QED BY <1>4, <1>5
<1> QED BY <1>5, <1>6 DEF OwedTo

\* The worker of the pacer, the release of the peer.
LEMMA SenderNumbersStep ==
  ASSUME VideoInv, NEW most \in Nat, NumbersInv(most), PacerWorker \/ Retire \/ StopPacer
  PROVE  NumbersInv(most)'
<1>1. /\ UNCHANGED <<outq, encoder, encoded, media, viewer>> /\ counts'.events = counts.events
      /\ UNCHANGED peer \/ Retire
  BY DEF PacerWorker, WorkerSelects, WorkerTakes, PacketSent, PacketFails, WorkerCompletes,
     WorkerEnds, Retire, StopPacer, output, VideoInv, OutputTypes
<1>2. ASSUME NEW hi \in Nat, Numbered(hi), PartWay(pacer, worker)
      PROVE  PartWay(pacer', worker') /\ \E h \in 0..hi : Numbered(h)'
  <2>1. CASE PacerWorker
    <3>1. PartWay(pacer', worker') /\ Numbered(hi)' /\ hi \in 0..hi
      BY <1>2, <2>1, WorkerNumbers DEF VideoInv
    <3> QED BY <3>1
  <2>2. CASE Retire \/ StopPacer
    <3>1. Rewinds
      BY <2>2 DEF Retire, StopPacer, Rewinds, ghosts
    <3> QED BY <1>2, <3>1, RewindNumbers
  <2> QED BY <2>1, <2>2
<1> QED BY <1>1, <1>2, PassedKept, OwedKept, NoneNumbered

\* A frame is refused, or rejected, or given numbers.
LEMMA SendNumbers ==
  ASSUME VideoInv, NEW most \in Nat, \A size \in Sizes : size <= most, NumbersInv(most),
         NEW f, f.kind \in {"key", "delta"}, f.n \in 1..MaxFrames,
         NEW cachedReplay \in BOOLEAN, cachedReplay => f.kind = "key",
         SendToPeer(f, cachedReplay), UNCHANGED <<sent, stopping, synced>>,
         NEW p \in Nat, NEW c \in Nat, Passed(p), OwedTo(c),
         NEW hi \in Nat, hi <= most * (p + c), Numbered(hi),
         NEW r \in Nat, NEW d \in Nat, p + c < r + d, Passed(r)', OwedTo(d)'
  PROVE  NumbersInv(most)'
<1>1. PartWay(pacer, worker)
  BY DEF NumbersInv
<1>2. most * (p + c) \in Nat /\ most * (r + d) \in Nat /\ most * (p + c) + most <= most * (r + d)
  <2>1. p + c \in Nat /\ r + d \in Nat /\ (p + c) + 1 <= r + d
    OBVIOUS
  <2> QED BY <2>1, TimesGrow
<1>3. CASE Queued(f, cachedReplay) /\ ~Refuses(f, cachedReplay)
  <2>1. PICK size \in Sizes :
          /\ pacer' = Append(pacer, QueuedAs(f, cachedReplay, size))
          /\ seq' = (seq + size) % SeqModulus
          /\ UNCHANGED worker
    BY <1>3 DEF Queued, QueuedAs
  <2> DEFINE frame == QueuedAs(f, cachedReplay, size)
  <2>2. PICK at : Placed(pacer, at, hi) /\ Went(sent, pacer, at, hi) /\ seq = At(hi)
    BY DEF Numbered
  <2>3. /\ gate.generation \in Nat /\ seq \in Numbers /\ pacer \in Seq(QueuedFrame)
        /\ size \in Nat \ {0} /\ size <= most /\ Len(pacer) \in Nat
    BY VideoSendAssumption, GateFields DEF VideoInv, SenderTypes
  <2>4. frame \in QueuedFrame /\ frame.next = 0 /\ frame.first = seq /\ frame.size = size
    BY <2>3 DEF QueuedAs, QueuedFrame
  <2> HIDE DEF frame
  <2>5. \E ar : /\ Placed(Append(pacer, frame), ar, hi + size)
                /\ Went(sent, Append(pacer, frame), ar, hi + size)
    BY <2>2, <2>3, <2>4, PlacedJoins
  <2>6. seq' = At(hi + size)
    BY <2>1, <2>2, <2>3, AtIs
  <2>7. Numbered(hi + size)'
    BY <2>1, <2>5, <2>6 DEF Numbered, frame
  <2>8. PartWay(pacer', worker')
    <3> SUFFICES ASSUME NEW i \in 1..Len(pacer'), pacer'[i].next = pacer'[i].size
                 PROVE  i = 1 /\ worker'.pc = "sending"
      BY DEF PartWay
    <3>1. pacer' = Append(pacer, frame)
      BY <2>1 DEF frame
    <3>2. (i \in 1..Len(pacer) /\ pacer'[i] = pacer[i]) \/ pacer'[i] = frame
      BY <2>3, <2>4, <3>1
    <3> QED BY <1>1, <2>1, <2>3, <2>4, <3>2 DEF PartWay
  <2>9. hi + size \in Nat /\ hi + size <= most * (r + d)
    BY <1>2, <2>3
  <2> QED BY <2>7, <2>8, <2>9 DEF NumbersInv
<1>4. CASE ~Queued(f, cachedReplay) \/ Refuses(f, cachedReplay)
  <2>1. Rewinds
    BY <1>4 DEF SendToPeer, Rejected, Rewinds
  <2>2. PartWay(pacer', worker') /\ \E h \in 0..hi : Numbered(h)'
    BY <1>1, <2>1, RewindNumbers
  <2>3. PICK h \in 0..hi : Numbered(h)'
    BY <2>2
  <2>4. h \in Nat /\ h <= most * (r + d)
    BY <1>2
  <2> QED BY <2>2, <2>3, <2>4 DEF NumbersInv
<1> QED BY <1>3, <1>4

\* enqueueMediaFrame() keeps the frames in order.
LEMMA EnqueueFollows ==
  ASSUME outq \in Seq(Frame), NEW f \in Frame, Enqueue(f), NEW p \in Nat, NEW c \in Nat,
         Video(f) => f.n = p + 1 /\ c = p + 1, ~Video(f) => c = p,
         NEW x \in Nat, Follows(outq, p, x)
  PROVE  /\ DropsVideo => Follows(outq', c, x + 1)
         /\ ~DropsVideo => Follows(outq', c, x)
<1> DEFINE r == IF Saturated(outq) THEN Tail(outq) ELSE outq
<1>1. outq' = Append(r, f)
  BY DEF Enqueue
<1>2. Len(outq) \in Nat /\ (Saturated(outq) => outq # <<>>)
  BY VideoSendAssumption DEF Saturated
<1>3. CASE DropsVideo
  <2>1. outq # <<>> /\ r = Tail(outq) /\ Video(Head(outq))
    BY <1>2, <1>3 DEF DropsVideo, Video
  <2> HIDE DEF r
  <2>2. r \in Seq(Frame) /\ Follows(r, p, x + 1)
    BY <2>1, TailFollows
  <2>3. x + 1 \in Nat
    OBVIOUS
  <2> QED BY <1>1, <1>3, <2>2, <2>3, AppendFollows
<1>4. CASE ~DropsVideo
  <2>1. r \in Seq(Frame) /\ Follows(r, p, x)
    <3>1. CASE Saturated(outq)
      <4>1. r = Tail(outq) /\ ~Video(Head(outq))
        BY <1>2, <1>4, <3>1, HeadTailProperties DEF DropsVideo, Video, Frame
      <4> HIDE DEF r
      <4> QED BY <1>2, <3>1, <4>1, TailFollows
    <3> QED BY <3>1
  <2> HIDE DEF r
  <2> QED BY <1>1, <1>4, <2>1, AppendFollows
<1> QED BY <1>3, <1>4

\* The media worker, the encoder.
LEMMA MediaNumbers ==
  ASSUME VideoInv, NEW most \in Nat, \A size \in Sizes : size <= most, NumbersInv(most),
         MediaWorker
  PROVE  NumbersInv(most)'
<1> DEFINE e == Produced(encoder, encoded)
<1>1. /\ UNCHANGED <<encoder, encoded, viewer, peer, sent, stopping, synced>>
      /\ counts'.events = counts.events /\ Produced(encoder', encoded') = e /\ e \in Nat
  <2>1. e \in Nat
    BY VideoSendAssumption DEF VideoInv, OutputTypes, PlacesOK, Produced, FrameIndex
  <2> QED BY <2>1 DEF MediaWorker, MediaTakes, MediaTargets, MediaSends, SendToPeer, Rejected,
                      Queued, ghosts, VideoInv, OutputTypes, Produced
<1>2. \A c \in Nat : OwedTo(c) => OwedTo(c)'
  BY <1>1, OwedKept
<1> HIDE DEF e
<1>3. CASE MediaTakes
  <2> DEFINE f == Head(outq)
  <2>1. /\ outq # <<>> /\ media' = [pc |-> "taken", frame |-> f] /\ outq' = Tail(outq)
        /\ UNCHANGED <<pacer, seq, worker>> /\ outq \in Seq(Frame) /\ media.pc = "idle"
    BY <1>3 DEF MediaTakes, VideoInv, OutputTypes
  <2>2. media'.frame = f /\ (Carries(media') <=> Video(f)) /\ f \in Frame /\ f.n \in Nat
    BY <2>1, FrameFields DEF Carries
  <2> HIDE DEF f
  <2>3. ASSUME NEW p \in Nat, Passed(p) PROVE Passed(p)'
    <3>1. PICK x \in Nat : Follows(outq, e, x) /\ p <= x
      BY <2>3 DEF Passed, e
    <3>2. /\ Video(f) => f.n = x + 1 /\ Follows(outq', e, x + 1)
          /\ ~Video(f) => Follows(outq', e, x)
      BY <1>1, <2>1, <3>1, TailFollows DEF f
    <3>3. CASE Video(f)
      <4>1. x + 1 \in Nat /\ p <= x + 1 /\ p < f.n /\ f.n <= x + 1
        BY <3>1, <3>2, <3>3
      <4> QED BY <1>1, <2>2, <3>2, <3>3, <4>1 DEF Passed
    <3>4. CASE ~Video(f)
      BY <1>1, <2>2, <3>1, <3>2, <3>4 DEF Passed
    <3> QED BY <3>3, <3>4
  <2>4. Rewinds
    BY <1>1, <2>1 DEF Rewinds
  <2> QED BY <1>2, <2>3, <2>4, RewindNumbers, NoneNumbered
<1>4. CASE MediaTargets
  <2>1. UNCHANGED <<outq, pacer, seq, worker>>
    BY <1>4 DEF MediaTargets
  <2>2. Carries(media') => Carries(media) /\ media'.frame = media.frame
    BY <1>4, MediaTyped DEF MediaTargets, Carries, VideoInv, OutputTypes
  <2>3. \A p \in Nat : Passed(p) => Passed(p)'
    BY <1>1, <2>1, <2>2 DEF Passed, e
  <2>4. Rewinds
    BY <1>1, <2>1 DEF Rewinds
  <2> QED BY <1>2, <2>3, <2>4, RewindNumbers, NoneNumbered
<1>5. CASE MediaSends
  <2> DEFINE f == media.frame
  <2>1. /\ media.pc = "targeted" /\ SendToPeer(f, FALSE) /\ media' = MediaIdle
        /\ UNCHANGED outq
    BY <1>5 DEF MediaSends
  <2>2. /\ f.kind \in {"key", "delta"} /\ f.n \in 1..MaxFrames /\ f.n \in Nat
        /\ Carries(media) /\ ~Carries(media')
    <3>1. Carries(media) /\ Video(f) /\ f.n >= 1 /\ f \in Frame
      BY <2>1 DEF VideoInv, PlacesOK, Carries, OutputTypes
    <3> HIDE DEF f
    <3>2. f.kind \in {"key", "delta"} /\ f.n \in 1..MaxFrames /\ f.n \in Nat
      BY <3>1, FrameFields, VideoSendAssumption DEF Video, FrameIndex
    <3> QED BY <2>1, <3>1, <3>2, MediaTyped
  <2>3. PICK hi \in Nat, p \in Nat, c \in Nat :
          hi <= most * (p + c) /\ Numbered(hi) /\ Passed(p) /\ OwedTo(c)
    BY DEF NumbersInv
  <2>4. PICK x \in Nat : Follows(outq, e, x) /\ p < f.n /\ f.n <= x
    BY <2>2, <2>3 DEF Passed, e
  <2>5. PICK n \in Nat : n = f.n
    BY <2>2
  <2>6. Passed(n)' /\ p + c < n + c
    BY <1>1, <2>1, <2>2, <2>4, <2>5 DEF Passed
  <2>7. PICK g : g = f
    OBVIOUS
  <2>8. PICK b \in BOOLEAN : b = FALSE
    OBVIOUS
  <2>9. /\ g.kind \in {"key", "delta"} /\ g.n \in 1..MaxFrames /\ SendToPeer(g, b)
        /\ UNCHANGED <<sent, stopping, synced>> /\ OwedTo(c)'
    BY <1>1, <1>2, <2>1, <2>2, <2>3, <2>7, <2>8
  <2> HIDE DEF f
  <2> QED BY <2>3, <2>6, <2>8, <2>9, SendNumbers
<1> QED BY <1>3, <1>4, <1>5 DEF MediaWorker

LEMMA EncoderNumbers ==
  ASSUME VideoInv, NEW most \in Nat, NumbersInv(most), Encoder
  PROVE  NumbersInv(most)'
<1> DEFINE e == Produced(encoder, encoded)
           g == Produced(encoder', encoded')
<1>1. /\ UNCHANGED <<viewer, peer, sent, media>> /\ counts'.events = counts.events
      /\ encoded \in Nat /\ e \in Nat
  <2>1. encoded \in Nat /\ e \in Nat
    BY VideoSendAssumption DEF VideoInv, OutputTypes, PlacesOK, Produced, FrameIndex
  <2> QED BY <2>1 DEF Encoder, CacheKeyframe, EncodeKeyframe, EncodeDelta, EncodeAudio, ghosts,
                      VideoInv, OutputTypes
<1>2. \A c \in Nat : OwedTo(c) => OwedTo(c)'
  BY <1>1, OwedKept
<1>3. ASSUME \A x \in Nat : Follows(outq, e, x) => \E z \in Nat : x <= z /\ Follows(outq', g, z)
      PROVE  \A p \in Nat : Passed(p) => Passed(p)'
  <2> TAKE p \in Nat
  <2> HAVE Passed(p)
  <2>1. PICK x \in Nat : /\ Follows(outq, e, x) /\ p <= x
                         /\ Carries(media) => p < media.frame.n /\ media.frame.n <= x
    BY DEF Passed
  <2>2. PICK z \in Nat : x <= z /\ Follows(outq', g, z)
    BY <1>3, <2>1
  <2>3. media.frame.n \in Nat
    BY FrameFields DEF VideoInv, OutputTypes
  <2> HIDE DEF g
  <2>4. p <= z /\ (Carries(media) => p < media.frame.n /\ media.frame.n <= z)
    BY <2>1, <2>2, <2>3
  <2> QED BY <1>1, <2>2, <2>4 DEF Passed, g
<1>4. ASSUME NEW f \in Frame, Enqueue(f),
             Video(f) => f.n = e + 1 /\ g = e + 1, ~Video(f) => g = e
      PROVE  NumbersInv(most)'
  <2>1. \A x \in Nat : Follows(outq, e, x) => \E z \in Nat : x <= z /\ Follows(outq', g, z)
    <3> TAKE x \in Nat
    <3> HAVE Follows(outq, e, x)
    <3> HIDE DEF e, g
    <3>1. Follows(outq', g, x) \/ Follows(outq', g, x + 1)
      BY <1>1, <1>4, EnqueueFollows DEF VideoInv, OutputTypes
    <3>2. x <= x /\ x + 1 \in Nat /\ x <= x + 1
      OBVIOUS
    <3> QED BY <3>1, <3>2
  <2>2. Rewinds
    BY <1>1, <1>4 DEF Enqueue, CloseGate, Rewinds
  <2> QED BY <1>2, <1>3, <2>1, <2>2, RewindNumbers, NoneNumbered
<1>5. CASE CacheKeyframe
  <2>1. UNCHANGED <<outq, pacer, seq, worker>> /\ g = e
    BY <1>1, <1>5 DEF CacheKeyframe, Produced
  <2>2. \A x \in Nat : Follows(outq, e, x) => \E z \in Nat : x <= z /\ Follows(outq', g, z)
    BY <2>1
  <2>3. Rewinds
    BY <1>1, <2>1 DEF Rewinds
  <2> QED BY <1>2, <1>3, <2>2, <2>3, RewindNumbers, NoneNumbered
<1>6. CASE EncodeKeyframe
  <2> DEFINE f == [kind |-> "key", n |-> encoded]
  <2>1. Enqueue(f) /\ e = encoded - 1 /\ g = encoded
    BY <1>6 DEF EncodeKeyframe, Produced
  <2>2. f \in Frame /\ Video(f) /\ f.n = e + 1 /\ g = e + 1
    BY <1>1, <2>1 DEF Frame, Video, VideoInv, OutputTypes
  <2> HIDE DEF f, e, g
  <2> QED BY <1>4, <2>1, <2>2
<1>7. CASE EncodeDelta
  <2> DEFINE f == [kind |-> "delta", n |-> encoded']
  <2>1. Enqueue(f) /\ e = encoded /\ g = encoded' /\ encoded' = encoded + 1
    BY <1>7 DEF EncodeDelta, Produced
  <2>2. encoded' \in FrameIndex
    BY EncoderTyped DEF VideoInv, OutputTypes
  <2>3. f \in Frame /\ Video(f) /\ f.n = e + 1 /\ g = e + 1
    BY <2>1, <2>2 DEF Frame, Video
  <2> HIDE DEF f, e, g
  <2> QED BY <1>4, <2>1, <2>3
<1>8. CASE EncodeAudio
  <2>1. Enqueue(NoFrame) /\ e = encoded /\ g = encoded
    BY <1>8, EncoderTyped DEF EncodeAudio, Produced, VideoInv, OutputTypes
  <2>2. NoFrame \in Frame /\ ~Video(NoFrame)
    BY MediaTyped DEF Video, NoFrame
  <2> HIDE DEF e, g
  <2> QED BY <1>4, <2>1, <2>2
<1> QED BY <1>5, <1>6, <1>7, <1>8 DEF Encoder

\* What a step of a viewer's thread changes of what is owed.
Has(s) == IF s.pc \in {"copy", "prime"} THEN 1 ELSE 0
LEMMA OwedIs ==
  ASSUME VideoInv, NEW v \in Viewers, viewer' = [viewer EXCEPT ![v] = viewer'[v]],
         NEW c \in Nat, OwedTo(c), NEW d \in Nat, counts'.events \in 0..MaxEvents,
         d + Has(viewer'[v]) + Owed(0)' + counts.events
           <= c + Has(viewer[v]) + Owed(0) + counts'.events
  PROVE  OwedTo(d)'
<1>1. /\ v \in DOMAIN viewer /\ IsFiniteSet(Priming) /\ counts.events \in Nat
      /\ c + Owed(Cardinality(Priming)) <= counts.events + 1 /\ MaxEvents \in Nat
      /\ DOMAIN viewer = Viewers
  BY VideoSendAssumption DEF VideoInv, OutputTypes, OwedTo
<1>2. PICK a \in Nat : a = Cardinality(Priming) /\ (v \in Priming => a # 0)
  BY <1>1, FS_CardinalityType, FS_EmptySet
<1>3. /\ IsFiniteSet(Priming')
      /\ \E b \in Nat : /\ Cardinality(Priming') = b
                        /\ b + Has(viewer[v]) = a + Has(viewer'[v])
  <2>1. v \in Priming <=> viewer[v].pc \in {"copy", "prime"}
    BY DEF Priming
  <2>2. CASE viewer'[v].pc \in {"copy", "prime"}
    <3>1. Priming' = Priming \cup {v} /\ Has(viewer'[v]) = 1
      BY <1>1, <2>2 DEF Priming, Has
    <3>2. /\ IsFiniteSet(Priming')
          /\ Cardinality(Priming') = IF v \in Priming THEN a ELSE a + 1
      BY <1>1, <1>2, <3>1, FS_AddElement
    <3> QED BY <2>1, <3>1, <3>2 DEF Has
  <2>3. CASE viewer'[v].pc \notin {"copy", "prime"}
    <3>1. Priming' = Priming \ {v} /\ Has(viewer'[v]) = 0
      BY <1>1, <2>3 DEF Priming, Has
    <3>2. /\ IsFiniteSet(Priming')
          /\ Cardinality(Priming') = IF v \in Priming THEN a - 1 ELSE a
      BY <1>1, <1>2, <3>1, FS_RemoveElement
    <3> QED BY <1>2, <2>1, <3>1, <3>2 DEF Has
  <2> QED BY <2>2, <2>3
<1>4. PICK b \in Nat : /\ Cardinality(Priming') = b
                       /\ b + Has(viewer[v]) = a + Has(viewer'[v])
  BY <1>3
<1>5. d + Owed(b)' <= counts'.events + 1
  <2>1. PICK o \in Nat, n \in Nat : o = Owed(0) /\ n = Owed(0)'
    BY DEF Owed
  <2>2. Owed(a) = a + o /\ Owed(b)' = b + n
    BY <2>1 DEF Owed
  <2>3. {Has(viewer[v]), Has(viewer'[v])} \subseteq {0, 1} /\ counts'.events \in Nat
    BY <1>1 DEF Has
  <2> QED BY <1>1, <1>2, <1>4, <2>1, <2>2, <2>3
<1> QED BY <1>1, <1>3, <1>4, <1>5 DEF OwedTo, Owed

LEMMA ViewerNumbers ==
  ASSUME VideoInv, NEW most \in Nat, \A size \in Sizes : size <= most, NumbersInv(most),
         NEW v \in Viewers, Viewer(v)
  PROVE  NumbersInv(most)'
<1>1. UNCHANGED <<outq, encoder, encoded, media, sent, stopping, synced>>
  BY DEF Viewer, Connect, KeyframeRequest, DisableVideo, EnableVideo, OfferRequest,
     OfferResetsGate, CopyCached, Prime, output, ghosts
<1>2. /\ viewer \in [Viewers -> [pc: {"idle", "copy", "prime", "reset"}, n: FrameIndex]]
      /\ counts \in Counts /\ MaxEvents \in Nat /\ Owed(0) \in Nat
      /\ peer \in [connected: BOOLEAN, retired: BOOLEAN, enabled: BOOLEAN]
  BY VideoSendAssumption DEF VideoInv, OutputTypes, Counts, Owed
<1>3. viewer' = [viewer EXCEPT ![v] = viewer'[v]]
  BY <1>2 DEF Viewer, Connect, KeyframeRequest, DisableVideo, EnableVideo, OfferRequest,
     OfferResetsGate, CopyCached, Prime, ViewerAt
<1>4. \A p \in Nat : Passed(p) => Passed(p)'
  BY <1>1, PassedKept
<1>5. PICK hi \in Nat, p \in Nat, c \in Nat :
        hi <= most * (p + c) /\ Numbered(hi) /\ Passed(p) /\ OwedTo(c)
  BY DEF NumbersInv
<1>6. counts.events \in 0..MaxEvents
  BY <1>2, <1>5 DEF OwedTo, Counts
<1>7. CASE Prime(v)
  <2> DEFINE f == [kind |-> "key", n |-> viewer[v].n]
  <2>0. PICK g : g = f
    OBVIOUS
  <2>1. PICK b \in BOOLEAN : b = TRUE
    OBVIOUS
  <2>2. SendToPeer(g, b) /\ viewer'[v] = ViewerIdle /\ viewer[v].pc = "prime" /\ UNCHANGED peer
    BY <1>2, <1>7, <2>0, <2>1 DEF Prime
  <2>3. viewer[v].n \in 1..MaxFrames
    <3>1. viewer[v].n >= 1
      BY <2>2 DEF VideoInv, PlacesOK, PrimesOK
    <3>2. viewer[v].n \in FrameIndex
      BY <1>2
    <3> QED BY <3>1, <3>2, VideoSendAssumption DEF FrameIndex
  <2>4. g.kind = "key" /\ g.n \in 1..MaxFrames
    BY <2>0, <2>3
  <2>5. counts'.events = counts.events
    BY <1>2, <2>2 DEF SendToPeer, Rejected, Queued, Counts
  <2>6. PICK d \in Nat : d = c + 1
    BY <1>5
  <2>7. Has(viewer'[v]) = 0 /\ Has(viewer[v]) = 1 /\ Owed(0)' = Owed(0)
    BY <2>2 DEF ViewerIdle, Has, Owed
  <2>8. OwedTo(d)'
    <3>1. counts'.events \in 0..MaxEvents /\ counts.events \in Nat
      BY <1>6, <2>5
    <3>2. d + Has(viewer'[v]) + Owed(0)' + counts.events
            <= c + Has(viewer[v]) + Owed(0) + counts'.events
      BY <1>2, <1>5, <2>5, <2>6, <2>7, <3>1
    <3> QED BY <1>3, <1>5, <3>1, <3>2, OwedIs
  <2>9. g.kind \in {"key", "delta"} /\ Passed(p)' /\ p + c < p + d
    BY <1>4, <1>5, <2>4, <2>6
  <2> HIDE DEF f
  <2> QED BY <1>1, <1>5, <2>2, <2>4, <2>8, <2>9, SendNumbers
<1>8. CASE ~Prime(v)
  <2> USE DEF ViewerAt, ViewerIdle, output, ghosts, Event
  <2>1. Rewinds
    BY <1>8 DEF Viewer, Connect, KeyframeRequest, DisableVideo, EnableVideo, OfferRequest,
       OfferResetsGate, CopyCached, Rewinds
  <2>2. /\ counts'.events \in 0..MaxEvents
        /\ Has(viewer'[v]) + Owed(0)' + counts.events
             <= Has(viewer[v]) + Owed(0) + counts'.events
    <3> USE <1>2, <1>6 DEF Has, Owed, Counts
    <3>1. CASE Connect(v)
      BY <3>1 DEF Connect
    <3>2. CASE KeyframeRequest(v)
      BY <3>2 DEF KeyframeRequest
    <3>3. CASE DisableVideo(v)
      BY <3>3 DEF DisableVideo
    <3>4. CASE EnableVideo(v)
      BY <3>4 DEF EnableVideo
    <3>5. CASE OfferRequest(v)
      BY <3>5 DEF OfferRequest
    <3>6. CASE OfferResetsGate(v)
      BY <3>6 DEF OfferResetsGate
    <3>7. CASE CopyCached(v)
      BY <3>7 DEF CopyCached
    <3> QED BY <1>8, <3>1, <3>2, <3>3, <3>4, <3>5, <3>6, <3>7 DEF Viewer
  <2>3. \A n \in Nat : OwedTo(n) => OwedTo(n)'
    <3> TAKE n \in Nat
    <3> HAVE OwedTo(n)
    <3>1. /\ {Has(viewer[v]), Has(viewer'[v])} \subseteq {0, 1} /\ counts.events \in Nat
          /\ Owed(0) \in Nat /\ Owed(0)' \in Nat
      BY <1>2 DEF Has, Owed, Counts
    <3>2. n + Has(viewer'[v]) + Owed(0)' + counts.events
            <= n + Has(viewer[v]) + Owed(0) + counts'.events
      BY <2>2, <3>1
    <3> QED BY <1>3, <2>2, <3>2, OwedIs
  <2> QED BY <1>4, <2>1, <2>3, RewindNumbers, NoneNumbered
<1> QED BY <1>7, <1>8

LEMMA NumbersStart ==
  ASSUME VideoInit, NEW most \in Nat
  PROVE  NumbersInv(most)
<1>1. /\ outq = <<>> /\ encoder = "idle" /\ encoded = 0 /\ pacer = <<>> /\ sent = {}
      /\ seq = FirstSequence /\ counts.events = 0 /\ MaxEvents \in Nat
      /\ ~peer.connected /\ ~peer.retired /\ peer.enabled
  BY VideoSendAssumption DEF VideoInit
<1>2. PartWay(pacer, worker) /\ ~Carries(media)
  BY <1>1, MediaTyped DEF PartWay, VideoInit
<1>3. Passed(0)
  <2>1. Follows(outq, 0, 0)
    BY <1>1 DEF Follows, Ordered
  <2> QED BY <1>1, <1>2, <2>1 DEF Passed, Produced
<1>4. OwedTo(0)
  <2>1. Priming = {}
    BY DEF VideoInit, ViewerIdle, Priming
  <2> QED BY <1>1, <2>1, FS_EmptySet DEF OwedTo, Owed
<1>5. Numbered(0)
  <2>1. seq = At(0)
    BY <1>1, VideoSendAssumption, SMT DEF At, Numbers
  <2> DEFINE at == [i \in 1..0 |-> 0]
  <2>2. Placed(pacer, at, 0) /\ Went(sent, pacer, at, 0)
    BY <1>1 DEF Placed, Went
  <2> HIDE DEF at
  <2> QED BY <2>1, <2>2 DEF Numbered
<1>6. 0 <= most * (0 + 0)
  BY SMT
<1> QED BY <1>2, <1>3, <1>4, <1>5, <1>6 DEF NumbersInv

LEMMA NumbersStep ==
  ASSUME VideoInv, NEW most \in Nat, \A size \in Sizes : size <= most, NumbersInv(most),
         [VideoNext]_videoVars
  PROVE  NumbersInv(most)'
<1>1. CASE UNCHANGED videoVars
  <2> USE <1>1 DEF videoVars, output, ghosts
  <2>1. Rewinds
    BY DEF Rewinds
  <2>2. \A p \in Nat : Passed(p) => Passed(p)'
    BY PassedKept
  <2>3. \A c \in Nat : OwedTo(c) => OwedTo(c)'
    BY OwedKept
  <2> QED BY <2>1, <2>2, <2>3, RewindNumbers, NoneNumbered
<1> QED
  BY <1>1, EncoderNumbers, MediaNumbers, SenderNumbersStep, ViewerNumbers DEF VideoNext

\* What ends where another begins has none of its numbers; what is within.
LEMMA Apart ==
  \A a, s, b, e, n \in Nat : a + s <= b /\ b + e <= n => ~(n < a + s)
OBVIOUS

LEMMA Within ==
  \A a, s, e, k, h \in Nat : a + s <= h /\ e <= k /\ k < s =>
    a + k \in Nat /\ a + k < h /\ a + e <= a + k /\ a + k < a + s
OBVIOUS

\* Below the modulus no number comes twice.
LEMMA DifferBelow ==
  ASSUME VideoInv, NEW hi \in Nat, Numbered(hi), hi < SeqModulus
  PROVE  NumbersFresh
<1>1. Numbered(hi)
  OBVIOUS
<1>2. SeqModulus \in Nat
  BY VideoSendAssumption
<1>3. PICK at : Placed(pacer, at, hi) /\ Went(sent, pacer, at, hi) /\ seq = At(hi)
  BY <1>1 DEF Numbered
<1>4. \A i \in 1..Len(pacer) :
        /\ at[i] \in Nat /\ pacer[i].size \in Nat \ {0} /\ pacer[i].next \in Nat
        /\ at[i] + pacer[i].size <= hi
        /\ \A j \in 1..Len(pacer) : i < j => at[i] + pacer[i].size <= at[j]
  <2>1. pacer \in Seq(QueuedFrame)
    BY DEF VideoInv, SenderTypes
  <2> QED BY <1>3, <2>1, QueueFrames DEF Placed, Framed
<1>5. ASSUME NEW i \in 1..Len(pacer), NEW x \in Waiting(i)
      PROVE  \E n \in Nat : /\ x = At(n) /\ n < hi /\ at[i] + pacer[i].next <= n
                            /\ n < at[i] + pacer[i].size
  <2>1. PICK k \in pacer[i].next..pacer[i].size - 1 : x = (pacer[i].first + k) % SeqModulus
    BY <1>5 DEF Waiting
  <2>2. k \in Nat /\ pacer[i].next <= k /\ k < pacer[i].size
    BY <1>4, <2>1
  <2>3. pacer[i].first = At(at[i])
    BY <1>3 DEF Placed
  <2>4. PICK a \in Nat : a = at[i]
    BY <1>4
  <2>5. k \in Int /\ (At(a) + k) % SeqModulus = At(a + k)
    BY <2>2, AtIs
  <2>6. /\ a + k \in Nat /\ a + k < hi /\ a + pacer[i].next <= a + k
        /\ a + k < a + pacer[i].size
    <3>1. pacer[i].size \in Nat /\ pacer[i].next \in Nat /\ a + pacer[i].size <= hi
      BY <1>4, <2>4
    <3> QED BY <2>2, <3>1, Within, Zenon
  <2>7. x = At(a + k)
    BY <2>1, <2>3, <2>4, <2>5, Zenon
  <2> QED BY <2>4, <2>6, <2>7, Zenon
<1>6. \A a \in Nat, b \in Nat : a <= hi /\ b <= hi /\ At(a) = At(b) => a = b
  <2> TAKE a \in Nat, b \in Nat
  <2> HAVE a <= hi /\ b <= hi /\ At(a) = At(b)
  <2>1. a < SeqModulus /\ b < SeqModulus
    BY <1>1, <1>2
  <2> QED BY <2>1, AtIs
<1>7. seq \notin sent
  <2> SUFFICES ASSUME NEW k \in Nat, seq = At(k), k < hi PROVE FALSE
    BY <1>3 DEF Went
  <2>1. k <= hi /\ hi <= hi /\ At(hi) = At(k)
    BY <1>1, <1>3
  <2>2. hi = k
    BY <1>1, <1>6, <2>1
  <2> QED BY <1>1, <2>2
<1>8. ASSUME NEW i \in 1..Len(pacer) PROVE Waiting(i) \cap (sent \cup {seq}) = {}
  <2> SUFFICES ASSUME NEW x \in Waiting(i), x \in sent \cup {seq} PROVE FALSE
    OBVIOUS
  <2>1. PICK n \in Nat : x = At(n) /\ n < hi /\ at[i] + pacer[i].next <= n
    BY <1>5
  <2>2. x # seq
    BY <1>1, <1>3, <1>6, <2>1
  <2>3. PICK k \in Nat : x = At(k) /\ k < hi /\ k < at[i] + pacer[i].next
    BY <1>3, <2>2 DEF Went
  <2>4. k <= hi /\ n <= hi /\ At(k) = At(n)
    BY <1>1, <2>1, <2>3
  <2>5. k = n
    BY <1>6, <2>4
  <2> QED BY <1>4, <2>1, <2>3, <2>5
<1>9. ASSUME NEW i \in 1..Len(pacer), NEW j \in 1..Len(pacer), i # j
      PROVE  Waiting(i) \cap Waiting(j) = {}
  <2> SUFFICES ASSUME NEW x \in Waiting(i), x \in Waiting(j) PROVE FALSE
    OBVIOUS
  <2>1. PICK n \in Nat : /\ x = At(n) /\ n < hi /\ at[i] + pacer[i].next <= n
                         /\ n < at[i] + pacer[i].size
    BY <1>5
  <2>2. PICK m \in Nat : /\ x = At(m) /\ m < hi /\ at[j] + pacer[j].next <= m
                         /\ m < at[j] + pacer[j].size
    BY <1>5
  <2>3. m <= hi /\ n <= hi /\ At(m) = At(n)
    BY <1>1, <2>1, <2>2
  <2>4. m = n
    BY <1>6, <2>3
  <2>5. /\ at[i] \in Nat /\ pacer[i].size \in Nat /\ pacer[i].next \in Nat
        /\ at[j] \in Nat /\ pacer[j].size \in Nat /\ pacer[j].next \in Nat
    BY <1>4
  <2>6. CASE i < j
    <3>1. at[i] + pacer[i].size <= at[j]
      BY <1>4, <2>6
    <3> QED BY <2>1, <2>2, <2>4, <2>5, <3>1, Apart, Zenon
  <2>7. CASE j < i
    <3>1. at[j] + pacer[j].size <= at[i]
      BY <1>4, <2>7
    <3> QED BY <2>1, <2>2, <2>4, <2>5, <3>1, Apart, Zenon
  <2> QED BY <1>9, <2>6, <2>7
<1>10. DOMAIN pacer = 1..Len(pacer)
  BY DEF VideoInv, SenderTypes
<1> QED BY <1>7, <1>8, <1>9, <1>10 DEF NumbersFresh

\* Nor while few packets are numbered.
LEMMA NumbersDiffer ==
  ASSUME VideoInv, NEW most \in Nat, NumbersInv(most),
         most * (MaxFrames + MaxEvents + 1) < SeqModulus
  PROVE  NumbersFresh
<1>1. PICK hi \in Nat, p \in Nat, c \in Nat :
        hi <= most * (p + c) /\ Numbered(hi) /\ Passed(p) /\ OwedTo(c)
  BY DEF NumbersInv
<1>2. hi < SeqModulus /\ SeqModulus \in Nat
  <2>1. MaxFrames \in Nat /\ MaxEvents \in Nat /\ SeqModulus \in Nat
    BY VideoSendAssumption
  <2>2. p <= MaxFrames
    <3>1. PICK x \in Nat : Follows(outq, Produced(encoder, encoded), x) /\ p <= x
      BY <1>1 DEF Passed
    <3>2. x <= Produced(encoder, encoded) /\ Produced(encoder, encoded) \in Nat
          /\ Produced(encoder, encoded) <= MaxFrames
      BY <2>1, <3>1 DEF Follows, Produced, VideoInv, OutputTypes, PlacesOK, FrameIndex
    <3> QED BY <2>1, <3>1, <3>2
  <2>3. c <= MaxEvents + 1
    <3>1. PICK n \in Nat : n = Cardinality(Priming)
      BY <1>1, FS_CardinalityType DEF OwedTo
    <3>2. counts.events \in Nat /\ counts.events <= MaxEvents /\ c + Owed(n) <= counts.events + 1
      BY <1>1, <3>1 DEF OwedTo, VideoInv, OutputTypes
    <3>3. Owed(n) \in Nat
      BY DEF Owed
    <3> QED BY <2>1, <3>2, <3>3
  <2> DEFINE u == p + c
             w == MaxFrames + MaxEvents + 1
  <2>4. u \in Nat /\ w \in Nat /\ u <= w
    BY <2>1, <2>2, <2>3
  <2> HIDE DEF u, w
  <2>5. most * u <= most * w /\ most * u \in Nat /\ most * w \in Nat
    BY <2>4, SMT
  <2> QED BY <1>1, <2>1, <2>5 DEF u, w
<1> QED BY <1>1, <1>2, DifferBelow

\* While fewer packets than numbers can have been sent, no two packets that are
\* sent or wait share a number, for all that discards, failures and cached
\* keyframes do: at most MaxEvents + 1 cached keyframes are numbered.
THEOREM NumbersFreshHolds ==
  ASSUME NEW most \in Nat, \A size \in Sizes : size <= most,
         most * (MaxFrames + MaxEvents + 1) < SeqModulus
  PROVE  VideoSpec => []NumbersFresh
<1>1. VideoInit => NumbersInv(most)
  BY NumbersStart
<1>2. VideoInv /\ NumbersInv(most) /\ [VideoNext]_videoVars => NumbersInv(most)'
  BY NumbersStep
<1>3. VideoInv /\ NumbersInv(most) => NumbersFresh
  BY NumbersDiffer
<1> QED BY <1>1, <1>2, <1>3, VideoInvHolds, PTL DEF VideoSpec

(***************************************************************************)
(* The output's session (OutputLifecycle).                                 *)
(***************************************************************************)
\* What start() and stop() do, one call after another.
Does == {"reset", "disconnected", "clear", "unpublish", "disconnect", "release",
         "lower", "join", "spawn"}
Moves == [do : Does, of : Joinable \cup {"session"}]

SessionTypes ==
  /\ wanted \in [Workers -> BOOLEAN]
  /\ thread \in [Joinable -> {"none", "runs", "over"}]
  /\ calls \in Seq(Moves)

Undoes(w) == {Step("lower", w), Step("join", w)}

\* A thread that will be made has none before it, or that one is joined first.
JoinedFirst ==
  \A i \in 1..Len(calls) : calls[i].do = "spawn" =>
    /\ calls[i].of \in Joinable \ {"stats"}
    /\ thread[calls[i].of] = "none" \/ \E j \in 1..i - 1 : calls[j] = Step("join", calls[i].of)

\* No call list makes a thread twice.
SpawnsOnce ==
  \A i, j \in 1..Len(calls) : calls[i].do = "spawn" /\ calls[j] = calls[i] => i = j

\* A worker runs, and nothing that is still to be done ends it.
IsUp(w) ==
  /\ thread[w] = "runs" /\ wanted[w]
  /\ \A i \in 1..Len(calls) : calls[i] \notin Undoes(w)

\* It is still to be made, and nothing after that ends it.
ComesUp(w) ==
  \E i \in 1..Len(calls) :
    /\ calls[i] = Step("spawn", w)
    /\ \A j \in 1..Len(calls) : j > i => calls[j] \notin Undoes(w)
GoesUp == running_ => \A w \in {"media", "summary"} : IsUp(w) \/ ComesUp(w)
\* After stop() began nothing is made, and what runs is still to be joined.
GoesDown ==
  stopped =>
    /\ \A i \in 1..Len(calls) : calls[i].do # "spawn"
    /\ \A t \in Joinable \ {"stats"} :
         thread[t] = "none" \/ \E i \in 1..Len(calls) : calls[i] = Step("join", t)
OneOrOther == running_ => ~stopped

\* The inductive invariant of the output's threads.
SessionInv ==
  /\ SessionTypes /\ JoinedFirst /\ SpawnsOnce /\ GoesUp
  /\ GoesDown /\ OneOrOther

\* The thread that works is there.
StarterRuns == starter # "idle" => thread["start"] = "runs"

\* What start() does.
LEMMA StartStepsAre ==
  /\ StartSteps \in Seq(Moves) /\ Len(StartSteps) = 9
  /\ StartSteps[1] = Step("reset", "session")
  /\ StartSteps[2] = Step("lower", "media")
  /\ StartSteps[3] = Step("join", "media") /\ StartSteps[4] = Step("spawn", "media")
  /\ StartSteps[5] = Step("lower", "summary")
  /\ StartSteps[6] = Step("join", "summary")
  /\ StartSteps[7] = Step("spawn", "summary")
  /\ StartSteps[8] = Step("join", "start")
  /\ StartSteps[9] = Step("spawn", "start")
<1>1. \A d \in Does, t \in Joinable \cup {"session"} : Step(d, t) \in Moves
  BY DEF Step, Moves
<1>2. /\ \A w \in Workers : StopWorker(w) \in Seq(Moves) /\ StartWorker(w) \in Seq(Moves)
      /\ Len(StartSteps) = 9
  <2>1. \A w \in Workers :
          /\ Step("lower", w) \in Moves /\ Step("join", w) \in Moves
          /\ Step("spawn", w) \in Moves
    BY <1>1 DEF Does, Joinable
  <2>2. \A w \in Workers : StopWorker(w) \in Seq(Moves)
    BY <2>1 DEF StopWorker
  <2>3. \A w \in Workers : <<Step("spawn", w)>> \in Seq(Moves)
    BY <2>1
  <2>4. \A w \in Workers : StartWorker(w) \in Seq(Moves)
    BY <2>2, <2>3, ConcatProperties DEF StartWorker
  <2>5. Len(StartSteps) = 9
    BY DEF StartSteps, StartWorker, StopWorker
  <2> QED BY <2>2, <2>4, <2>5
<1>3. /\ <<Step("reset", "session")>> \in Seq(Moves)
      /\ <<Step("join", "start"), Step("spawn", "start")>> \in Seq(Moves)
  BY <1>1 DEF Does, Joinable
<1>4. "media" \in Workers /\ "summary" \in Workers /\ "stats" \in Workers
  BY DEF Workers
<1>5. TRUE OBVIOUS
<1>6. StartSteps \in Seq(Moves)
  <2>1. <<Step("reset", "session")>> \o StartWorker("media") \in Seq(Moves)
    BY <1>2, <1>3, <1>4, <1>5, ConcatProperties
  <2>2. <<Step("reset", "session")>> \o StartWorker("media") \o StartWorker("summary") \in Seq(Moves)
    BY <2>1, <1>2, <1>3, <1>4, <1>5, ConcatProperties
  <2>3. <<Step("reset", "session")>> \o StartWorker("media") \o StartWorker("summary") \o <<Step("join", "start"), Step("spawn", "start")>> \in Seq(Moves)
    BY <2>2, <1>2, <1>3, <1>4, <1>5, ConcatProperties
  <2> QED BY <2>3 DEF StartSteps
<1>7. /\ StartSteps[1] = Step("reset", "session")
      /\ StartSteps[2] = Step("lower", "media")
      /\ StartSteps[3] = Step("join", "media")
      /\ StartSteps[4] = Step("spawn", "media")
      /\ StartSteps[5] = Step("lower", "summary")
      /\ StartSteps[6] = Step("join", "summary")
      /\ StartSteps[7] = Step("spawn", "summary")
      /\ StartSteps[8] = Step("join", "start")
      /\ StartSteps[9] = Step("spawn", "start")
  BY DEF StartSteps, StartWorker, StopWorker
<1> QED BY <1>2, <1>6, <1>7

\* What stop() does when nothing runs.
LEMMA BriefStopAre ==
  /\ BriefStop \in Seq(Moves) /\ Len(BriefStop) = 8
  /\ BriefStop[1] = Step("disconnected", "session")
  /\ BriefStop[2] = Step("lower", "summary")
  /\ BriefStop[3] = Step("join", "summary") /\ BriefStop[4] = Step("lower", "stats")
  /\ BriefStop[5] = Step("join", "stats") /\ BriefStop[6] = Step("lower", "media")
  /\ BriefStop[7] = Step("join", "media") /\ BriefStop[8] = Step("join", "start")
<1>1. \A d \in Does, t \in Joinable \cup {"session"} : Step(d, t) \in Moves
  BY DEF Step, Moves
<1>2. /\ \A w \in Workers : StopWorker(w) \in Seq(Moves) /\ StartWorker(w) \in Seq(Moves)
      /\ Len(BriefStop) = 8
  <2>1. \A w \in Workers :
          /\ Step("lower", w) \in Moves /\ Step("join", w) \in Moves
          /\ Step("spawn", w) \in Moves
    BY <1>1 DEF Does, Joinable
  <2>2. \A w \in Workers : StopWorker(w) \in Seq(Moves)
    BY <2>1 DEF StopWorker
  <2>3. \A w \in Workers : <<Step("spawn", w)>> \in Seq(Moves)
    BY <2>1
  <2>4. \A w \in Workers : StartWorker(w) \in Seq(Moves)
    BY <2>2, <2>3, ConcatProperties DEF StartWorker
  <2>5. Len(BriefStop) = 8
    BY DEF BriefStop, StopWorkers, StopWorker
  <2> QED BY <2>2, <2>4, <2>5
<1>3. /\ <<Step("disconnected", "session")>> \in Seq(Moves)
      /\ <<Step("join", "start")>> \in Seq(Moves)
  BY <1>1 DEF Does, Joinable
<1>4. "media" \in Workers /\ "summary" \in Workers /\ "stats" \in Workers
  BY DEF Workers
<1>5. StopWorkers \in Seq(Moves)
  <2>1. StopWorker("summary") \o StopWorker("stats") \in Seq(Moves)
    BY <1>2, <1>4, ConcatProperties
  <2> QED BY <2>1, <1>2, <1>4, ConcatProperties DEF StopWorkers
<1>6. BriefStop \in Seq(Moves)
  <2>1. <<Step("disconnected", "session")>> \o StopWorkers \in Seq(Moves)
    BY <1>2, <1>3, <1>4, <1>5, ConcatProperties
  <2>2. <<Step("disconnected", "session")>> \o StopWorkers \o <<Step("join", "start")>> \in Seq(Moves)
    BY <2>1, <1>2, <1>3, <1>4, <1>5, ConcatProperties
  <2> QED BY <2>2 DEF BriefStop
<1>7. /\ BriefStop[1] = Step("disconnected", "session")
      /\ BriefStop[2] = Step("lower", "summary")
      /\ BriefStop[3] = Step("join", "summary")
      /\ BriefStop[4] = Step("lower", "stats")
      /\ BriefStop[5] = Step("join", "stats")
      /\ BriefStop[6] = Step("lower", "media")
      /\ BriefStop[7] = Step("join", "media")
      /\ BriefStop[8] = Step("join", "start")
  BY DEF BriefStop, StopWorkers, StopWorker
<1> QED BY <1>2, <1>6, <1>7

\* What stop() does otherwise.
LEMMA FullStopAre ==
  /\ FullStop \in Seq(Moves) /\ Len(FullStop) = 12
  /\ FullStop[1] = Step("disconnected", "session")
  /\ FullStop[2] = Step("lower", "summary")
  /\ FullStop[3] = Step("join", "summary") /\ FullStop[4] = Step("lower", "stats")
  /\ FullStop[5] = Step("join", "stats") /\ FullStop[6] = Step("lower", "media")
  /\ FullStop[7] = Step("join", "media") /\ FullStop[8] = Step("clear", "session")
  /\ FullStop[9] = Step("unpublish", "session")
  /\ FullStop[10] = Step("disconnect", "session")
  /\ FullStop[11] = Step("join", "start")
  /\ FullStop[12] = Step("release", "session")
<1>1. \A d \in Does, t \in Joinable \cup {"session"} : Step(d, t) \in Moves
  BY DEF Step, Moves
<1>2. /\ \A w \in Workers : StopWorker(w) \in Seq(Moves) /\ StartWorker(w) \in Seq(Moves)
      /\ Len(FullStop) = 12
  <2>1. \A w \in Workers :
          /\ Step("lower", w) \in Moves /\ Step("join", w) \in Moves
          /\ Step("spawn", w) \in Moves
    BY <1>1 DEF Does, Joinable
  <2>2. \A w \in Workers : StopWorker(w) \in Seq(Moves)
    BY <2>1 DEF StopWorker
  <2>3. \A w \in Workers : <<Step("spawn", w)>> \in Seq(Moves)
    BY <2>1
  <2>4. \A w \in Workers : StartWorker(w) \in Seq(Moves)
    BY <2>2, <2>3, ConcatProperties DEF StartWorker
  <2>5. Len(FullStop) = 12
    BY DEF FullStop, StopWorkers, StopWorker
  <2> QED BY <2>2, <2>4, <2>5
<1>3. /\ <<Step("disconnected", "session")>> \in Seq(Moves)
      /\ <<Step("clear", "session"), Step("unpublish", "session"), Step("disconnect", "session"),
         Step("join", "start"), Step("release", "session")>> \in Seq(Moves)
  BY <1>1 DEF Does, Joinable
<1>4. "media" \in Workers /\ "summary" \in Workers /\ "stats" \in Workers
  BY DEF Workers
<1>5. StopWorkers \in Seq(Moves)
  <2>1. StopWorker("summary") \o StopWorker("stats") \in Seq(Moves)
    BY <1>2, <1>4, ConcatProperties
  <2> QED BY <2>1, <1>2, <1>4, ConcatProperties DEF StopWorkers
<1>6. FullStop \in Seq(Moves)
  <2>1. <<Step("disconnected", "session")>> \o StopWorkers \in Seq(Moves)
    BY <1>2, <1>3, <1>4, <1>5, ConcatProperties
  <2>2. <<Step("disconnected", "session")>> \o StopWorkers \o <<Step("clear", "session"), Step("unpublish", "session"), Step("disconnect", "session"),
         Step("join", "start"), Step("release", "session")>> \in Seq(Moves)
    BY <2>1, <1>2, <1>3, <1>4, <1>5, ConcatProperties
  <2> QED BY <2>2 DEF FullStop
<1>7. /\ FullStop[1] = Step("disconnected", "session")
      /\ FullStop[2] = Step("lower", "summary")
      /\ FullStop[3] = Step("join", "summary")
      /\ FullStop[4] = Step("lower", "stats")
      /\ FullStop[5] = Step("join", "stats")
      /\ FullStop[6] = Step("lower", "media")
      /\ FullStop[7] = Step("join", "media")
      /\ FullStop[8] = Step("clear", "session")
      /\ FullStop[9] = Step("unpublish", "session")
      /\ FullStop[10] = Step("disconnect", "session")
      /\ FullStop[11] = Step("join", "start")
      /\ FullStop[12] = Step("release", "session")
  BY DEF FullStop, StopWorkers, StopWorker
<1> QED BY <1>2, <1>6, <1>7


\* Before the first start().
LEMMA SessionInit == OutputInit => SessionInv
<1> SUFFICES ASSUME OutputInit PROVE SessionInv
  OBVIOUS
<1>1. calls \in Seq(Moves) /\ Len(calls) = 0
  BY EmptySeq DEF OutputInit
<1>2. SessionTypes
  BY <1>1 DEF OutputInit, SessionTypes
<1>3. JoinedFirst /\ SpawnsOnce
  BY <1>1 DEF JoinedFirst, SpawnsOnce
<1> QED BY <1>2, <1>3 DEF OutputInit, SessionInv, GoesUp, GoesDown, OneOrOther

\* The first call is taken off the list.
LEMMA Taken ==
  ASSUME SessionTypes, NEW what, NEW t, Take(what, t)
  PROVE  /\ calls' \in Seq(Moves) /\ Len(calls) \in Nat /\ Len(calls) > 0
         /\ Len(calls') = Len(calls) - 1
         /\ \A i \in 1..Len(calls') : calls'[i] = calls[i + 1]
         /\ calls[1] = Step(what, t) /\ Step(what, t) \in Moves
         /\ running_' = running_ /\ stopped' = stopped
<1>1. calls \in Seq(Moves) /\ calls # <<>>
  BY DEF SessionTypes, Take
<1>2. /\ calls' \in Seq(Moves) /\ Len(calls') = Len(calls) - 1
      /\ \A i \in 1..Len(calls') : calls'[i] = calls[i + 1]
  BY <1>1, HeadTailProperties DEF Take
<1>3. Len(calls) \in Nat \ {0}
  BY <1>1, EmptySeq
<1>4. Head(calls) = calls[1] /\ Head(calls) \in Moves
  BY <1>1, HeadTailProperties
<1> QED BY <1>2, <1>3, <1>4 DEF Take

\* What a step of start() or stop() does to the threads.
ControlMay(what, t) ==
  /\ Take(what, t)
  /\ thread' \in [Joinable -> {"none", "runs", "over"}]
  /\ wanted' \in [Workers -> BOOLEAN]
  /\ \A u \in Joinable :
       /\ Step(what, t) \notin {Step("join", u), Step("spawn", u)} => thread'[u] = thread[u]
       /\ Step(what, t) = Step("join", u) => thread'[u] = "none"
       /\ Step(what, t) = Step("spawn", u) => thread'[u] = "runs"
  /\ \A w \in Workers :
       /\ Step(what, t) \notin {Step("lower", w), Step("spawn", w)} => wanted'[w] = wanted[w]
       /\ Step(what, t) = Step("spawn", w) => wanted'[w] = TRUE

\* A call keeps the invariant.
LEMMA ControlKeeps ==
  ASSUME SessionInv, NEW what, NEW t, ControlMay(what, t)
  PROVE  SessionInv'
<1> USE Taken DEF ControlMay
<1>0. SessionTypes
  BY DEF SessionInv
<1>a. \A d, e, u, v : Step(d, u) = Step(e, v) <=> d = e /\ u = v
  BY DEF Step
<1>b. \A d, u : Step(d, u).do = d /\ Step(d, u).of = u
  BY DEF Step
<1>c. \A m \in Moves : m = Step(m.do, m.of)
  BY DEF Step, Moves
<1>d. /\ calls \in Seq(Moves) /\ Len(calls) \in Nat /\ Len(calls) > 0
      /\ \A i \in 1..Len(calls) : calls[i] \in Moves
  BY <1>0, ElementOfSeq DEF SessionTypes
<1>e. \A i \in 1..Len(calls') : i + 1 \in 1..Len(calls) /\ calls'[i] = calls[i + 1]
  BY <1>0, <1>d
<1>g. \A i \in 1..Len(calls) : i = 1 \/ (i - 1 \in 1..Len(calls') /\ calls'[i - 1] = calls[i])
  BY <1>0, <1>d
<1>f. calls[1] = Step(what, t)
  BY <1>0
<1>h. /\ 1 \in 1..Len(calls) /\ 1..Len(calls') \subseteq Nat
      /\ 1..Len(calls) \subseteq Nat
  BY <1>d
<1> HIDE DEF Step
<1>1. SessionTypes'
  BY <1>0 DEF SessionTypes
<1>2. JoinedFirst'
  <2> SUFFICES ASSUME NEW i \in 1..Len(calls'), calls'[i].do = "spawn"
               PROVE  /\ calls'[i].of \in Joinable \ {"stats"}
                      /\ thread'[calls'[i].of] = "none"
                         \/ \E j \in 1..i - 1 : calls'[j] = Step("join", calls'[i].of)
    BY DEF JoinedFirst
  <2> DEFINE u == calls[i + 1].of
  <2>1. /\ i + 1 \in 1..Len(calls) /\ calls[i + 1].do = "spawn" /\ calls'[i].of = u
        /\ calls[i + 1] \in Moves /\ calls[i + 1] = Step("spawn", u)
    BY <1>e, <1>d, <1>c
  <2>2. /\ u \in Joinable \ {"stats"}
        /\ (thread[u] = "none" \/ \E j \in 1..i + 1 - 1 : calls[j] = Step("join", u))
    BY <2>1 DEF SessionInv, JoinedFirst
  <2>3. Step(what, t) # Step("spawn", u)
    BY <2>1, <1>f, <1>h DEF SessionInv, SpawnsOnce
  <2>4. u \in Joinable
    BY <2>2
  <2>5. CASE Step(what, t) = Step("join", u)
    BY <2>5, <2>4, <2>1, <2>2
  <2>6. CASE Step(what, t) # Step("join", u)
    <3>1. thread'[u] = thread[u]
      BY <2>6, <2>3, <2>4
    <3>2. CASE thread[u] = "none"
      BY <3>1, <3>2, <2>1, <2>2
    <3>3. CASE \E j \in 1..i + 1 - 1 : calls[j] = Step("join", u)
      <4>1. PICK j \in 1..i : calls[j] = Step("join", u)
        BY <3>3
      <4>2. /\ j # 1 /\ j \in 1..Len(calls) /\ j - 1 \in 1..i - 1
            /\ calls'[j - 1] = calls[j]
        BY <4>1, <1>f, <1>g, <2>6, <2>1
      <4> QED BY <4>1, <4>2, <2>1, <2>2
    <3> QED BY <3>2, <3>3, <2>2
  <2> QED BY <2>5, <2>6
<1>3. SpawnsOnce'
  BY <1>e, <1>h DEF SessionInv, SpawnsOnce
<1>4. GoesUp'
  <2> SUFFICES ASSUME running_, NEW w \in {"media", "summary"}
               PROVE  IsUp(w)' \/ ComesUp(w)'
    BY <1>0 DEF GoesUp
  <2>1. w \in Workers /\ w \in Joinable
    BY DEF Workers, Joinable
  <2>2. CASE IsUp(w)
    <3>1. Step(what, t) \notin Undoes(w)
      BY <2>2, <1>f, <1>h DEF IsUp
    <3>2. thread'[w] = thread[w] \/ thread'[w] = "runs"
      BY <3>1, <2>1 DEF Undoes
    <3>3. wanted'[w] = wanted[w] \/ wanted'[w] = TRUE
      BY <3>1, <2>1 DEF Undoes
    <3>4. \A i \in 1..Len(calls') : calls'[i] \notin Undoes(w)
      BY <2>2, <1>e DEF IsUp
    <3> QED BY <2>2, <3>2, <3>3, <3>4 DEF IsUp
  <2>3. CASE ComesUp(w)
    <3>1. PICK i \in 1..Len(calls) :
            /\ calls[i] = Step("spawn", w)
            /\ \A j \in 1..Len(calls) : j > i => calls[j] \notin Undoes(w)
      BY <2>3 DEF ComesUp
    <3>2. CASE i = 1
      <4>1. Step(what, t) = Step("spawn", w)
        BY <3>1, <3>2, <1>f
      <4>2. thread'[w] = "runs" /\ wanted'[w] = TRUE
        BY <4>1, <2>1
      <4>3. \A j \in 1..Len(calls') : calls'[j] \notin Undoes(w)
        BY <3>1, <3>2, <1>e, <1>h
      <4> QED BY <4>2, <4>3 DEF IsUp
    <3>3. CASE i # 1
      <4>1. i - 1 \in 1..Len(calls') /\ calls'[i - 1] = Step("spawn", w)
        BY <3>1, <3>3, <1>g
      <4>2. \A j \in 1..Len(calls') : j > i - 1 => calls'[j] \notin Undoes(w)
        BY <3>1, <1>e, <1>h
      <4> QED BY <4>1, <4>2 DEF ComesUp
    <3> QED BY <3>2, <3>3
  <2> QED BY <2>2, <2>3, <1>0 DEF SessionInv, GoesUp
<1>5. GoesDown'
  <2> SUFFICES ASSUME stopped
               PROVE  /\ \A i \in 1..Len(calls') : calls'[i].do # "spawn"
                      /\ \A u \in Joinable \ {"stats"} :
                           thread'[u] = "none" \/ \E i \in 1..Len(calls') : calls'[i] = Step("join", u)
    BY <1>0 DEF GoesDown
  <2>1. \A i \in 1..Len(calls) : calls[i].do # "spawn"
    BY DEF SessionInv, GoesDown
  <2>2. \A i \in 1..Len(calls') : calls'[i].do # "spawn"
    BY <2>1, <1>e
  <2>3. what # "spawn"
    BY <2>1, <1>f, <1>h, <1>b
  <2>4. ASSUME NEW u \in Joinable \ {"stats"}
        PROVE  thread'[u] = "none" \/ \E i \in 1..Len(calls') : calls'[i] = Step("join", u)
    <3>1. CASE Step(what, t) = Step("join", u)
      BY <3>1
    <3>2. CASE Step(what, t) # Step("join", u)
      <4>1. thread'[u] = thread[u]
        BY <3>2, <2>3, <1>a
      <4>2. thread[u] = "none" \/ \E i \in 1..Len(calls) : calls[i] = Step("join", u)
        BY DEF SessionInv, GoesDown
      <4> QED BY <4>1, <4>2, <3>2, <1>f, <1>g
    <3> QED BY <3>1, <3>2
  <2> QED BY <2>2, <2>4
<1>6. OneOrOther'
  BY <1>0 DEF SessionInv, OneOrOther
<1> QED BY <1>1, <1>2, <1>3, <1>4, <1>5, <1>6 DEF SessionInv

\* What everyone but start() and stop() may do to the threads.
OthersMay ==
  /\ UNCHANGED <<calls, stopped>> /\ (running_' => running_)
  /\ wanted' \in [Workers -> BOOLEAN]
  /\ thread' \in [Joinable -> {"none", "runs", "over"}]
  /\ \A w \in Workers \ {"stats"} : wanted'[w] = wanted[w]
  /\ \A t \in Joinable \ {"stats"} :
       \/ thread'[t] = thread[t]
       \/ thread[t] = "runs" /\ thread'[t] = "over" /\ (t \in Workers => wanted[t] = FALSE)

\* So does everyone else.
LEMMA OthersKeep == ASSUME SessionInv, OthersMay PROVE SessionInv'
<1> USE DEF SessionInv, OthersMay
<1>1. SessionTypes'
  BY DEF SessionTypes
<1>2. JoinedFirst' /\ SpawnsOnce'
  BY DEF JoinedFirst, SpawnsOnce
<1>3. ASSUME NEW w \in {"media", "summary"}, IsUp(w) PROVE IsUp(w)'
  BY <1>3 DEF IsUp, Workers, Joinable
<1>4. ASSUME NEW w \in {"media", "summary"}, ComesUp(w) PROVE ComesUp(w)'
  BY <1>4 DEF ComesUp
<1>5. GoesUp'
  BY <1>3, <1>4 DEF GoesUp
<1>6. GoesDown'
  BY DEF GoesDown
<1> QED BY <1>1, <1>2, <1>5, <1>6 DEF OneOrOther

\* start() begins.
LEMMA StartKeeps == ASSUME SessionInv, Start PROVE SessionInv'
<1> HIDE DEF Step
<1>0. /\ calls' = StartSteps /\ running_' = TRUE /\ stopped' = FALSE
      /\ thread' = thread /\ wanted' = wanted
  BY DEF Start, threads
<1>1. /\ calls' \in Seq(Moves) /\ Len(calls') = 9
      /\ calls'[1] = Step("reset", "session") /\ calls'[2] = Step("lower", "media")
      /\ calls'[3] = Step("join", "media") /\ calls'[4] = Step("spawn", "media")
      /\ calls'[5] = Step("lower", "summary") /\ calls'[6] = Step("join", "summary")
      /\ calls'[7] = Step("spawn", "summary") /\ calls'[8] = Step("join", "start")
      /\ calls'[9] = Step("spawn", "start")
  BY <1>0, StartStepsAre
<1>2. \A i \in 1..9 : calls'[i].do = "spawn" => i \in {4, 7, 9}
  BY <1>1 DEF Step
<1>3. calls'[4].of = "media" /\ calls'[7].of = "summary" /\ calls'[9].of = "start"
  BY <1>1 DEF Step
<1>4. SessionTypes'
  BY <1>0, <1>1 DEF SessionInv, SessionTypes
<1>5. JoinedFirst'
  <2>1. 3 \in 1..4 - 1 /\ 6 \in 1..7 - 1 /\ 8 \in 1..9 - 1
    OBVIOUS
  <2>2. {"media", "summary", "start"} \subseteq Joinable \ {"stats"}
    BY DEF Joinable, Workers
  <2>3. ASSUME NEW i \in 1..Len(calls'), calls'[i].do = "spawn"
        PROVE  /\ calls'[i].of \in Joinable \ {"stats"}
               /\ \E j \in 1..i - 1 : calls'[j] = Step("join", calls'[i].of)
    <3>1. i \in {4, 7, 9}
      BY <1>1, <1>2, <2>3
    <3>2. CASE i = 4
      BY <3>2, <1>1, <1>3, <2>1, <2>2
    <3>3. CASE i = 7
      BY <3>3, <1>1, <1>3, <2>1, <2>2
    <3>4. CASE i = 9
      BY <3>4, <1>1, <1>3, <2>1, <2>2
    <3> QED BY <3>1, <3>2, <3>3, <3>4
  <2> QED BY <2>3 DEF JoinedFirst
<1>6. SpawnsOnce'
  <2>1. ASSUME NEW i \in 1..Len(calls'), NEW j \in 1..Len(calls'),
               calls'[i].do = "spawn", calls'[j] = calls'[i]
        PROVE  i = j
    <3>1. i \in {4, 7, 9} /\ j \in {4, 7, 9}
      BY <1>1, <1>2, <2>1
    <3> QED BY <3>1, <1>3, <2>1
  <2> QED BY <2>1 DEF SpawnsOnce
<1>7. GoesUp'
  <2>1. \A w \in {"media", "summary"}, j \in 1..9 : calls'[j] \in Undoes(w) =>
          (w = "media" /\ j \in {2, 3}) \/ (w = "summary" /\ j \in {5, 6})
    <3> SUFFICES ASSUME NEW w \in {"media", "summary"}, NEW j \in 1..9, calls'[j] \in Undoes(w)
                 PROVE  (w = "media" /\ j \in {2, 3}) \/ (w = "summary" /\ j \in {5, 6})
      OBVIOUS
    <3>1. calls'[j].of = w /\ calls'[j].do \in {"lower", "join"}
      BY DEF Undoes, Step
    <3>2. j \in {1, 2, 3, 4, 5, 6, 7, 8, 9}
      OBVIOUS
    <3>3. /\ calls'[1].of = "session" /\ calls'[4].do = "spawn"
          /\ calls'[7].do = "spawn"
          /\ calls'[8].of = "start" /\ calls'[9].of = "start"
          /\ calls'[2].of = "media" /\ calls'[3].of = "media"
          /\ calls'[5].of = "summary" /\ calls'[6].of = "summary"
      BY <1>1 DEF Step
    <3> QED BY <3>1, <3>2, <3>3
  <2>2. ComesUp("media")'
    BY <1>1, <2>1 DEF ComesUp
  <2>3. ComesUp("summary")'
    BY <1>1, <2>1 DEF ComesUp
  <2> QED BY <2>2, <2>3 DEF GoesUp
<1> QED BY <1>0, <1>4, <1>5, <1>6, <1>7 DEF SessionInv, GoesDown, OneOrOther

\* stop() begins.
LEMMA StopKeeps == ASSUME SessionInv, Stop PROVE SessionInv'
<1> HIDE DEF Step
<1>0. /\ running_' = FALSE /\ stopped' = TRUE /\ thread' = thread
      /\ wanted' = wanted
      /\ calls' = BriefStop \/ calls' = FullStop
  BY DEF Stop, threads
<1>1. /\ calls' \in Seq(Moves)
      /\ \A i \in 1..Len(calls') : calls'[i].do # "spawn"
      /\ \A t \in Joinable :
           \E i \in 1..Len(calls') : calls'[i] = Step("join", t)
  <2>1. CASE calls' = BriefStop
    <3>1. \A i \in 1..8 : calls'[i].do # "spawn"
      BY <2>1, BriefStopAre DEF Step
    <3>2. /\ calls'[3] = Step("join", "summary")
          /\ calls'[5] = Step("join", "stats")
          /\ calls'[7] = Step("join", "media") /\ calls'[8] = Step("join", "start")
      BY <2>1, BriefStopAre
    <3>3. Len(calls') = 8 /\ calls' \in Seq(Moves)
      BY <2>1, BriefStopAre
    <3> QED BY <3>1, <3>2, <3>3 DEF Joinable, Workers
  <2>2. CASE calls' = FullStop
    <3>1. \A i \in 1..12 : calls'[i].do # "spawn"
      BY <2>2, FullStopAre DEF Step
    <3>2. /\ calls'[3] = Step("join", "summary")
          /\ calls'[5] = Step("join", "stats")
          /\ calls'[7] = Step("join", "media") /\ calls'[11] = Step("join", "start")
      BY <2>2, FullStopAre
    <3>3. Len(calls') = 12 /\ calls' \in Seq(Moves)
      BY <2>2, FullStopAre
    <3> QED BY <3>1, <3>2, <3>3 DEF Joinable, Workers
  <2> QED BY <1>0, <2>1, <2>2
<1>2. SessionTypes'
  BY <1>0, <1>1 DEF SessionInv, SessionTypes
<1>3. JoinedFirst' /\ SpawnsOnce'
  BY <1>1 DEF JoinedFirst, SpawnsOnce
<1>4. GoesUp' /\ OneOrOther'
  BY <1>0 DEF GoesUp, OneOrOther
<1>5. GoesDown'
  BY <1>1 DEF GoesDown
<1> QED BY <1>2, <1>3, <1>4, <1>5 DEF SessionInv

\* One of their calls.
LEMMA ControlStepKeeps == ASSUME SessionInv, ControlStep PROVE SessionInv'
<1>0. /\ wanted \in [Workers -> BOOLEAN]
      /\ thread \in [Joinable -> {"none", "runs", "over"}]
      /\ calls \in Seq(Moves)
  BY DEF SessionInv, SessionTypes
<1>a. \A d, e, u, v : Step(d, u) = Step(e, v) <=> d = e /\ u = v
  BY DEF Step
<1>1. ASSUME NEW what, Take(what, "session"), what \notin {"lower", "join", "spawn"},
             UNCHANGED threads
      PROVE  SessionInv'
  <2>1. ControlMay(what, "session")
    BY <1>0, <1>1, <1>a DEF ControlMay, threads
  <2> QED BY <2>1, ControlKeeps
<1>2. CASE Reset \/ Disconnected \/ ClearCallbacks \/ StopsPublishing \/ ClosesSignaling \/ EndsCapture
  BY <1>1, <1>2
  DEF Reset, Disconnected, ClearCallbacks, StopsPublishing, ClosesSignaling,
      EndsCapture
<1>3. ASSUME NEW w \in Workers, Lower(w) PROVE SessionInv'
  <2>1. /\ Take("lower", w) /\ thread' = thread
        /\ wanted' = [wanted EXCEPT ![w] = FALSE]
    BY <1>3 DEF Lower
  <2>2. /\ wanted' \in [Workers -> BOOLEAN]
        /\ \A u \in Workers : u # w => wanted'[u] = wanted[u]
    BY <2>1, <1>0
  <2> HIDE DEF Step
  <2>3. \A u \in Workers :
          /\ Step("lower", w) # Step("lower", u) => wanted'[u] = wanted[u]
          /\ Step("lower", w) # Step("spawn", u)
    BY <1>a, <2>2
  <2>4. \A u \in Joinable : /\ Step("lower", w) # Step("join", u) /\ Step("lower", w) # Step("spawn", u)
                             /\ thread'[u] = thread[u]
    BY <1>a, <2>1
  <2>5. thread' \in [Joinable -> {"none", "runs", "over"}]
    BY <1>0, <2>1
  <2>6. ControlMay("lower", w)
    BY <2>1, <2>2, <2>3, <2>4, <2>5 DEF ControlMay
  <2> QED BY <2>6, ControlKeeps
<1>4. ASSUME NEW t \in Joinable, Join(t) PROVE SessionInv'
  <2>1. /\ Take("join", t) /\ wanted' = wanted
        /\ thread' = [thread EXCEPT ![t] = "none"]
    BY <1>4 DEF Join
  <2>2. /\ thread' \in [Joinable -> {"none", "runs", "over"}] /\ thread'[t] = "none"
        /\ \A u \in Joinable : u # t => thread'[u] = thread[u]
    BY <2>1, <1>0
  <2> HIDE DEF Step
  <2>3. ControlMay("join", t)
    BY <1>0, <1>a, <2>1, <2>2 DEF ControlMay
  <2> QED BY <2>3, ControlKeeps
<1>5. ASSUME NEW t \in Joinable, Spawn(t) PROVE SessionInv'
  <2>1. /\ Take("spawn", t) /\ thread' = [thread EXCEPT ![t] = "runs"]
        /\ wanted' = IF t = "start" THEN wanted ELSE [wanted EXCEPT ![t] = TRUE]
    BY <1>5 DEF Spawn
  <2>2. /\ thread' \in [Joinable -> {"none", "runs", "over"}] /\ thread'[t] = "runs"
        /\ \A u \in Joinable : u # t => thread'[u] = thread[u]
    BY <2>1, <1>0
  <2>3. /\ wanted' \in [Workers -> BOOLEAN]
        /\ \A u \in Workers : u # t => wanted'[u] = wanted[u]
        /\ t \in Workers => wanted'[t] = TRUE
    BY <2>1, <1>0 DEF Workers
  <2> HIDE DEF Step
  <2>4. \A u \in Workers :
          /\ Step("spawn", t) # Step("spawn", u) => wanted'[u] = wanted[u]
          /\ Step("spawn", t) = Step("spawn", u) => wanted'[u] = TRUE
    BY <1>a, <2>3
  <2>5. \A u \in Joinable :
          /\ Step("spawn", t) # Step("join", u)
          /\ Step("spawn", t) # Step("spawn", u) => thread'[u] = thread[u]
          /\ Step("spawn", t) = Step("spawn", u) => thread'[u] = "runs"
    BY <1>a, <2>2
  <2>6. ControlMay("spawn", t)
    BY <2>1, <2>2, <2>3, <2>4, <2>5 DEF ControlMay
  <2> QED BY <2>6, ControlKeeps
<1> QED BY <1>2, <1>3, <1>4, <1>5 DEF ControlStep

\* A step of any other thread.
LEMMA OtherStepKeeps ==
  ASSUME SessionInv, StarterRuns,
         \/ \E w \in Workers : WorkerLeaves(w)
         \/ StarterStep \/ SocketOpens \/ SocketLost \/ CallbackStep \/ RequestArrives \/ AskerStep
  PROVE  SessionInv'
<1>0. /\ wanted \in [Workers -> BOOLEAN]
      /\ thread \in [Joinable -> {"none", "runs", "over"}]
  BY DEF SessionInv, SessionTypes
<1>1. ASSUME UNCHANGED <<calls, stopped>>, running_' => running_,
             UNCHANGED threads
      PROVE  SessionInv'
  <2>1. OthersMay
    BY <1>0, <1>1 DEF threads, OthersMay
  <2> QED BY <2>1, OthersKeep
<1>2. ASSUME NEW w \in Workers, WorkerLeaves(w) PROVE SessionInv'
  <2>1. /\ UNCHANGED <<calls, stopped, running_, wanted>>
        /\ thread' = [thread EXCEPT ![w] = "over"]
        /\ thread[w] = "runs" /\ ~wanted[w]
    BY <1>2 DEF WorkerLeaves, flags
  <2>2. wanted[w] = FALSE /\ w \in Joinable
    BY <1>0, <2>1 DEF Joinable
  <2>3. /\ wanted' \in [Workers -> BOOLEAN]
        /\ thread' \in [Joinable -> {"none", "runs", "over"}]
        /\ \A t \in Joinable :
             thread'[t] = thread[t] \/ (t = w /\ thread'[t] = "over")
    BY <1>0, <2>1
  <2>4. OthersMay
    BY <2>1, <2>2, <2>3 DEF OthersMay
  <2> QED BY <2>4, OthersKeep
<1>3. ASSUME UNCHANGED <<calls, stopped, wanted>>, running_' => running_, starter # "idle",
             thread' = thread \/ thread' = [thread EXCEPT !["start"] = "over"]
      PROVE  SessionInv'
  <2>1. thread["start"] = "runs"
    BY <1>3 DEF StarterRuns
  <2>2. /\ wanted' \in [Workers -> BOOLEAN]
        /\ thread' \in [Joinable -> {"none", "runs", "over"}]
        /\ \A t \in Joinable : thread'[t] = thread[t] \/ (t = "start" /\ thread'[t] = "over")
        /\ "start" \notin Workers
    BY <1>0, <1>3 DEF Workers
  <2>3. OthersMay
    BY <1>3, <2>1, <2>2 DEF OthersMay
  <2> QED BY <2>3, OthersKeep
<1>4. CASE StarterStep
  <2>1. UNCHANGED <<calls, stopped, wanted>> /\ (running_' => running_) /\ starter # "idle"
        /\ (thread' = thread \/ thread' = [thread EXCEPT !["start"] = "over"])
    BY <1>4
    DEF StarterStep, InstallCallbacks, StarterCrashes, CallsConnect,
        ConnectReturns, StarterFails,
                StarterEnds, flags, threads
  <2> QED BY <1>3, <2>1
<1>5. CASE SocketOpens \/ SocketLost \/ CallbackStep \/ RequestArrives
  <2>1. UNCHANGED <<calls, stopped, wanted, thread>> /\ (running_' => running_)
    BY <1>5
    DEF SocketOpens, SocketLost, CallbackStep, RequestArrives, Publishes,
        StoresConnected,
         BeginsCapture, StoresCapturing, CaptureRefused, CallbackKeeps,
         AskerKeeps, flags, threads
  <2> QED BY <1>1, <2>1 DEF threads
<1>6. CASE AskerStep
  <2>1. /\ UNCHANGED <<calls, stopped>> /\ running_' = running_
        /\ wanted' = wanted \/ wanted' = [wanted EXCEPT !["stats"] = TRUE]
        /\ thread' = thread \/ thread' = [thread EXCEPT !["stats"] = "none"]
             \/ thread' = [thread EXCEPT !["stats"] = "runs"]
    BY <1>6
    DEF AskerStep, AddSubscriber, JoinOldStats, SpawnStats, AskerKeeps, flags
  <2>2. /\ wanted' \in [Workers -> BOOLEAN]
        /\ \A w \in Workers \ {"stats"} : wanted'[w] = wanted[w]
    BY <2>1, <1>0
  <2>3. /\ thread' \in [Joinable -> {"none", "runs", "over"}]
        /\ \A t \in Joinable \ {"stats"} : thread'[t] = thread[t]
    BY <2>1, <1>0
  <2>4. OthersMay
    BY <2>1, <2>2, <2>3 DEF OthersMay
  <2> QED BY <2>4, OthersKeep
<1> QED BY <1>2, <1>4, <1>5, <1>6

\* The start thread is not replaced while it works.
LEMMA StarterRunsStep ==
  ASSUME SessionInv, StarterRuns, [OutputNext]_outputVars
  PROVE  StarterRuns'
<1>0. thread \in [Joinable -> {"none", "runs", "over"}] /\ "start" \in Joinable
      /\ \A w \in Workers : w \in Joinable /\ w # "start"
  BY DEF SessionInv, SessionTypes, Joinable, Workers
<1>1. ASSUME UNCHANGED <<thread, starter>> PROVE StarterRuns'
  BY <1>1 DEF StarterRuns
<1>2. CASE Start \/ Stop \/ UNCHANGED outputVars
  BY <1>1, <1>2 DEF Start, Stop, outputVars, threads
<1>3. CASE ControlStep
  <2>1. CASE Reset \/ Disconnected \/ ClearCallbacks \/ StopsPublishing \/ ClosesSignaling \/ EndsCapture
    BY <2>1, <1>1
    DEF Reset, Disconnected, ClearCallbacks, StopsPublishing, ClosesSignaling,
                      EndsCapture, threads
  <2>2. CASE \E w \in Workers : Lower(w)
    BY <2>2, <1>1 DEF Lower
  <2>3. ASSUME NEW t \in Joinable, Join(t) PROVE StarterRuns'
    BY <2>3, <1>0 DEF Join, StarterRuns
  <2>4. ASSUME NEW t \in Joinable, Spawn(t) PROVE StarterRuns'
    BY <2>4, <1>0 DEF Spawn, StarterRuns
  <2> QED BY <1>3, <2>1, <2>2, <2>3, <2>4 DEF ControlStep
<1>4. CASE \E w \in Workers : WorkerLeaves(w)
  BY <1>4, <1>0 DEF WorkerLeaves, StarterRuns
<1>5. CASE StarterStep
  BY <1>5, <1>0
  DEF StarterStep, InstallCallbacks, StarterCrashes, CallsConnect,
      ConnectReturns,
       StarterFails, StarterEnds, StarterRuns, threads
<1>6. CASE SocketOpens \/ SocketLost \/ CallbackStep \/ RequestArrives
  BY <1>6, <1>1
  DEF SocketOpens, SocketLost, CallbackStep, RequestArrives, Publishes,
      StoresConnected,
       BeginsCapture, StoresCapturing, CaptureRefused, CallbackKeeps,
       AskerKeeps, threads
<1>7. CASE AskerStep
  BY <1>7, <1>0
  DEF AskerStep, AddSubscriber, JoinOldStats, SpawnStats, AskerKeeps,
      StarterRuns
<1> QED BY <1>2, <1>3, <1>4, <1>5, <1>6, <1>7 DEF OutputNext

\* The invariant is inductive.
LEMMA SessionStep ==
  SessionInv /\ StarterRuns /\ [OutputNext]_outputVars
    => (SessionInv /\ StarterRuns)'
<1> SUFFICES ASSUME SessionInv, StarterRuns, [OutputNext]_outputVars PROVE SessionInv'
  BY StarterRunsStep
<1>1. CASE UNCHANGED outputVars
  BY <1>1
  DEF outputVars, flags, threads, SessionInv, SessionTypes, JoinedFirst,
      SpawnsOnce, GoesUp,
       IsUp, ComesUp, GoesDown, OneOrOther
<1> QED
  BY <1>1, StartKeeps, StopKeeps, ControlStepKeeps, OtherStepKeeps
  DEF OutputNext

\* It gives what is promised.
LEMMA SessionSafe == SessionInv => SessionThreads
<1> SUFFICES ASSUME SessionInv PROVE SessionThreads
  OBVIOUS
<1>1. ASSUME calls = <<>> PROVE Len(calls) = 0
  BY <1>1, EmptySeq
<1>2. calls # <<>> /\ Head(calls).do = "spawn" => thread[Head(calls).of] = "none"
  <2> SUFFICES ASSUME calls # <<>>, calls[1].do = "spawn" PROVE thread[calls[1].of] = "none"
    OBVIOUS
  <2>1. 1 \in 1..Len(calls)
    BY EmptySeq DEF SessionInv, SessionTypes
  <2> QED BY <2>1 DEF SessionInv, JoinedFirst
<1>3. calls = <<>> /\ running_ => thread["media"] = "runs" /\ thread["summary"] = "runs"
  BY <1>1 DEF SessionInv, GoesUp, IsUp, ComesUp
<1>4. calls = <<>> /\ stopped => \A t \in Joinable \ {"stats"} : thread[t] = "none"
  BY <1>1 DEF SessionInv, GoesDown
<1> QED BY <1>2, <1>3, <1>4 DEF SessionThreads

\* No thread of the output is replaced while it runs, the workers run once
\* start() is done, and none is left when stop() is.
THEOREM SessionInOrder == OutputInit /\ [][OutputNext]_outputVars => []SessionThreads
<1>1. OutputInit => SessionInv /\ StarterRuns
  BY SessionInit DEF OutputInit, StarterRuns
<1> QED BY <1>1, SessionStep, SessionSafe, PTL

------------------------------------------------------------------------------
(***************************************************************************)
(* The sources of a room (AutoInbound).                                    *)
(***************************************************************************)
WorkerStates == [step : {"checks", "waits", "looks", "lays", "over"}, layout : SUBSET Inbound]
FeedStates ==
  [step : {"idle", "admits", "inserts", "queues", "looks", "lays"}, todo : Seq(Inbound),
   layout : SUBSET Inbound]
Tasks == [do : {"add", "remove", "drop", "layout"}, streams : SUBSET Inbound]
Stoppers == [step : {"idle", "joins", "drops"}, joins : Nat, streams : SUBSET Inbound]
SceneItems == [shown : SUBSET Inbound, hidden : SUBSET Inbound]
Settings == [remove : BOOLEAN, grid : BOOLEAN, target : Scenes \cup {NoScene}]
Supplies ==
  [kinds : SUBSET {"listing", "added", "removed"}, streams : SUBSET Inbound,
   feeds : Int, starts : Int, stops : Int, switches : Int]

InboundTypes ==
  /\ settings_ \in Settings /\ supply \in Supplies
  /\ active \in BOOLEAN /\ managed \subseteq Inbound /\ pending \subseteq Inbound
  /\ workers \in Seq(WorkerStates) /\ owned \in Nat /\ stopper \in Stoppers
  /\ feed \in [Feeds -> FeedStates]
  /\ \A f \in Feeds : feed[f].step # "idle" => feed[f].todo # <<>>
  /\ ui \in Seq(Tasks) /\ scene \in Scenes /\ sources \subseteq Inbound
  /\ items \in [Scenes -> SceneItems]
  /\ assigned \in [Inbound -> Scenes \cup {NoScene}]

\* One removal worker is owned; any other is over, or stop() joins it.
OneWorker ==
  /\ active <=> owned # 0
  /\ owned <= Len(workers)
  /\ stopper.step # "idle" => ~active
  /\ \A w \in 1..Len(workers) :
       \/ workers[w].step = "over"
       \/ w = owned
       \/ stopper.step = "joins" /\ stopper.joins = w

\* A finite set as a sequence.
LEMMA ToSeq ==
  ASSUME NEW S, IsFiniteSet(S)
  PROVE  /\ SetToSeq(S) \in Seq(S) 
         /\ S = {} => SetToSeq(S) = <<>>
         /\ S # {} => SetToSeq(S) # <<>>
<1>1. Cardinality(S) \in Nat /\ ExistsBijection(1..Cardinality(S), S)
  BY FS_CardinalityType
<1>2. \E f \in [1..Cardinality(S) -> S] : IsInjective(f)
  BY <1>1 DEF ExistsBijection, Bijection, Injection
<1>3. SetToSeq(S) \in [1..Cardinality(S) -> S]
  BY <1>2 DEF SetToSeq
<1>4. SetToSeq(S) \in Seq(S)
  BY <1>1, <1>3
<1>5. S = {} => SetToSeq(S) = <<>>
  <2>1. ASSUME SetToSeq(S) # <<>>, S = {} PROVE FALSE
    BY <1>4, <2>1, EmptySeq, HeadTailProperties
  <2> QED BY <2>1
<1>6. S # {} => SetToSeq(S) # <<>>
  <2> SUFFICES ASSUME S # {}, SetToSeq(S) = <<>> PROVE FALSE
    OBVIOUS
  <2>1. Cardinality(S) # 0
    BY FS_EmptySet
  <2>2. DOMAIN SetToSeq(S) = 1..Cardinality(S)
    BY <1>3
  <2>3. 1 \in DOMAIN SetToSeq(S)
    BY <2>1, <2>2, <1>1
  <2> QED BY <2>3
<1> QED BY <1>4, <1>5, <1>6

\* The removals of some streams, one task for each.
LEMMA RemovalTasks ==
  ASSUME NEW streams \in SUBSET Inbound
  PROVE  SetToSeq({Task("remove", {s}) : s \in streams}) \in Seq({Task("remove", {s}) : s \in streams})
<1> DEFINE T == {Task("remove", {s}) : s \in streams}
           f == [s \in streams |-> Task("remove", {s})]
<1>1. IsFiniteSet(streams)
  BY InboundAssumption, FS_Subset
<1>2. f \in [streams -> T] /\ (\A t \in T : \E s \in streams : f[s] = t)
  OBVIOUS
<1>3. \A a, b \in streams : f[a] = f[b] => a = b
  BY DEF Task
<1>4. f \in Bijection(streams, T)
  BY <1>2, <1>3 DEF Bijection, Injection, Surjection, IsInjective
<1>5. IsFiniteSet(T)
  BY <1>1, <1>4, FS_Bijection DEF ExistsBijection
<1> QED BY <1>5, ToSeq

\* A notification wakes who waits, and nobody else.
LEMMA NotifiedIs ==
  ASSUME NEW ws \in Seq(WorkerStates)
  PROVE  /\ Notified(ws) \in Seq(WorkerStates) /\ Len(Notified(ws)) = Len(ws)
         /\ \A w \in 1..Len(ws) :
              /\ Notified(ws)[w].step = IF ws[w].step = "waits" THEN "checks" ELSE ws[w].step
<1>1. /\ Len(ws) \in Nat /\ DOMAIN ws = 1..Len(ws)
      /\ \A w \in 1..Len(ws) : ws[w] \in WorkerStates
  OBVIOUS
<1> DEFINE N(w) == [ws[w] EXCEPT !.step = IF @ = "waits" THEN "checks" ELSE @]
<1>2. \A w \in 1..Len(ws) :
        /\ N(w) \in WorkerStates
        /\ N(w).step = IF ws[w].step = "waits" THEN "checks" ELSE ws[w].step
  BY <1>1 DEF WorkerStates
<1>3. Notified(ws) = [w \in 1..Len(ws) |-> N(w)]
  BY <1>1 DEF Notified
<1> HIDE DEF N
<1> QED BY <1>1, <1>2, <1>3

\* A count that goes down leaves the rest of the supply alone.
LEMMA CountKeeps ==
  ASSUME NEW what \in {"feeds", "starts", "stops", "switches"}, supply \in Supplies, Count(what)
  PROVE  supply' \in Supplies /\ supply'.streams = supply.streams
  BY DEF Count, Supplies

\* Sequences of one and of one more.
LEMMA Seqs ==
  ASSUME NEW S, NEW s \in Seq(S), NEW e \in S
  PROVE  /\ Append(s, e) \in Seq(S) /\ Len(Append(s, e)) = Len(s) + 1
         /\ \A i \in 1..Len(s) : Append(s, e)[i] = s[i]
         /\ Append(s, e)[Len(s) + 1] = e
         /\ <<e>> \in Seq(S) /\ <<e>> # <<>>
         /\ s # <<>> => Tail(s) \in Seq(S) /\ Head(s) \in S
  OBVIOUS

\* A feed that goes on to the rest of its streams.
LEMMA FeedGoesTypes ==
  ASSUME InboundTypes, NEW f \in Feeds, NEW step \in {"inserts", "queues", "looks"}, feed[f].step # "idle",
         FeedGoes(f, step)
  PROVE  /\ feed' \in [Feeds -> FeedStates]
         /\ \A g \in Feeds : feed'[g].step # "idle" => feed'[g].todo # <<>>
         /\ feed'[f].step = step /\ feed'[f].todo = feed[f].todo
         /\ \A g \in Feeds : g # f => feed'[g] = feed[g]
  BY DEF InboundTypes, FeedGoes, FeedStates

\* What follows the task of an addition.
LEMMA AddedTypes ==
  ASSUME InboundTypes, NEW f \in Feeds, feed[f].step # "idle", Added(f)
  PROVE  /\ feed' \in [Feeds -> FeedStates]
         /\ \A g \in Feeds : feed'[g].step # "idle" => feed'[g].todo # <<>>
         /\ feed'[f].step \in {"idle", "admits"}
         /\ \A g \in Feeds : g # f => feed'[g] = feed[g]
<1>1. feed[f].todo \in Seq(Inbound) /\ feed[f].todo # <<>>
  BY DEF InboundTypes, FeedStates
<1>2. Tail(feed[f].todo) \in Seq(Inbound)
  BY <1>1
<1> DEFINE r == [step |-> IF Tail(feed[f].todo) = <<>> THEN "idle" ELSE "admits",
                 todo |-> Tail(feed[f].todo), layout |-> {}]
<1>3. /\ r \in FeedStates /\ r.step \in {"idle", "admits"}
      /\ (r.step # "idle" => r.todo # <<>>)
  BY <1>2 DEF FeedStates
<1>4. feed' = [feed EXCEPT ![f] = r]
  BY DEF Added
<1> HIDE DEF r
<1> QED BY <1>3, <1>4 DEF InboundTypes

\* What a removal leaves managed, and what it adds to the tasks.
LEMMA QueueRemovalsDoes ==
  ASSUME InboundTypes, NEW streams \in SUBSET Inbound, QueueRemovals(streams)
  PROVE  /\ managed' = managed \ streams /\ ui' \in Seq(Tasks)
         /\ Len(ui') >= Len(ui)
         /\ \A i \in 1..Len(ui) : ui'[i] = ui[i]
         /\ \A i \in 1..Len(ui') :
              i > Len(ui) => \E s \in streams : ui'[i] = Task("remove", {s})
<1> DEFINE T == {Task("remove", {s}) : s \in streams}
           q == SetToSeq(T)
<1>1. q \in Seq(T)
  BY RemovalTasks
<1>2. T \subseteq Tasks
  BY DEF Task, Tasks
<1>3. q \in Seq(Tasks) /\ ui \in Seq(Tasks)
  BY <1>1, <1>2, SeqMonotonic DEF InboundTypes
<1>4. ui' = ui \o q /\ managed' = managed \ streams
  BY DEF QueueRemovals, Unmanaged
<1>5. \A j \in 1..Len(q) : q[j] \in T
  BY <1>1, ElementOfSeq
<1>6. \A t \in T : \E s \in streams : t = Task("remove", {s})
  OBVIOUS
<1> HIDE DEF q, T
<1>7. Len(q) \in Nat /\ Len(ui) \in Nat
  BY <1>3
<1>8. /\ ui' \in Seq(Tasks) /\ Len(ui') = Len(ui) + Len(q)
      /\ \A i \in 1..Len(ui) + Len(q) :
           ui'[i] = IF i <= Len(ui) THEN ui[i] ELSE q[i - Len(ui)]
  BY <1>3, <1>4, ConcatProperties
<1>9. ASSUME NEW i \in 1..Len(ui'), i > Len(ui)
      PROVE  \E s \in streams : ui'[i] = Task("remove", {s})
  <2>1. i - Len(ui) \in 1..Len(q) /\ ui'[i] = q[i - Len(ui)]
    BY <1>7, <1>8, <1>9
  <2> QED BY <2>1, <1>5, <1>6
<1>10. Len(ui') >= Len(ui) /\ \A i \in 1..Len(ui) : ui'[i] = ui[i]
  BY <1>7, <1>8
<1> QED BY <1>4, <1>8, <1>9, <1>10

\* A worker's step changes that worker.
LEMMA WorkerMovesTypes ==
  ASSUME InboundTypes, NEW w \in 1..Len(workers), NEW step \in {"checks", "waits", "looks", "over"},
         workers' = [workers EXCEPT ![w].step = step]
  PROVE  workers' \in Seq(WorkerStates)
<1>1. workers[w] \in WorkerStates
  BY ElementOfSeq DEF InboundTypes
<1>2. [workers[w] EXCEPT !.step = step] \in WorkerStates
  BY <1>1 DEF WorkerStates
<1> QED BY <1>2, ExceptSeq DEF InboundTypes

\* Every action keeps the types.
LEMMA StartInboundTypes == ASSUME InboundTypes, StartInbound PROVE InboundTypes'
<1>1. supply' \in Supplies
  BY CountKeeps DEF StartInbound, InboundTypes
<1>2. CASE active
  BY <1>1, <1>2 DEF StartInbound, InboundTypes, manager_, obs
<1>3. CASE ~active
  <2>1. [step |-> "checks", layout |-> {}] \in WorkerStates
    BY DEF WorkerStates
  <2>2. workers \in Seq(WorkerStates) /\ workers' = Append(workers, [step |-> "checks", layout |-> {}])
        /\ owned' = Len(workers')
    BY <1>3 DEF StartInbound, InboundTypes
  <2>3. workers' \in Seq(WorkerStates) /\ owned' \in Nat
    BY <2>1, <2>2, Seqs
  <2>4. active' = TRUE /\ managed' = {} /\ pending' = {}
    BY <1>3 DEF StartInbound
  <2>5. UNCHANGED <<settings_, stopper, feed, ui, scene, sources, items, assigned>>
    BY DEF StartInbound, obs
  <2> QED BY <1>1, <2>3, <2>4, <2>5 DEF InboundTypes
<1> QED BY <1>2, <1>3

LEMMA StopInboundTypes == ASSUME InboundTypes, StopInbound PROVE InboundTypes'
<1>1. supply' \in Supplies
  BY CountKeeps DEF StopInbound, InboundTypes
<1>2. stopper' \in Stoppers
  BY DEF StopInbound, InboundTypes, Stoppers
<1>3. workers' \in Seq(WorkerStates)
  BY NotifiedIs DEF StopInbound, InboundTypes
<1>4. UNCHANGED <<settings_, feed, ui, scene, sources, items, assigned>>
      /\ active' = FALSE /\ managed' = {} /\ pending' = {} /\ owned' = 0
  BY DEF StopInbound, obs
<1> QED BY <1>1, <1>2, <1>3, <1>4 DEF InboundTypes

LEMMA StopJoinsTypes == ASSUME InboundTypes, StopJoins_ PROVE InboundTypes'
<1>1. stopper' \in Stoppers
  BY DEF StopJoins_, NoStopper, InboundTypes, Stoppers
<1> QED BY <1>1 DEF StopJoins_, InboundTypes, manager_, obs

LEMMA StopDropsTypes == ASSUME InboundTypes, StopDrops PROVE InboundTypes'
<1>1. NoStopper \in Stoppers
  BY DEF NoStopper, Stoppers
<1>2. CASE stopper.streams = {}
  BY <1>1, <1>2 DEF StopDrops, InboundTypes, manager_
<1>3. ASSUME NEW s \in stopper.streams, ui' = Append(ui, Task("drop", {s})),
             stopper' = [stopper EXCEPT !.streams = @ \ {s}]
      PROVE  InboundTypes'
  <2>1. stopper' \in Stoppers
    BY <1>3 DEF InboundTypes, Stoppers
  <2>2. Task("drop", {s}) \in Tasks
    BY DEF InboundTypes, Stoppers, Task, Tasks
  <2>3. ui' \in Seq(Tasks)
    BY <1>3, <2>2, Seqs DEF InboundTypes
  <2> QED BY <2>1, <2>3 DEF StopDrops, InboundTypes, manager_
<1> QED BY <1>2, <1>3 DEF StopDrops

LEMMA RoomListingTypes ==
  ASSUME InboundTypes, NEW f \in Feeds, RoomListing(f)
  PROVE  InboundTypes'
<1>1. supply' \in Supplies
  BY CountKeeps DEF RoomListing, Brings, InboundTypes
<1>2. CASE ~active
  BY <1>1, <1>2 DEF RoomListing, InboundTypes, manager_, obs
<1>3. CASE active
  <2>1. PICK named \in SUBSET supply.streams :
          LET listed == named \ Own IN
            /\ pending' = (pending \ listed) \cup Missed(listed)
            /\ workers' = IF listed # {} \/ Missed(listed) # {} THEN Notified(workers) ELSE workers
            /\ feed' = [feed EXCEPT ![f].todo = SetToSeq(NewlyListed(listed)),
                          ![f].step = IF NewlyListed(listed) = {} THEN "idle" ELSE "admits"]
            /\ UNCHANGED <<active, managed>>
    BY <1>3 DEF RoomListing
  <2> DEFINE listed == named \ Own
             todo == SetToSeq(NewlyListed(listed))
             step == IF NewlyListed(listed) = {} THEN "idle" ELSE "admits"
  <2>2. listed \subseteq Inbound
    BY DEF InboundTypes, Supplies
  <2>3. /\ pending' \subseteq Inbound /\ managed' \subseteq Inbound
        /\ active' \in BOOLEAN
    BY <2>1, <2>2 DEF Missed, InboundTypes
  <2>4. workers' \in Seq(WorkerStates)
    BY <2>1, NotifiedIs DEF InboundTypes
  <2>5. NewlyListed(listed) \in SUBSET Inbound
    BY <2>2 DEF NewlyListed
  <2>6. todo \in Seq(Inbound) /\ (step # "idle" => todo # <<>>)
    <3>1. IsFiniteSet(NewlyListed(listed))
      BY <2>5, InboundAssumption, FS_Subset
    <3>2. /\ todo \in Seq(NewlyListed(listed))
          /\ (NewlyListed(listed) # {} => todo # <<>>)
      BY <3>1, ToSeq
    <3> QED BY <3>2, <2>5, SeqMonotonic
  <2>7. feed' = [feed EXCEPT ![f].todo = todo, ![f].step = step]
    BY <2>1
  <2>8. step \in {"idle", "admits"}
    OBVIOUS
  <2> HIDE DEF todo, step, listed
  <2>9. /\ feed' \in [Feeds -> FeedStates]
        /\ \A g \in Feeds : feed'[g].step # "idle" => feed'[g].todo # <<>>
    BY <2>6, <2>7, <2>8 DEF InboundTypes, FeedStates
  <2>10. UNCHANGED <<settings_, owned, stopper, ui, scene, sources, items, assigned>>
    BY DEF RoomListing, obs
  <2> QED BY <1>1, <2>3, <2>4, <2>9, <2>10 DEF InboundTypes
<1> QED BY <1>2, <1>3 DEF InboundTypes

LEMMA StreamAddedTypes ==
  ASSUME InboundTypes, NEW f \in Feeds, StreamAdded(f)
  PROVE  InboundTypes'
<1>1. supply' \in Supplies
  BY CountKeeps DEF StreamAdded, Brings, InboundTypes
<1>2. /\ feed' \in [Feeds -> FeedStates]
      /\ \A g \in Feeds : feed'[g].step # "idle" => feed'[g].todo # <<>>
  <2>1. PICK s \in supply.streams : feed' = [feed EXCEPT ![f].todo = <<s>>, ![f].step = "admits"]
    BY DEF StreamAdded
  <2>2. <<s>> \in Seq(Inbound) /\ <<s>> # <<>>
    BY Seqs DEF InboundTypes, Supplies
  <2> QED BY <2>1, <2>2 DEF InboundTypes, FeedStates
<1> QED BY <1>1, <1>2 DEF StreamAdded, InboundTypes, manager_, obs

LEMMA AddAdmittedTypes ==
  ASSUME InboundTypes, NEW f \in Feeds, AddAdmitted(f)
  PROVE  InboundTypes'
<1>1. /\ feed' \in [Feeds -> FeedStates]
      /\ \A g \in Feeds : feed'[g].step # "idle" => feed'[g].todo # <<>>
  <2>1. Added(f) \/ FeedGoes(f, "inserts")
    BY DEF AddAdmitted
  <2>2. feed[f].step # "idle"
    BY DEF AddAdmitted
  <2> QED BY <2>1, <2>2, AddedTypes, FeedGoesTypes
<1>2. pending' \subseteq Inbound /\ workers' \in Seq(WorkerStates)
  BY NotifiedIs DEF AddAdmitted, InboundTypes
<1> QED BY <1>1, <1>2 DEF AddAdmitted, InboundTypes, obs

LEMMA AddInsertedTypes ==
  ASSUME InboundTypes, NEW f \in Feeds, AddInserted(f)
  PROVE  InboundTypes'
<1>1. /\ feed' \in [Feeds -> FeedStates]
      /\ \A g \in Feeds : feed'[g].step # "idle" => feed'[g].todo # <<>>
  <2>1. Added(f) \/ FeedGoes(f, "queues")
    BY DEF AddInserted
  <2>2. feed[f].step # "idle"
    BY DEF AddInserted
  <2> QED BY <2>1, <2>2, AddedTypes, FeedGoesTypes
<1>2. Head(feed[f].todo) \in Inbound
  BY DEF AddInserted, InboundTypes, FeedStates
<1>3. pending' \subseteq Inbound /\ managed' \subseteq Inbound
  BY <1>2 DEF AddInserted, InboundTypes
<1> QED BY <1>1, <1>3 DEF AddInserted, InboundTypes, obs

LEMMA AddQueuedTypes ==
  ASSUME InboundTypes, NEW f \in Feeds, AddQueued(f)
  PROVE  InboundTypes'
<1>1. /\ feed' \in [Feeds -> FeedStates]
      /\ \A g \in Feeds : feed'[g].step # "idle" => feed'[g].todo # <<>>
  <2>1. Added(f) \/ FeedGoes(f, "looks")
    BY DEF AddQueued
  <2>2. feed[f].step # "idle"
    BY DEF AddQueued
  <2> QED BY <2>1, <2>2, AddedTypes, FeedGoesTypes
<1>2. Head(feed[f].todo) \in Inbound
  BY DEF AddQueued, InboundTypes, FeedStates
<1>3. ui' \in Seq(Tasks)
  <2>1. Task("add", {Head(feed[f].todo)}) \in Tasks
    BY <1>2 DEF Task, Tasks
  <2> QED BY <2>1, Seqs DEF AddQueued, InboundTypes
<1> QED BY <1>1, <1>3 DEF AddQueued, InboundTypes, manager_

LEMMA StreamRemovedTypes ==
  ASSUME InboundTypes, NEW f \in Feeds, StreamRemoved(f)
  PROVE  InboundTypes'
<1>1. supply' \in Supplies
  BY CountKeeps DEF StreamRemoved, Brings, InboundTypes
<1>2. PICK s \in supply.streams :
        /\ pending' = pending \ {s}
        /\ QueueRemovals({s})
        /\ feed' = IF settings_.grid
                     THEN [feed EXCEPT ![f].step = "looks", ![f].todo = <<s>>] ELSE feed
  BY DEF StreamRemoved
<1>3. s \in Inbound
  BY DEF InboundTypes, Supplies
<1>4. managed' \subseteq Inbound /\ ui' \in Seq(Tasks) /\ pending' \subseteq Inbound
  BY <1>2, <1>3, QueueRemovalsDoes DEF InboundTypes
<1>5. feed' \in [Feeds -> FeedStates] /\ \A g \in Feeds : feed'[g].step # "idle" => feed'[g].todo # <<>>
  <2>2. <<s>> \in Seq(Inbound) /\ <<s>> # <<>>
    BY <1>3, Seqs
  <2> QED BY <1>2, <2>2 DEF InboundTypes, FeedStates
<1>6. workers' \in Seq(WorkerStates)
  BY NotifiedIs DEF StreamRemoved, InboundTypes
<1> QED BY <1>1, <1>4, <1>5, <1>6 DEF StreamRemoved, InboundTypes

LEMMA LayoutCopiedTypes ==
  ASSUME InboundTypes, NEW f \in Feeds, LayoutCopied(f)
  PROVE  InboundTypes'
<1>1. /\ feed' \in [Feeds -> FeedStates]
      /\ \A g \in Feeds : feed'[g].step # "idle" => feed'[g].todo # <<>>
  BY DEF LayoutCopied, InboundTypes, FeedStates
<1> QED BY <1>1 DEF LayoutCopied, InboundTypes, manager_, obs

LEMMA LayoutQueuedTypes ==
  ASSUME InboundTypes, NEW f \in Feeds, LayoutQueued(f)
  PROVE  InboundTypes'
<1>1. /\ feed' \in [Feeds -> FeedStates]
      /\ \A g \in Feeds : feed'[g].step # "idle" => feed'[g].todo # <<>>
  BY AddedTypes DEF LayoutQueued
<1>2. ui' \in Seq(Tasks)
  <2>1. Task("layout", feed[f].layout) \in Tasks
    BY DEF InboundTypes, FeedStates, Task, Tasks
  <2> QED BY <2>1, Seqs DEF LayoutQueued, InboundTypes
<1> QED BY <1>1, <1>2 DEF LayoutQueued, InboundTypes, manager_

LEMMA WorkerChecksTypes ==
  ASSUME InboundTypes, NEW w \in 1..Len(workers), WorkerChecks(w)
  PROVE  InboundTypes'
<1>1. workers' \in Seq(WorkerStates)
  <2>1. \E step \in {"waits", "over"} : workers' = [workers EXCEPT ![w].step = step]
    BY DEF WorkerChecks
  <2> QED BY <2>1, WorkerMovesTypes
<1> QED BY <1>1 DEF WorkerChecks, WorkerKeeps, InboundTypes

LEMMA WorkerTakesDueTypes ==
  ASSUME InboundTypes, NEW w \in 1..Len(workers), WorkerTakesDue(w)
  PROVE  InboundTypes'
<1>1. workers' \in Seq(WorkerStates)
  <2>1. \E step \in {"looks", "checks"} : workers' = [workers EXCEPT ![w].step = step]
    BY DEF WorkerTakesDue
  <2> QED BY <2>1, WorkerMovesTypes
<1>2. PICK due \in SUBSET pending : pending' = pending \ due /\ QueueRemovals(due \cap managed)
  BY DEF WorkerTakesDue
<1>3. due \cap managed \in SUBSET Inbound
  BY DEF InboundTypes
<1>4. managed' \subseteq Inbound /\ ui' \in Seq(Tasks) /\ pending' \subseteq Inbound
  BY <1>2, <1>3, QueueRemovalsDoes DEF InboundTypes
<1> QED BY <1>1, <1>4 DEF WorkerTakesDue, WorkerKeeps, InboundTypes

LEMMA WorkerCopiesLayoutTypes ==
  ASSUME InboundTypes, NEW w \in 1..Len(workers), WorkerCopiesLayout(w)
  PROVE  InboundTypes'
<1>1. workers' \in Seq(WorkerStates)
  <2>1. [step |-> "lays", layout |-> managed] \in WorkerStates
    BY DEF WorkerStates, InboundTypes
  <2> QED BY <2>1, ExceptSeq DEF WorkerCopiesLayout, InboundTypes
<1> QED BY <1>1 DEF WorkerCopiesLayout, WorkerKeeps, InboundTypes

LEMMA WorkerQueuesLayoutTypes ==
  ASSUME InboundTypes, NEW w \in 1..Len(workers), WorkerQueuesLayout(w)
  PROVE  InboundTypes'
<1>1. workers' \in Seq(WorkerStates)
  <2>1. [step |-> "checks", layout |-> {}] \in WorkerStates
    BY DEF WorkerStates
  <2> QED BY <2>1, ExceptSeq DEF WorkerQueuesLayout, InboundTypes
<1>2. ui' \in Seq(Tasks)
  <2>0. workers[w] \in WorkerStates
    BY ElementOfSeq DEF InboundTypes
  <2>1. Task("layout", workers[w].layout) \in Tasks
    BY <2>0 DEF WorkerStates, Task, Tasks
  <2> QED BY <2>1, Seqs DEF WorkerQueuesLayout, InboundTypes
<1> QED BY <1>1, <1>2 DEF WorkerQueuesLayout, WorkerKeeps, InboundTypes

LEMMA UiTaskTypes == ASSUME InboundTypes, UiTask PROVE InboundTypes'
<1>1. Head(ui) \in Tasks /\ Tail(ui) \in Seq(Tasks)
  BY DEF UiTask, InboundTypes
<1>2. ui' \in Seq(Tasks)
  BY <1>1 DEF UiTask
<1>3. TargetScene \in Scenes
  BY DEF TargetScene, InboundTypes, Settings
<1>4. \A c \in Scenes :
        /\ items[c] \in SceneItems /\ items[c].shown \subseteq Inbound
        /\ items[c].hidden \subseteq Inbound
  BY DEF InboundTypes, SceneItems
<1>5. \A c \in Scenes, streams \in SUBSET Inbound :
        Showing(c, streams) \in [Scenes -> SceneItems]
  BY <1>4 DEF Showing, InboundTypes, SceneItems
<1>6. \A c \in Scenes, s \in Inbound : Hiding(c, s) \in [Scenes -> SceneItems]
  BY <1>4 DEF Hiding, InboundTypes, SceneItems
<1>7. \A s \in Inbound : WithoutSource(s) \in [Scenes -> SceneItems]
  BY <1>4 DEF WithoutSource, InboundTypes, SceneItems
<1>8. items' \in [Scenes -> SceneItems] /\ sources' \subseteq Inbound
      /\ assigned' \in [Inbound -> Scenes \cup {NoScene}]
  <2>1. Head(ui).streams \subseteq Inbound
    BY <1>1 DEF Tasks
  <2>2. CASE UiLayout(Head(ui).streams)
    BY <2>2, <2>1, <1>3, <1>5 DEF UiLayout, InboundTypes
  <2>3. ASSUME NEW s \in Head(ui).streams, UiAdd(s)
        PROVE  items' \in [Scenes -> SceneItems] /\ sources' \subseteq Inbound
               /\ assigned' \in [Inbound -> Scenes \cup {NoScene}]
    BY <2>3, <2>1, <1>3, <1>5 DEF UiAdd, InboundTypes
  <2>4. ASSUME NEW s \in Head(ui).streams, UiDrop(s)
        PROVE  items' \in [Scenes -> SceneItems] /\ sources' \subseteq Inbound
               /\ assigned' \in [Inbound -> Scenes \cup {NoScene}]
    BY <2>4, <2>1, <1>7 DEF UiDrop, InboundTypes
  <2>5. ASSUME NEW s \in Head(ui).streams, UiRemove(s)
        PROVE  items' \in [Scenes -> SceneItems] /\ sources' \subseteq Inbound
               /\ assigned' \in [Inbound -> Scenes \cup {NoScene}]
    <3> DEFINE c == IF assigned[s] = NoScene THEN TargetScene ELSE assigned[s]
    <3>1. c \in Scenes /\ s \in Inbound
      BY <2>1, <1>3 DEF InboundTypes
    <3>2. /\ assigned' = [assigned EXCEPT ![s] = NoScene]
          /\ \/ sources' = sources \ {s} /\ items' = WithoutSource(s)
             \/ items' \in {Hiding(c, s), items} /\ sources' = sources
      BY <2>5 DEF UiRemove
    <3> HIDE DEF c
    <3> QED BY <3>1, <3>2, <1>6, <1>7 DEF InboundTypes
  <2> QED BY <2>2, <2>3, <2>4, <2>5 DEF UiTask
<1> QED BY <1>2, <1>8 DEF UiTask, InboundTypes, manager_

LEMMA SwitchSceneTypes == ASSUME InboundTypes, SwitchScene PROVE InboundTypes'
<1>1. supply' \in Supplies
  BY CountKeeps DEF SwitchScene, InboundTypes
<1> QED BY <1>1 DEF SwitchScene, InboundTypes, manager_

(***************************************************************************)
(* The removal workers.                                                    *)
(***************************************************************************)
\* What everyone but start(), stop() and a worker that ends its round may do.
WorkersMay ==
  /\ UNCHANGED <<active, owned, stopper>>
  /\ Len(workers') = Len(workers)
  /\ \A w \in 1..Len(workers) :
       /\ workers[w].step = "over" => workers'[w].step = "over"
       /\ workers'[w].step = "waits" => workers[w].step = "waits" /\ (pending = {} => pending' = {})

Awake ==
  \A w \in 1..Len(workers) :
    workers[w].step = "waits" => active /\ pending = {} /\ w = owned

WorkerInv == InboundTypes /\ OneWorker /\ Awake

\* Such a step keeps what is known of the workers.
LEMMA WorkersKeep == ASSUME WorkerInv, WorkersMay PROVE OneWorker' /\ Awake'
  BY DEF WorkerInv, WorkersMay, OneWorker, Awake

\* A notification is one.
LEMMA NotifiedMay ==
  ASSUME WorkerInv, UNCHANGED <<active, owned, stopper>>, workers' = Notified(workers)
  PROVE  WorkersMay
<1>1. workers \in Seq(WorkerStates)
  BY DEF WorkerInv, InboundTypes
<1> QED BY <1>1, NotifiedIs DEF WorkersMay

\* So is a step that leaves the workers alone and adds no deadline.
LEMMA SameMay ==
  ASSUME WorkerInv, UNCHANGED <<active, owned, stopper, workers>>, pending = {} => pending' = {}
  PROVE  WorkersMay
  BY DEF WorkersMay

\* start() makes a worker of its own; it does not overlap stop().
LEMMA StartWorkers ==
  ASSUME ~StartOverlapsStop, WorkerInv, StartInbound PROVE OneWorker' /\ Awake'
<1>0. workers \in Seq(WorkerStates) /\ Len(workers) \in Nat /\ owned \in Nat
  BY DEF WorkerInv, InboundTypes
<1>1. CASE active
  <2>1. WorkersMay
    BY <1>1, SameMay DEF StartInbound, manager_
  <2> QED BY <2>1, WorkersKeep
<1>2. CASE ~active
  <2> DEFINE new == [step |-> "checks", layout |-> {}]
  <2>1. /\ active' = TRUE /\ pending' = {} /\ workers' = Append(workers, new)
        /\ owned' = Len(workers') /\ stopper.step = "idle" /\ stopper' = stopper
    BY <1>2 DEF StartInbound
  <2>2. /\ Len(workers') = Len(workers) + 1 /\ workers'[Len(workers) + 1] = new
        /\ \A w \in 1..Len(workers) : workers'[w] = workers[w]
    BY <1>0, <2>1
  <2>3. \A w \in 1..Len(workers) : workers[w].step = "over"
    BY <1>0, <1>2, <2>1 DEF WorkerInv, OneWorker
  <2>4. \A w \in 1..Len(workers') :
          w = Len(workers) + 1 \/ w \in 1..Len(workers)
    BY <1>0, <2>2
  <2>5. new.step = "checks"
    OBVIOUS
  <2> HIDE DEF new
  <2>6. OneWorker'
    BY <1>0, <2>1, <2>2, <2>3, <2>4 DEF OneWorker
  <2>7. Awake'
    BY <1>0, <2>1, <2>2, <2>3, <2>4, <2>5 DEF Awake
  <2> QED BY <2>6, <2>7
<1> QED BY <1>1, <1>2

\* stop() wakes the worker that it will join.
LEMMA StopWorkers_ == ASSUME WorkerInv, StopInbound PROVE OneWorker' /\ Awake'
<1>0. workers \in Seq(WorkerStates) /\ Len(workers) \in Nat /\ owned \in Nat
  BY DEF WorkerInv, InboundTypes
<1>1. /\ active' = FALSE /\ pending' = {} /\ owned' = 0 /\ stopper.step = "idle"
      /\ stopper' = [step |-> "joins", joins |-> owned, streams |-> managed]
      /\ workers' = Notified(workers)
  BY DEF StopInbound
<1>2. /\ Len(workers') = Len(workers)
      /\ \A w \in 1..Len(workers) :
           workers'[w].step = IF workers[w].step = "waits" THEN "checks" ELSE workers[w].step
  BY <1>0, <1>1, NotifiedIs
<1>3. stopper'.step = "joins" /\ stopper'.joins = owned
  BY <1>1
<1>4. OneWorker'
  BY <1>0, <1>1, <1>2, <1>3 DEF WorkerInv, OneWorker
<1>5. Awake'
  BY <1>2 DEF Awake
<1> QED BY <1>4, <1>5

\* The worker that stop() joined is over.
LEMMA StopJoinsWorkers == ASSUME WorkerInv, StopJoins_ PROVE OneWorker' /\ Awake'
<1>0. /\ workers \in Seq(WorkerStates) /\ Len(workers) \in Nat /\ owned \in Nat
      /\ stopper \in Stoppers
  BY DEF WorkerInv, InboundTypes
<1>1. /\ stopper.step = "joins" /\ UNCHANGED <<active, pending, owned, workers>>
      /\ stopper.joins # 0 => workers[stopper.joins].step = "over"
  BY DEF StopJoins_, manager_
<1>2. ~active /\ owned = 0
  BY <1>1 DEF WorkerInv, OneWorker
<1>3. \A w \in 1..Len(workers) : workers[w].step = "over"
  BY <1>0, <1>1, <1>2 DEF WorkerInv, OneWorker
<1> QED BY <1>1, <1>2, <1>3 DEF WorkerInv, OneWorker, Awake

\* stop() drops the sources.
LEMMA StopDropsWorkers == ASSUME WorkerInv, StopDrops PROVE OneWorker' /\ Awake'
<1>1. /\ stopper.step = "drops" /\ UNCHANGED <<active, pending, owned, workers>>
  BY DEF StopDrops, manager_
<1>2. ~active /\ owned = 0
  BY <1>1 DEF WorkerInv, OneWorker
<1>3. \A w \in 1..Len(workers) : workers[w].step = "over"
  BY <1>1, <1>2 DEF WorkerInv, OneWorker, InboundTypes
<1> QED BY <1>1, <1>2, <1>3 DEF WorkerInv, OneWorker, Awake

\* A listing that sets a deadline notifies the worker.
LEMMA ListingWorkers ==
  ASSUME WorkerInv, NEW f \in Feeds, RoomListing(f)
  PROVE  WorkersMay
<1>1. UNCHANGED <<active, owned, stopper>>
  BY DEF RoomListing, manager_
<1>2. workers' = Notified(workers) \/ (workers' = workers /\ pending' = pending)
  <2>1. CASE ~active
    BY <2>1 DEF RoomListing, manager_
  <2>2. CASE active
    <3>1. PICK named \in SUBSET supply.streams :
            /\ pending' = (pending \ (named \ Own)) \cup Missed(named \ Own)
            /\ workers' = IF named \ Own # {} \/ Missed(named \ Own) # {} THEN Notified(workers) ELSE workers
      BY <2>2 DEF RoomListing
    <3>2. CASE named \ Own = {} /\ Missed(named \ Own) = {}
      <4>1. pending' = pending
        BY <3>1, <3>2
      <4> QED BY <3>1, <3>2, <4>1
    <3> QED BY <3>1, <3>2
  <2> QED BY <2>1, <2>2
<1> QED BY <1>1, <1>2, NotifiedMay, SameMay

\* So does every other step of a feed.
LEMMA FeedWorkers ==
  ASSUME WorkerInv, NEW f \in Feeds, StreamAdded(f) \/ StreamRemoved(f) \/ FeedStep(f)
  PROVE  WorkersMay
<1>1. UNCHANGED <<active, owned, stopper>>
  BY DEF StreamAdded, StreamRemoved, FeedStep, AddAdmitted, AddInserted,
     AddQueued, LayoutCopied,
         LayoutQueued, manager_
<1>2. CASE StreamAdded(f) \/ LayoutCopied(f) \/ LayoutQueued(f) \/ AddQueued(f)
  BY <1>1, <1>2, SameMay
  DEF StreamAdded, LayoutCopied, LayoutQueued, AddQueued, manager_
<1>3. CASE StreamRemoved(f)
  BY <1>1, <1>3, NotifiedMay DEF StreamRemoved
<1>4. CASE AddAdmitted(f)
  <2>1. workers' = Notified(workers) \/ (workers' = workers /\ pending' = pending)
    BY <1>4 DEF AddAdmitted
  <2> QED BY <1>1, <2>1, NotifiedMay, SameMay
<1>5. CASE AddInserted(f)
  <2>1. workers' = workers /\ (pending = {} => pending' = {})
    BY <1>5 DEF AddInserted
  <2> QED BY <1>1, <2>1, SameMay
<1> QED BY <1>2, <1>3, <1>4, <1>5 DEF FeedStep

\* A worker goes to sleep only when there is nothing to wait for.
LEMMA RemoverWorkers ==
  ASSUME WorkerInv, NEW w \in 1..Len(workers), RemovalWorker(w)
  PROVE  OneWorker' /\ Awake'
<1>0. /\ workers \in Seq(WorkerStates) /\ Len(workers) \in Nat
      /\ workers[w] \in WorkerStates
  BY ElementOfSeq DEF WorkerInv, InboundTypes
<1>1. UNCHANGED <<active, owned, stopper>>
  BY DEF RemovalWorker, WorkerChecks, WorkerTakesDue, WorkerCopiesLayout,
     WorkerQueuesLayout, WorkerKeeps
<1>2. CASE WorkerChecks(w)
  <2> DEFINE step == IF active THEN "waits" ELSE "over"
  <2>1. /\ workers[w].step = "checks" /\ pending' = pending
        /\ (~active \/ pending = {})
        /\ workers' = [workers EXCEPT ![w].step = step]
    BY <1>2 DEF WorkerChecks
  <2>2. /\ Len(workers') = Len(workers)
        /\ \A v \in 1..Len(workers) : v # w => workers'[v] = workers[v]
    BY <1>0, <2>1
  <2>3. workers'[w].step = step
    BY <1>0, <2>1 DEF WorkerStates
  <2>4. active => w = owned
    BY <2>1 DEF WorkerInv, OneWorker
  <2> QED BY <1>1, <2>1, <2>2, <2>3, <2>4 DEF WorkerInv, OneWorker, Awake
<1>3. CASE WorkerTakesDue(w) \/ WorkerCopiesLayout(w) \/ WorkerQueuesLayout(w)
  <2>1. pending = {} => pending' = {}
    BY <1>3 DEF WorkerTakesDue, WorkerCopiesLayout, WorkerQueuesLayout
  <2>2. workers[w].step \notin {"over", "waits"}
    BY <1>3 DEF WorkerTakesDue, WorkerCopiesLayout, WorkerQueuesLayout
  <2>3. \/ \E step \in {"looks", "checks"} : workers' = [workers EXCEPT ![w].step = step]
        \/ workers' = [workers EXCEPT ![w] = [step |-> "lays", layout |-> managed]]
        \/ workers' = [workers EXCEPT ![w] = [step |-> "checks", layout |-> {}]]
    BY <1>3 DEF WorkerTakesDue, WorkerCopiesLayout, WorkerQueuesLayout
  <2>4. /\ Len(workers') = Len(workers)
        /\ \A v \in 1..Len(workers) : v # w => workers'[v] = workers[v]
    BY <1>0, <2>3
  <2>5. workers'[w].step # "waits"
    BY <1>0, <2>3 DEF WorkerStates
  <2>6. WorkersMay
    BY <1>1, <2>1, <2>2, <2>4, <2>5 DEF WorkersMay
  <2> QED BY <2>6, WorkersKeep
<1> QED BY <1>2, <1>3 DEF RemovalWorker

\* Every step keeps the types.
LEMMA TypesStep ==
  ASSUME InboundTypes, [InboundNext]_inboundVars
  PROVE  InboundTypes'
<1>1. CASE UNCHANGED inboundVars
  BY <1>1 DEF InboundTypes, inboundVars, manager_, obs
<1>2. ASSUME NEW f \in Feeds, RoomListing(f) \/ StreamAdded(f) \/ StreamRemoved(f) \/ FeedStep(f)
      PROVE  InboundTypes'
  BY <1>2, RoomListingTypes, StreamAddedTypes, StreamRemovedTypes,
     AddAdmittedTypes, AddInsertedTypes,
     AddQueuedTypes, LayoutCopiedTypes, LayoutQueuedTypes DEF FeedStep
<1>3. ASSUME NEW w \in Removers, Worker_(w) PROVE InboundTypes'
  <2>1. w \in 1..Len(workers)
    BY <1>3 DEF Worker_, InboundTypes
  <2> QED
    BY <1>3, <2>1, WorkerChecksTypes, WorkerTakesDueTypes,
       WorkerCopiesLayoutTypes,
             WorkerQueuesLayoutTypes DEF Worker_, RemovalWorker
<1> QED
  BY <1>1, <1>2, <1>3, StartInboundTypes, StopInboundTypes, StopJoinsTypes,
     StopDropsTypes,
           UiTaskTypes, SwitchSceneTypes DEF InboundNext

\* The invariant of the workers is inductive.
LEMMA WorkersStep ==
  ASSUME ~StartOverlapsStop, WorkerInv, [InboundNext]_inboundVars PROVE WorkerInv'
<1>0. InboundTypes'
  BY TypesStep DEF WorkerInv
<1>1. CASE UNCHANGED inboundVars
  BY <1>1, SameMay, WorkersKeep, <1>0 DEF inboundVars, manager_, WorkerInv
<1>2. ASSUME NEW f \in Feeds, RoomListing(f) \/ StreamAdded(f) \/ StreamRemoved(f) \/ FeedStep(f)
      PROVE  OneWorker' /\ Awake'
  BY <1>2, ListingWorkers, FeedWorkers, WorkersKeep
<1>3. ASSUME NEW w \in Removers, Worker_(w) PROVE OneWorker' /\ Awake'
  <2>1. w \in 1..Len(workers)
    BY <1>3 DEF Worker_, WorkerInv, InboundTypes
  <2> QED BY <1>3, <2>1, RemoverWorkers DEF Worker_
<1>4. CASE UiTask \/ SwitchScene
  <2>1. WorkersMay
    BY <1>4, SameMay DEF UiTask, SwitchScene, manager_
  <2> QED BY <1>0, <2>1, WorkersKeep DEF WorkerInv
<1>5. CASE StartInbound \/ StopInbound \/ StopJoins_ \/ StopDrops
  BY <1>0, <1>5, StartWorkers, StopWorkers_, StopJoinsWorkers,
     StopDropsWorkers DEF WorkerInv
<1> QED BY <1>0, <1>1, <1>2, <1>3, <1>4, <1>5 DEF WorkerInv, InboundNext

\* Before the first start().
LEMMA WorkersInit == InboundInit => WorkerInv
<1> SUFFICES ASSUME InboundInit PROVE WorkerInv
  OBVIOUS
<1>1. workers \in Seq(WorkerStates) /\ ui \in Seq(Tasks) /\ Len(workers) = 0
  BY EmptySeq DEF InboundInit
<1>2. feed \in [Feeds -> FeedStates] /\ \A f \in Feeds : feed[f].step = "idle"
  BY EmptySeq DEF InboundInit, QuietFeed, FeedStates
<1>3. stopper \in Stoppers /\ stopper.step = "idle"
  BY DEF InboundInit, NoStopper, Stoppers
<1>4. items \in [Scenes -> SceneItems]
  BY DEF InboundInit, SceneItems
<1>5. settings_ \in Settings /\ supply \in Supplies
  BY InboundAssumption DEF InboundInit, Settings, Supplies
<1>6. InboundTypes
  BY <1>1, <1>2, <1>3, <1>4, <1>5 DEF InboundTypes, InboundInit
<1>7. OneWorker /\ Awake
  BY <1>1, <1>3 DEF InboundInit, OneWorker, Awake
<1> QED BY <1>6, <1>7 DEF WorkerInv

\* It gives what is promised.
LEMMA WorkersSafe == WorkerInv => RemoversAwake
  BY DEF WorkerInv, Awake, RemoversAwake, InboundTypes

(***************************************************************************)
(* What is managed is shown, or on its way.                                *)
(***************************************************************************)
\* A task that ends what is shown of a stream.
TakesAway(task, s) == task.do \in {"remove", "drop"} /\ s \in task.streams
Queues(f, s) == feed[f].step = "queues" /\ Head(feed[f].todo) = s
IsShown(s) == s \in sources /\ assigned[s] # NoScene /\ s \in items[assigned[s]].shown
KeptFrom(i, s) == \A j \in 1..Len(ui) : j > i => ~TakesAway(ui[j], s)
\* A feed is about to queue its addition, the addition is queued, or it was
\* done, and no removal is queued behind it.
OnItsWay(s) ==
  \/ \E f \in Feeds : Queues(f, s)
  \/ \E i \in 1..Len(ui) : ui[i] = Task("add", {s}) /\ KeptFrom(i, s)
  \/ IsShown(s) /\ KeptFrom(0, s)

ManagedComes == \A s \in managed : OnItsWay(s)
StoppedManagesNone == ~active => managed = {}
RoomInv == WorkerInv /\ StoppedManagesNone /\ ManagedComes

\* A step that leaves the sources alone and takes stream s away by no task,
\* while a feed that is about to add s remains so.
LeavesAlone(s) ==
  /\ UNCHANGED <<sources, items, assigned>>
  /\ Len(ui') \in Nat /\ Len(ui') >= Len(ui)
  /\ \A i \in 1..Len(ui) : ui'[i] = ui[i]
  /\ \A i \in 1..Len(ui') : i > Len(ui) => ~TakesAway(ui'[i], s)
  /\ \A f \in Feeds : Queues(f, s) => Queues(f, s)'

\* Such a step keeps the stream on its way.
LEMMA OnItsWayKept ==
  ASSUME InboundTypes, NEW s, LeavesAlone(s), OnItsWay(s) PROVE OnItsWay(s)'
<1>0. Len(ui) \in Nat
  BY DEF InboundTypes
<1>1. ASSUME NEW i \in 0..Len(ui), KeptFrom(i, s) PROVE KeptFrom(i, s)'
  <2> SUFFICES ASSUME NEW j \in 1..Len(ui'), j > i PROVE ~TakesAway(ui'[j], s)
    BY DEF KeptFrom, TakesAway
  <2> QED BY <1>0, <1>1 DEF LeavesAlone, KeptFrom
<1>2. CASE \E f \in Feeds : Queues(f, s)
  BY <1>2 DEF LeavesAlone, OnItsWay
<1>3. CASE \E i \in 1..Len(ui) : ui[i] = Task("add", {s}) /\ KeptFrom(i, s)
  <2>1. PICK i \in 1..Len(ui) : ui[i] = Task("add", {s}) /\ KeptFrom(i, s)
    BY <1>3
  <2>2. KeptFrom(i, s)' /\ i \in 1..Len(ui') /\ ui'[i] = ui[i]
    BY <1>0, <1>1, <2>1 DEF LeavesAlone
  <2>3. Task("add", {s})' = Task("add", {s})
    BY DEF Task
  <2> QED BY <2>1, <2>2, <2>3 DEF OnItsWay
<1>4. CASE IsShown(s) /\ KeptFrom(0, s)
  <2>1. KeptFrom(0, s)'
    BY <1>0, <1>1, <1>4
  <2>2. IsShown(s)'
    BY <1>4 DEF LeavesAlone, IsShown
  <2> QED BY <2>1, <2>2 DEF OnItsWay
<1> QED BY <1>2, <1>3, <1>4 DEF OnItsWay

\* A step that queues nothing is one.
LEMMA SameUiLeaves ==
  ASSUME InboundTypes, NEW s, UNCHANGED <<ui, sources, items, assigned>>,
         \A f \in Feeds : Queues(f, s) => Queues(f, s)'
  PROVE  LeavesAlone(s)
<1>1. Len(ui) \in Nat
  BY DEF InboundTypes
<1> QED BY <1>1 DEF LeavesAlone

\* So is one that queues a task of another kind,
LEMMA AppendLeaves ==
  ASSUME InboundTypes, NEW s, NEW task, ~TakesAway(task, s), ui' = Append(ui, task), task \in Tasks,
         UNCHANGED <<sources, items, assigned>>,
         \A f \in Feeds : Queues(f, s) => Queues(f, s)'
  PROVE  LeavesAlone(s)
<1>1. Len(ui) \in Nat /\ ui \in Seq(Tasks)
  BY DEF InboundTypes
<1>2. /\ Len(ui') = Len(ui) + 1 /\ ui'[Len(ui) + 1] = task
      /\ \A i \in 1..Len(ui) : ui'[i] = ui[i]
  BY <1>1, Seqs
<1>3. \A i \in 1..Len(ui') : i > Len(ui) => i = Len(ui) + 1
  BY <1>1, <1>2
<1>4. Len(ui') \in Nat /\ Len(ui') >= Len(ui)
  BY <1>1, <1>2
<1> QED BY <1>2, <1>3, <1>4 DEF LeavesAlone

\* and one that queues removals of other streams.
LEMMA RemovalLeaves ==
  ASSUME InboundTypes, NEW streams \in SUBSET Inbound, QueueRemovals(streams), NEW s, s \notin streams,
         UNCHANGED <<sources, items, assigned>>,
         \A f \in Feeds : Queues(f, s) => Queues(f, s)'
  PROVE  LeavesAlone(s)
<1>1. /\ ui' \in Seq(Tasks) /\ Len(ui') >= Len(ui)
      /\ \A i \in 1..Len(ui) : ui'[i] = ui[i]
      /\ \A i \in 1..Len(ui') :
           i > Len(ui) => \E r \in streams : ui'[i] = Task("remove", {r})
  BY QueueRemovalsDoes
<1>2. \A r \in streams : ~TakesAway(Task("remove", {r}), s)
  BY DEF TakesAway, Task
<1>3. \A i \in 1..Len(ui') : i > Len(ui) => ~TakesAway(ui'[i], s)
  BY <1>1, <1>2
<1>4. Len(ui') \in Nat
  BY <1>1
<1> QED BY <1>1, <1>3, <1>4 DEF LeavesAlone

\* The steps that manage no new stream and leave alone those that they keep.
LEMMA RoomKept ==
  ASSUME RoomInv, managed' \subseteq managed, active' \/ managed' = {} \/ active' = active,
         \A s \in managed' : LeavesAlone(s)
  PROVE  StoppedManagesNone' /\ ManagedComes'
<1>1. StoppedManagesNone'
  BY DEF RoomInv, StoppedManagesNone
<1>2. ASSUME NEW s \in managed' PROVE OnItsWay(s)'
  <2>1. OnItsWay(s) /\ InboundTypes /\ LeavesAlone(s)
    BY DEF RoomInv, ManagedComes, WorkerInv
  <2> QED BY <2>1, OnItsWayKept
<1> QED BY <1>1, <1>2 DEF ManagedComes

\* start() and stop().
LEMMA SessionRoom ==
  ASSUME RoomInv, StartInbound \/ StopInbound \/ StopJoins_ \/ StopDrops
  PROVE  StoppedManagesNone' /\ ManagedComes'
<1>1. CASE managed' = {}
  BY <1>1 DEF StoppedManagesNone, ManagedComes
<1>2. CASE (StartInbound /\ active) \/ StopJoins_
  <2>1. UNCHANGED <<ui, sources, items, assigned, feed, managed, active>>
    BY <1>2 DEF StartInbound, StopJoins_, manager_, obs
  <2>2. \A s \in managed : LeavesAlone(s)
    BY <2>1, SameUiLeaves DEF RoomInv, WorkerInv, Queues
  <2> QED BY <2>1, <2>2, RoomKept
<1>3. CASE StopDrops
  <2>1. managed = {} /\ managed' = managed
    BY <1>3
    DEF StopDrops, RoomInv, WorkerInv, OneWorker, StoppedManagesNone, manager_
  <2> QED BY <2>1, <1>1
<1>4. (StartInbound /\ ~active) \/ StopInbound => managed' = {}
  BY DEF StartInbound, StopInbound
<1> QED BY <1>1, <1>2, <1>3, <1>4

\* The steps of a feed before it inserts a stream.
LEMMA QuietFeedRoom ==
  ASSUME RoomInv, NEW f \in Feeds,
         RoomListing(f) \/ StreamAdded(f) \/ AddAdmitted(f) \/ LayoutCopied(f)
  PROVE  StoppedManagesNone' /\ ManagedComes'
<1>1. /\ UNCHANGED <<ui, sources, items, assigned, managed, active>>
      /\ feed[f].step # "queues"
  BY DEF RoomListing, StreamAdded, AddAdmitted, LayoutCopied, manager_, obs
<1>2. \A g \in Feeds : g # f => feed'[g] = feed[g]
  BY DEF RoomListing, StreamAdded, AddAdmitted, LayoutCopied, Added, FeedGoes,
     RoomInv, WorkerInv, InboundTypes
<1>3. ASSUME NEW s PROVE LeavesAlone(s)
  BY <1>1, <1>2, SameUiLeaves DEF RoomInv, WorkerInv, Queues
<1> QED BY <1>1, <1>3, RoomKept

\* A stream that is now managed has a feed that will queue its addition.
LEMMA InsertRoom ==
  ASSUME RoomInv, NEW f \in Feeds, AddInserted(f)
  PROVE  StoppedManagesNone' /\ ManagedComes'
<1>n. PICK new : new = Head(feed[f].todo)
  OBVIOUS
<1>0. InboundTypes
  BY DEF RoomInv, WorkerInv
<1>1. /\ UNCHANGED <<ui, sources, items, assigned, active>>
      /\ feed[f].step = "inserts"
  BY DEF AddInserted, obs
<1>2. \A g \in Feeds : g # f => feed'[g] = feed[g]
  BY <1>0 DEF AddInserted, Added, FeedGoes, InboundTypes
<1>3. ASSUME NEW s PROVE LeavesAlone(s)
  BY <1>0, <1>1, <1>2, SameUiLeaves DEF Queues
<1>4. CASE managed' = managed
  BY <1>1, <1>3, <1>4, RoomKept
<1>5. CASE managed' # managed
  <2>1. /\ active /\ managed' = managed \cup {new} /\ new \notin managed
        /\ FeedGoes(f, "queues")
    BY <1>5, <1>n DEF AddInserted
  <2>2. feed'[f].step = "queues" /\ feed'[f].todo = feed[f].todo
    BY <2>1, <1>0, <1>1, FeedGoesTypes
  <2>3. OnItsWay(new)'
    BY <2>2, <1>n DEF OnItsWay, Queues
  <2>4. ASSUME NEW s \in managed PROVE OnItsWay(s)'
    BY <1>0, <1>3, OnItsWayKept DEF RoomInv, ManagedComes
  <2>5. ManagedComes'
    BY <2>1, <2>3, <2>4 DEF ManagedComes
  <2> QED BY <1>1, <2>1, <2>5 DEF StoppedManagesNone
<1> QED BY <1>4, <1>5

\* The addition is queued behind whatever takes the stream away.
LEMMA AddQueuedRoom ==
  ASSUME RoomInv, NEW f \in Feeds, AddQueued(f)
  PROVE  StoppedManagesNone' /\ ManagedComes'
<1>n. PICK new : new = Head(feed[f].todo)
  OBVIOUS
<1>0. InboundTypes
  BY DEF RoomInv, WorkerInv
<1>1. UNCHANGED <<sources, items, assigned, active, managed>> /\ feed[f].step = "queues"
      /\ ui' = Append(ui, Task("add", {new}))
  BY <1>n DEF AddQueued, manager_
<1>2. \A g \in Feeds : g # f => feed'[g] = feed[g]
  BY <1>0 DEF AddQueued, Added, FeedGoes, InboundTypes
<1>3. new \in Inbound /\ Task("add", {new}) \in Tasks
  BY <1>0, <1>1, <1>n DEF InboundTypes, FeedStates, Task, Tasks
<1>4. \A s : ~TakesAway(Task("add", {new}), s)
  BY DEF TakesAway, Task
<1>5. ASSUME NEW s, s # new PROVE LeavesAlone(s)
  <2>1. \A g \in Feeds : Queues(g, s) => Queues(g, s)'
    BY <1>2, <1>5, <1>n DEF Queues
  <2> QED BY <1>0, <1>1, <1>3, <1>4, <2>1, AppendLeaves
<1>6. OnItsWay(new)'
  <2>1. ui \in Seq(Tasks) /\ Len(ui) \in Nat
    BY <1>0 DEF InboundTypes
  <2>2. Len(ui') = Len(ui) + 1 /\ ui'[Len(ui) + 1] = Task("add", {new})
    BY <1>1, <1>3, <2>1, Seqs
  <2>3. /\ Len(ui) + 1 \in 1..Len(ui')
        /\ \A j \in 1..Len(ui') : ~(j > Len(ui) + 1)
    BY <2>1, <2>2
  <2>4. \E i \in 1..Len(ui') :
          /\ ui'[i] = Task("add", {new})
          /\ \A j \in 1..Len(ui') : j > i => ~TakesAway(ui'[j], new)
    BY <2>2, <2>3
  <2> QED BY <2>4 DEF OnItsWay, KeptFrom, TakesAway, Task
<1>7. ASSUME NEW s \in managed PROVE OnItsWay(s)'
  <2>1. OnItsWay(s)
    BY DEF RoomInv, ManagedComes
  <2> QED BY <1>0, <1>5, <1>6, <2>1, OnItsWayKept
<1> QED BY <1>1, <1>7 DEF ManagedComes, RoomInv, StoppedManagesNone

\* A stream whose removal is queued is managed no more.
LEMMA RemovedRoom ==
  ASSUME RoomInv, NEW f \in Feeds, StreamRemoved(f)
  PROVE  StoppedManagesNone' /\ ManagedComes'
<1>0. InboundTypes
  BY DEF RoomInv, WorkerInv
<1>1. PICK r \in supply.streams : /\ QueueRemovals({r})
        /\ feed' = IF settings_.grid
                     THEN [feed EXCEPT ![f].step = "looks", ![f].todo = <<r>>] ELSE feed
  BY DEF StreamRemoved
<1>2. UNCHANGED <<sources, items, assigned, active>> /\ feed[f].step = "idle"
  BY DEF StreamRemoved
<1>3. {r} \in SUBSET Inbound
  BY <1>0 DEF InboundTypes, Supplies
<1>4. \A g \in Feeds : g # f => feed'[g] = feed[g]
  BY <1>0, <1>1 DEF InboundTypes
<1>5. managed' = managed \ {r}
  BY <1>0, <1>1, <1>3, QueueRemovalsDoes
<1>6. ASSUME NEW s \in managed' PROVE LeavesAlone(s)
  <2>1. s \notin {r}
    BY <1>5
  <2>2. \A g \in Feeds : Queues(g, s) => Queues(g, s)'
    BY <1>2, <1>4 DEF Queues
  <2> QED BY <1>0, <1>1, <1>2, <1>3, <2>1, <2>2, RemovalLeaves
<1> QED BY <1>2, <1>5, <1>6, RoomKept

\* A feed that lays out.
LEMMA LayoutRoom ==
  ASSUME RoomInv, NEW f \in Feeds, LayoutQueued(f)
  PROVE  StoppedManagesNone' /\ ManagedComes'
<1> DEFINE task == Task("layout", feed[f].layout)
<1>0. InboundTypes
  BY DEF RoomInv, WorkerInv
<1>1. UNCHANGED <<sources, items, assigned, active, managed>> /\ feed[f].step = "lays"
      /\ ui' = Append(ui, task)
  BY DEF LayoutQueued, manager_
<1>2. \A g \in Feeds : g # f => feed'[g] = feed[g]
  BY <1>0 DEF LayoutQueued, Added, InboundTypes
<1>3. task \in Tasks
  BY <1>0 DEF InboundTypes, FeedStates, Task, Tasks
<1>4. \A s : ~TakesAway(task, s)
  BY DEF TakesAway, Task
<1>5. ASSUME NEW s PROVE LeavesAlone(s)
  <2>1. \A g \in Feeds : Queues(g, s) => Queues(g, s)'
    BY <1>1, <1>2 DEF Queues
  <2> HIDE DEF task
  <2> QED BY <1>0, <1>1, <1>3, <1>4, <2>1, AppendLeaves
<1> QED BY <1>1, <1>5, RoomKept

\* A worker takes away only what it no longer manages.
LEMMA WorkerRoom ==
  ASSUME RoomInv, NEW w \in 1..Len(workers), RemovalWorker(w)
  PROVE  StoppedManagesNone' /\ ManagedComes'
<1>0. InboundTypes /\ workers[w] \in WorkerStates
  BY ElementOfSeq DEF RoomInv, WorkerInv, InboundTypes
<1>1. UNCHANGED <<sources, items, assigned, active, feed>>
  BY DEF RemovalWorker, WorkerChecks, WorkerTakesDue, WorkerCopiesLayout,
     WorkerQueuesLayout, WorkerKeeps
<1>2. \A s : \A g \in Feeds : Queues(g, s) => Queues(g, s)'
  BY <1>1 DEF Queues
<1>3. CASE WorkerChecks(w) \/ WorkerCopiesLayout(w)
  <2>1. UNCHANGED <<managed, ui>>
    BY <1>3 DEF WorkerChecks, WorkerCopiesLayout
  <2>2. \A s : LeavesAlone(s)
    BY <1>0, <1>1, <1>2, <2>1, SameUiLeaves
  <2> QED BY <1>1, <2>1, <2>2, RoomKept
<1>4. CASE WorkerQueuesLayout(w)
  <2> DEFINE task == Task("layout", workers[w].layout)
  <2>1. managed' = managed /\ ui' = Append(ui, task)
    BY <1>4 DEF WorkerQueuesLayout
  <2>2. task \in Tasks
    BY <1>0 DEF WorkerStates, Task, Tasks
  <2>3. \A s : ~TakesAway(task, s)
    BY DEF TakesAway, Task
  <2> HIDE DEF task
  <2>4. \A s : LeavesAlone(s)
    BY <1>0, <1>1, <1>2, <2>1, <2>2, <2>3, AppendLeaves
  <2> QED BY <1>1, <2>1, <2>4, RoomKept
<1>5. CASE WorkerTakesDue(w)
  <2>1. PICK due \in SUBSET pending : QueueRemovals(due \cap managed)
    BY <1>5 DEF WorkerTakesDue
  <2>2. due \cap managed \in SUBSET Inbound
    BY <1>0 DEF InboundTypes
  <2>3. managed' = managed \ (due \cap managed)
    BY <1>0, <2>1, <2>2, QueueRemovalsDoes
  <2>4. ASSUME NEW s \in managed' PROVE LeavesAlone(s)
    <3>1. s \notin due \cap managed
      BY <2>3
    <3> QED BY <1>0, <1>1, <1>2, <2>1, <2>2, <3>1, RemovalLeaves
  <2> QED BY <1>1, <2>3, <2>4, RoomKept
<1> QED BY <1>3, <1>4, <1>5 DEF RemovalWorker

\* A task is done; one behind it that takes the stream away would have been
\* known.
LEMMA UiRoom == ASSUME RoomInv, UiTask PROVE StoppedManagesNone' /\ ManagedComes'
<1>0. InboundTypes
  BY DEF RoomInv, WorkerInv
<1>1. UNCHANGED <<active, managed, feed>> /\ ui # <<>> /\ ui' = Tail(ui)
  BY DEF UiTask, manager_
<1>2. /\ ui \in Seq(Tasks) /\ Len(ui) \in Nat \ {0} /\ Head(ui) = ui[1]
      /\ ui[1] \in Tasks
  BY <1>0, <1>1, EmptySeq, HeadTailProperties DEF InboundTypes
<1>3. /\ Len(ui') = Len(ui) - 1 /\ \A i \in 1..Len(ui') : ui'[i] = ui[i + 1]
  BY <1>1, <1>2, HeadTailProperties
<1>4. TargetScene \in Scenes
  BY <1>0 DEF TargetScene, InboundTypes, Settings
<1>6. ASSUME NEW s \in managed PROVE OnItsWay(s)'
  <2>0. s \in Inbound /\ OnItsWay(s)
    BY <1>0 DEF InboundTypes, RoomInv, ManagedComes
  <2>1. CASE \E f \in Feeds : Queues(f, s)
    BY <1>1, <2>1 DEF OnItsWay, Queues
  <2>2. ASSUME NEW i \in 1..Len(ui), i # 1, ui[i] = Task("add", {s}), KeptFrom(i, s)
        PROVE  OnItsWay(s)'
    <3>1. i - 1 \in 1..Len(ui') /\ ui'[i - 1] = Task("add", {s})
      BY <1>2, <1>3, <2>2
    <3>2. \A j \in 1..Len(ui') : j > i - 1 => ~TakesAway(ui'[j], s)
      BY <1>2, <1>3, <2>2 DEF KeptFrom
    <3> QED BY <3>1, <3>2 DEF OnItsWay, KeptFrom, Task, TakesAway
  <2>3. ASSUME KeptFrom(1, s) \/ KeptFrom(0, s) PROVE KeptFrom(0, s)'
    BY <1>2, <1>3, <2>3 DEF KeptFrom, TakesAway
  <2>4. CASE ui[1] = Task("add", {s}) /\ KeptFrom(1, s)
    <3>1. Head(ui).do = "add" /\ Head(ui).streams = {s}
      BY <1>2, <2>4 DEF Task
    <3>2. UiAdd(s)
      BY <3>1 DEF UiTask
    <3>3. /\ s \in sources' /\ assigned'[s] = TargetScene
          /\ s \in items'[TargetScene].shown
      BY <3>2, <2>0, <1>0, <1>4 DEF UiAdd, Showing, InboundTypes
    <3>4. TargetScene # NoScene
      BY <1>4, InboundAssumption
    <3>5. IsShown(s)'
      BY <3>3, <3>4 DEF IsShown
    <3> QED BY <3>5, <2>3, <2>4 DEF OnItsWay
  <2>5. CASE IsShown(s) /\ KeptFrom(0, s)
    <3>1. ~TakesAway(Head(ui), s)
      BY <1>2, <2>5 DEF KeptFrom
    <3>2. assigned[s] \in Scenes /\ s \in items[assigned[s]].shown
      BY <1>0, <2>0, <2>5 DEF IsShown, InboundTypes
    <3>3. ASSUME NEW c \in Scenes, NEW streams, items' = Showing(c, streams),
                 sources \subseteq sources', assigned' = assigned
          PROVE  IsShown(s)'
      BY <3>2, <3>3, <2>5, <1>0 DEF IsShown, Showing, InboundTypes
    <3>4. ASSUME UiLayout(Head(ui).streams) PROVE IsShown(s)'
      BY <3>3, <3>4, <1>4 DEF UiLayout
    <3>5. ASSUME NEW r \in Head(ui).streams, UiAdd(r) PROVE IsShown(s)'
      <4>1. CASE r = s
        <5>1. /\ s \in sources' /\ assigned'[s] = TargetScene
              /\ s \in items'[TargetScene].shown
          BY <3>5, <4>1, <2>0, <1>0, <1>4 DEF UiAdd, Showing, InboundTypes
        <5> QED BY <5>1, <1>4, InboundAssumption DEF IsShown
      <4>2. CASE r # s
        <5>1. assigned'[s] = assigned[s] /\ s \in sources'
          BY <3>5, <4>2, <2>0, <2>5, <1>0 DEF UiAdd, InboundTypes, IsShown
        <5>2. s \in items'[assigned[s]].shown
          BY <3>2, <3>5, <1>0 DEF UiAdd, Showing, InboundTypes
        <5> QED BY <5>1, <5>2, <2>5 DEF IsShown
      <4> QED BY <4>1, <4>2
    <3>6. ASSUME NEW r \in Head(ui).streams, Head(ui).do = "remove",
                 UiRemove(r)
          PROVE  IsShown(s)'
      <4>1. r # s
        BY <3>1, <3>6 DEF TakesAway
      <4>2. assigned'[s] = assigned[s]
        BY <3>6, <4>1, <1>0, <2>0 DEF UiRemove, InboundTypes
      <4>3. s \in sources'
        BY <3>6, <4>1, <2>5 DEF UiRemove, IsShown
      <4>4. \/ items' = items
            \/ items' = WithoutSource(r)
            \/ \E c : items' = Hiding(c, r)
        BY <3>6 DEF UiRemove
      <4>5. s \in items'[assigned[s]].shown
        BY <4>1, <4>4, <3>2, <1>0 DEF WithoutSource, Hiding, InboundTypes
      <4> QED BY <4>2, <4>3, <4>5, <2>5 DEF IsShown
    <3>7. ASSUME NEW r \in Head(ui).streams, Head(ui).do = "drop", UiDrop(r)
          PROVE  IsShown(s)'
      <4>1. r # s
        BY <3>1, <3>7 DEF TakesAway
      <4>2. assigned'[s] = assigned[s] /\ s \in sources'
        BY <3>7, <4>1, <1>0, <2>0, <2>5 DEF UiDrop, InboundTypes, IsShown
      <4>3. s \in items'[assigned[s]].shown
        BY <4>1, <3>7, <3>2 DEF UiDrop, WithoutSource
      <4> QED BY <4>2, <4>3, <2>5 DEF IsShown
    <3>8. IsShown(s)'
      BY <3>4, <3>5, <3>6, <3>7 DEF UiTask
    <3> QED BY <3>8, <2>3, <2>5 DEF OnItsWay
  <2> QED BY <2>0, <2>1, <2>2, <2>4, <2>5 DEF OnItsWay
<1> QED BY <1>1, <1>6 DEF ManagedComes, RoomInv, StoppedManagesNone

\* The invariant of the sources is inductive.
LEMMA RoomStep ==
  ASSUME ~StartOverlapsStop, RoomInv, [InboundNext]_inboundVars
  PROVE  RoomInv'
<1>0. WorkerInv'
  BY WorkersStep DEF RoomInv
<1>1. CASE UNCHANGED inboundVars \/ SwitchScene
  <2>1. UNCHANGED <<ui, sources, items, assigned, feed, managed, active>>
    BY <1>1 DEF SwitchScene, inboundVars, manager_, obs
  <2>2. \A s \in managed : LeavesAlone(s)
    BY <2>1, SameUiLeaves DEF RoomInv, WorkerInv, Queues
  <2>3. StoppedManagesNone' /\ ManagedComes'
    BY <2>1, <2>2, RoomKept
  <2> QED BY <1>0, <2>3 DEF RoomInv
<1>2. ASSUME NEW f \in Feeds, RoomListing(f) \/ StreamAdded(f) \/ StreamRemoved(f) \/ FeedStep(f)
      PROVE  StoppedManagesNone' /\ ManagedComes'
  BY <1>2, QuietFeedRoom, InsertRoom, AddQueuedRoom, RemovedRoom, LayoutRoom
  DEF FeedStep
<1>3. ASSUME NEW w \in Removers, Worker_(w)
      PROVE  StoppedManagesNone' /\ ManagedComes'
  <2>1. w \in 1..Len(workers)
    BY <1>3 DEF Worker_, RoomInv, WorkerInv, InboundTypes
  <2> QED BY <1>3, <2>1, WorkerRoom DEF Worker_
<1>4. ASSUME UiTask PROVE StoppedManagesNone' /\ ManagedComes'
  BY <1>4, UiRoom
<1>5. ASSUME StartInbound \/ StopInbound \/ StopJoins_ \/ StopDrops
      PROVE  StoppedManagesNone' /\ ManagedComes'
  BY <1>5, SessionRoom
<1> QED BY <1>0, <1>1, <1>2, <1>3, <1>4, <1>5 DEF RoomInv, InboundNext

\* Before the first start().
LEMMA RoomInit == InboundInit => RoomInv
  BY WorkersInit DEF InboundInit, RoomInv, StoppedManagesNone, ManagedComes

\* At rest nothing is on its way, so what is managed is shown.
LEMMA RoomSafe == RoomInv => ManagedIsShown
<1> SUFFICES ASSUME RoomInv, InboundAtRest, NEW s \in managed PROVE IsShown(s)
  BY DEF ManagedIsShown, IsShown
<1>1. Len(ui) = 0
  BY EmptySeq DEF InboundAtRest
<1>2. \A f \in Feeds : ~Queues(f, s)
  BY DEF InboundAtRest, Queues
<1> QED BY <1>1, <1>2 DEF RoomInv, ManagedComes, OnItsWay

\* While start() does not overlap stop(), the removal worker sleeps only when
\* there is nothing to do and nobody has stopped it, for any streams, feeds and
\* numbers of sessions.
THEOREM RemoversStayAwake ==
  ASSUME ~StartOverlapsStop
  PROVE  InboundSpec => []RemoversAwake
<1>1. InboundInit => WorkerInv
  BY WorkersInit
<1>2. WorkerInv /\ [InboundNext]_inboundVars => WorkerInv'
  BY WorkersStep
<1> QED BY <1>1, <1>2, WorkersSafe, PTL DEF InboundSpec

\* Once everything came to rest each managed stream has its source, shown in
\* the scene where it was added.
THEOREM ManagedShown ==
  ASSUME ~StartOverlapsStop
  PROVE  InboundSpec => []ManagedIsShown
<1>1. InboundInit => RoomInv
  BY RoomInit
<1>2. RoomInv /\ [InboundNext]_inboundVars => RoomInv'
  BY RoomStep
<1> QED BY <1>1, <1>2, RoomSafe, PTL DEF InboundSpec

------------------------------------------------------------------------------
(***************************************************************************)
(* The turns of a pacer (PacerQueues).                                     *)
(***************************************************************************)
PacketSteps == {"selects", "asks", "waits", "granted", "sends"}
PacketKinds == {"none", "repair", "media", "copy"}
Hands == [step : PacketSteps, kind : PacketKinds, repairs : Nat]
Aheads == [repairs : Nat, copies : Nat]
QueuedFrames == [size : Nat, left : Int, key : BOOLEAN]
PacerLives == {"none", "runs", "stops", "over"}

TurnTypes ==
  /\ alive \in [Pacers -> PacerLives]
  /\ hand \in [Pacers -> Hands]
  /\ ahead \in [Pacers -> Aheads]
  /\ media_ \in [Pacers -> Seq(QueuedFrames)]

InFlight(p, kind) ==
  /\ hand[p].step \in {"asks", "waits", "granted"}
  /\ hand[p].kind = kind

\* The repairs in a row are at least those that went ahead of the frame that
\* waits; a repair was chosen while its turn allowed it, a copy while no frame
\* was there, and nothing goes ahead while a packet of a frame is sent.
TurnOf(p) ==
  /\ ahead[p].repairs <= hand[p].repairs
  /\ ahead[p].repairs <= MaxConsecutive /\ ahead[p].copies <= 1
  /\ InFlight(p, "repair") => ahead[p].repairs < MaxConsecutive
  /\ InFlight(p, "copy") => ahead[p] = NothingAhead
  /\ hand[p].step = "sends" /\ hand[p].kind = "media" => ahead[p] = NothingAhead
  /\ media_[p] = <<>> /\ alive[p] # "over" => ahead[p] = NothingAhead
TurnInv == TurnTypes /\ \A p \in Pacers : TurnOf(p)

\* Another pacer's step.
SameTurn(p) ==
  UNCHANGED <<hand[p], ahead[p], media_[p], alive[p]>>

\* It keeps what is known of this one.
LEMMA SameTurnKeeps ==
  ASSUME NEW p \in Pacers, TurnOf(p), SameTurn(p)
  PROVE  TurnOf(p)'
  BY DEF TurnOf, SameTurn, InFlight


\* The worker has selected a packet.
LEMMA PickedDoes ==
  ASSUME TurnTypes, NEW p \in Pacers, NEW kind \in PacketKinds, Picked(p, kind)
  PROVE  /\ hand' \in [Pacers -> Hands]
         /\ \A q \in Pacers : q # p => hand'[q] = hand[q]
         /\ hand'[p].step = "asks" /\ hand'[p].kind = kind
         /\ hand'[p].repairs = hand[p].repairs
  BY DEF TurnTypes, Picked, Hands, PacketSteps

\* It goes on with the same packet.
LEMMA HandStepDoes ==
  ASSUME TurnTypes, NEW p \in Pacers, NEW step \in PacketSteps, hand' = [hand EXCEPT ![p].step = step]
  PROVE  /\ hand' \in [Pacers -> Hands]
         /\ \A q \in Pacers : q # p => hand'[q] = hand[q]
         /\ hand'[p].step = step /\ hand'[p].kind = hand[p].kind
         /\ hand'[p].repairs = hand[p].repairs
  BY DEF TurnTypes, Hands

\* It sends, and counts its repairs.
LEMMA HandGoesDoes ==
  ASSUME TurnTypes, NEW p \in Pacers, NEW n \in Nat, HandGoes(p, n)
  PROVE  /\ hand' \in [Pacers -> Hands]
         /\ \A q \in Pacers : q # p => hand'[q] = hand[q]
         /\ hand'[p].step = "sends" /\ hand'[p].kind = hand[p].kind
         /\ hand'[p].repairs = n
  BY DEF TurnTypes, HandGoes, Hands, PacketSteps

\* It is done with the packet.
LEMMA BackDoes ==
  ASSUME TurnTypes, NEW p \in Pacers, Back(p)
  PROVE  /\ hand' \in [Pacers -> Hands]
         /\ \A q \in Pacers : q # p => hand'[q] = hand[q]
         /\ hand'[p].step = "selects" /\ hand'[p].repairs = hand[p].repairs
  BY DEF TurnTypes, Back, Hands, PacketSteps, PacketKinds

\* A packet goes ahead of a frame that waits.
LEMMA GoesAheadDoes ==
  ASSUME TurnTypes, NEW p \in Pacers, NEW kind \in {"repairs", "copies"}, GoesAhead(p, kind)
  PROVE  /\ ahead' \in [Pacers -> Aheads]
         /\ \A q \in Pacers : q # p => ahead'[q] = ahead[q]
         /\ media_[p] = <<>> => ahead'[p] = ahead[p]
         /\ media_[p] # <<>> =>
              /\ ahead'[p].repairs = IF kind = "repairs" THEN ahead[p].repairs + 1 ELSE ahead[p].repairs
              /\ ahead'[p].copies = IF kind = "copies" THEN ahead[p].copies + 1 ELSE ahead[p].copies
<1>0. ahead[p] \in Aheads /\ ahead[p].repairs \in Nat /\ ahead[p].copies \in Nat
  BY DEF TurnTypes, Aheads
<1>1. CASE media_[p] = <<>>
  BY <1>1 DEF TurnTypes, GoesAhead
<1>2. CASE media_[p] # <<>> /\ kind = "repairs"
  <2> DEFINE r == [ahead[p] EXCEPT !["repairs"] = ahead[p]["repairs"] + 1]
  <2>1. /\ r \in Aheads /\ r.repairs = ahead[p].repairs + 1
        /\ r.copies = ahead[p].copies
    BY <1>0 DEF Aheads
  <2>2. ahead' = [ahead EXCEPT ![p] = r]
    BY <1>2 DEF GoesAhead
  <2> HIDE DEF r
  <2> QED BY <1>2, <2>1, <2>2 DEF TurnTypes
<1>3. CASE media_[p] # <<>> /\ kind = "copies"
  <2> DEFINE r == [ahead[p] EXCEPT !["copies"] = ahead[p]["copies"] + 1]
  <2>1. /\ r \in Aheads /\ r.copies = ahead[p].copies + 1
        /\ r.repairs = ahead[p].repairs
    BY <1>0 DEF Aheads
  <2>2. ahead' = [ahead EXCEPT ![p] = r]
    BY <1>3 DEF GoesAhead
  <2> HIDE DEF r
  <2> QED BY <1>3, <2>1, <2>2 DEF TurnTypes
<1> QED BY <1>1, <1>2, <1>3

\* What a discard keeps and drops are frames.
LEMMA KeptType ==
  ASSUME NEW q \in Seq(QueuedFrames)
  PROVE  Kept(q) \in Seq(QueuedFrames) /\ Dropped(q) \in Seq(QueuedFrames)
<1>1. q # <<>> => Head(q) \in QueuedFrames /\ Tail(q) \in Seq(QueuedFrames)
  BY HeadTailProperties
<1>2. \A f \in QueuedFrames : <<f>> \in Seq(QueuedFrames)
  OBVIOUS
<1> QED BY <1>1, <1>2 DEF Kept, Dropped

\* The first keyframe's place, or 0.
LEMMA SelectedIndex ==
  ASSUME NEW q \in Seq(QueuedFrames)
  PROVE  SelectInSeq(q, LAMBDA f : f.key) \in 0..Len(q)
<1> DEFINE I == {i \in 1..Len(q) : q[i].key}
<1>1. SelectInSeq(q, LAMBDA f : f.key) = IF I # {} THEN Min(I) ELSE 0
  BY DEF SelectInSeq
<1>2. I \in SUBSET Nat
  OBVIOUS
<1>3. I # {} => Min(I) \in I
  BY <1>2, LeastOf
<1> QED BY <1>1, <1>3

\* What a discard leaves are frames.
LEMMA DiscardedTypes ==
  ASSUME TurnTypes, NEW p \in Pacers, DiscardDeltas(p) \/ DiscardMedia(p)
  PROVE  /\ media_' \in [Pacers -> Seq(QueuedFrames)]
         /\ \A r \in Pacers : r # p => media_'[r] = media_[r]
<1> DEFINE q == media_[p]
           rest == Dropped(q)
           key == SelectInSeq(rest, LAMBDA f : f.key)
           live == IF key = 0 THEN <<>> ELSE SubSeq(rest, key, Len(rest))
<1>1. /\ q \in Seq(QueuedFrames) /\ rest \in Seq(QueuedFrames)
      /\ Kept(q) \in Seq(QueuedFrames)
  BY KeptType DEF TurnTypes
<1>2. key \in 0..Len(rest) /\ Len(rest) \in Nat
  BY <1>1, SelectedIndex
<1>3. live \in Seq(QueuedFrames)
  <2>1. CASE key = 0
    BY <2>1
  <2>2. CASE key # 0
    <3>1. \A i \in key..Len(rest) : rest[i] \in QueuedFrames
      BY <1>1, <1>2, <2>2, ElementOfSeq
    <3>2. SubSeq(rest, key, Len(rest)) \in Seq(QueuedFrames)
      BY <1>2, <3>1, SubSeqProperties
    <3> QED BY <2>2, <3>2
  <2> QED BY <2>1, <2>2
<1>4. media_' = [media_ EXCEPT ![p] = Kept(q) \o live] \/ media_' = [media_ EXCEPT ![p] = Kept(q)]
  BY DEF DiscardDeltas, DiscardMedia
<1> HIDE DEF live, key, rest, q
<1>5. Kept(q) \o live \in Seq(QueuedFrames)
  BY <1>1, <1>3, ConcatProperties
<1> QED BY <1>1, <1>4, <1>5 DEF TurnTypes

\* A pacer's step concerns that pacer.
LEMMA TurnStepOf ==
  ASSUME TurnInv, NEW p \in Pacers, TurnTypes', TurnOf(p)', \A q \in Pacers : q # p => SameTurn(q)
  PROVE  TurnInv'
  BY SameTurnKeeps DEF TurnInv

\* A step that changes none of this.
LEMMA AllSame ==
  ASSUME TurnInv, UNCHANGED <<hand, ahead, media_, alive>> PROVE TurnInv'
<1>1. TurnTypes'
  BY DEF TurnInv, TurnTypes
<1>2. \A p \in Pacers : SameTurn(p)
  BY DEF SameTurn
<1> QED BY <1>1, <1>2, SameTurnKeeps DEF TurnInv

\* What is counted are numbers.
LEMMA TurnNumbers ==
  ASSUME TurnTypes, NEW p \in Pacers
  PROVE  /\ hand[p] \in Hands /\ hand[p].repairs \in Nat
         /\ ahead[p] \in Aheads /\ ahead[p].repairs \in Nat
         /\ ahead[p].copies \in Nat
         /\ NothingAhead \in Aheads /\ NothingAhead.repairs = 0
         /\ NothingAhead.copies = 0
         /\ MaxConsecutive \in Nat /\ MaxConsecutive > 0
  BY PacerAssumption DEF TurnTypes, Hands, Aheads, NothingAhead

\* The actions that change neither the worker's hand nor what went ahead.
LEMMA CallerTurn ==
  ASSUME TurnInv, NEW p \in Pacers, CreatePacer(p) \/ StopPacing(p) \/ EnqueueFrame(p)
  PROVE  TurnInv'
<1> USE DEF TurnInv
<1>1. hand' = hand /\ ahead' = ahead
  BY DEF CreatePacer, StopPacing, EnqueueFrame
<1>2. /\ \A q \in Pacers : q # p => alive'[q] = alive[q]
      /\ alive' \in [Pacers -> PacerLives]
  BY DEF CreatePacer, StopPacing, EnqueueFrame, TurnTypes, PacerLives
<1>5. alive[p] # "over"
  BY DEF CreatePacer, StopPacing, EnqueueFrame
<1>3. CASE media_' = media_
  <2>1. TurnTypes'
    BY <1>1, <1>2, <1>3 DEF TurnTypes
  <2>2. TurnOf(p)'
    BY <1>1, <1>5, <1>3 DEF TurnOf, InFlight
  <2>3. \A q \in Pacers : q # p => SameTurn(q)
    BY <1>1, <1>2, <1>3 DEF SameTurn
  <2> QED BY <2>1, <2>2, <2>3, TurnStepOf
<1>4. CASE EnqueueFrame(p)
  <2>1. PICK n \in FrameSizes, key \in BOOLEAN :
          media_' = [media_ EXCEPT ![p] = Append(@, NewFrame(n, key))]
    BY <1>4 DEF EnqueueFrame
  <2>2. NewFrame(n, key) \in QueuedFrames
    BY PacerAssumption DEF NewFrame, QueuedFrames
  <2>3. media_[p] \in Seq(QueuedFrames)
    BY DEF TurnTypes
  <2> DEFINE f == NewFrame(n, key)
  <2> HIDE DEF f
  <2>4. /\ Append(media_[p], f) \in Seq(QueuedFrames)
        /\ Append(media_[p], f) # <<>>
    BY <2>2, <2>3 DEF f
  <2>5. /\ media_' \in [Pacers -> Seq(QueuedFrames)] /\ media_'[p] # <<>>
        /\ \A q \in Pacers : q # p => media_'[q] = media_[q]
    BY <2>1, <2>4 DEF TurnTypes, f
  <2>6. TurnTypes'
    BY <1>1, <1>2, <2>5 DEF TurnTypes
  <2>7. TurnOf(p)'
    BY <1>1, <2>5 DEF TurnOf, InFlight
  <2>8. \A q \in Pacers : q # p => SameTurn(q)
    BY <1>1, <1>2, <2>5 DEF SameTurn
  <2> QED BY <2>6, <2>7, <2>8, TurnStepOf
<1> QED BY <1>3, <1>4 DEF CreatePacer, StopPacing, queues

\* A discard that takes the last frame away ends its wait.
LEMMA DiscardTurn ==
  ASSUME TurnInv, NEW p \in Pacers, DiscardDeltas(p) \/ DiscardMedia(p)
  PROVE  TurnInv'
<1> USE DEF TurnInv
<1>1. hand' = hand /\ alive' = alive /\ NoneWaits(p)
  BY DEF DiscardDeltas, DiscardMedia
<1>2. /\ media_' \in [Pacers -> Seq(QueuedFrames)]
      /\ \A q \in Pacers : q # p => media_'[q] = media_[q]
  BY DiscardedTypes
<1>3. (ahead' = ahead /\ media_'[p] # <<>>) \/ ahead' = [ahead EXCEPT ![p] = NothingAhead]
  BY <1>1 DEF NoneWaits
<1>4. /\ ahead' \in [Pacers -> Aheads]
      /\ \A q \in Pacers : q # p => ahead'[q] = ahead[q]
      /\ (ahead'[p] = ahead[p] /\ media_'[p] # <<>>) \/ ahead'[p] = NothingAhead
  BY <1>3, TurnNumbers DEF TurnTypes
<1>5. TurnTypes'
  BY <1>1, <1>2, <1>4 DEF TurnTypes
<1>6. TurnOf(p)'
  BY <1>1, <1>4, TurnNumbers DEF TurnOf, InFlight
<1>7. \A q \in Pacers : q # p => SameTurn(q)
  BY <1>1, <1>2, <1>4 DEF SameTurn
<1> QED BY <1>5, <1>6, <1>7, TurnStepOf

\* A worker's step that leaves the media alone.
LEMMA WorkerTurn ==
  ASSUME TurnInv, NEW p \in Pacers, UNCHANGED <<media_, alive>>, TurnOf(p)',
         hand' \in [Pacers -> Hands], ahead' \in [Pacers -> Aheads],
         \A q \in Pacers : q # p => hand'[q] = hand[q] /\ ahead'[q] = ahead[q]
  PROVE  TurnInv'
<1>1. TurnTypes'
  BY DEF TurnInv, TurnTypes
<1>2. \A q \in Pacers : q # p => SameTurn(q)
  BY DEF SameTurn
<1> QED BY <1>1, <1>2, TurnStepOf

\* A repair is selected while it may go ahead, a copy when no frame waits.
LEMMA SelectTurn ==
  ASSUME TurnInv, NEW p \in Pacers, SelectsPacket(p)
  PROVE  TurnInv'
<1>0. TurnTypes /\ TurnOf(p)
  BY DEF TurnInv
<1>1. UNCHANGED <<media_, alive, ahead>> /\ alive[p] = "runs"
  BY DEF SelectsPacket, queues, Selects
<1>2. /\ hand' \in [Pacers -> Hands]
      /\ \A q \in Pacers : q # p => hand'[q] = hand[q]
      /\ hand'[p].step = "asks" /\ hand'[p].repairs = hand[p].repairs
      /\ hand'[p].kind = "repair" => media_[p] = <<>> \/ hand[p].repairs < MaxConsecutive
      /\ hand'[p].kind = "copy" => media_[p] = <<>>
  <2>1. CASE RepairsTurn(p) /\ Picked(p, "repair")
    BY <2>1, <1>0, PickedDoes DEF RepairsTurn, PacketKinds
  <2>2. CASE Picked(p, "media")
    BY <2>2, <1>0, PickedDoes DEF PacketKinds
  <2>3. CASE media_[p] = <<>> /\ Picked(p, "copy")
    BY <2>3, <1>0, PickedDoes DEF PacketKinds
  <2> QED BY <2>1, <2>2, <2>3 DEF SelectsPacket
<1>3. media_[p] = <<>> => ahead[p].repairs < MaxConsecutive
  BY <1>0, <1>1, TurnNumbers DEF TurnOf
<1>4. hand'[p].kind = "repair" => ahead[p].repairs < MaxConsecutive
  <2>1. CASE hand[p].repairs < MaxConsecutive
    BY <2>1, <1>0, TurnNumbers DEF TurnOf
  <2> QED BY <2>1, <1>2, <1>3
<1>5. TurnOf(p)'
  BY <1>0, <1>1, <1>2, <1>4 DEF TurnOf, InFlight
<1> QED BY <1>0, <1>1, <1>2, <1>5, WorkerTurn DEF TurnTypes

\* The packet in hand stays chosen, or is given back.
LEMMA StepTurn ==
  ASSUME TurnInv, NEW p \in Pacers, AsksBudget(p) \/ Granted(p) \/ Cancelled(p) \/ ChoiceFell(p)
  PROVE  TurnInv'
<1>0. TurnTypes /\ TurnOf(p)
  BY DEF TurnInv
<1>1. UNCHANGED <<media_, alive, ahead>>
  BY DEF AsksBudget, Granted, Cancelled, ChoiceFell, queues
<1>2. PICK step \in {"waits", "granted", "selects"} :
        hand' = [hand EXCEPT ![p].step = step]
  BY DEF AsksBudget, Granted, Cancelled, ChoiceFell
<1>3. hand[p].step \in {"asks", "waits", "granted"}
  BY DEF AsksBudget, Granted, Cancelled, ChoiceFell
<1>4. /\ hand' \in [Pacers -> Hands]
      /\ \A q \in Pacers : q # p => hand'[q] = hand[q]
      /\ hand'[p].step = step /\ hand'[p].kind = hand[p].kind
      /\ hand'[p].repairs = hand[p].repairs
  BY <1>0, <1>2, HandStepDoes DEF PacketSteps
<1>5. TurnOf(p)'
  BY <1>0, <1>1, <1>3, <1>4 DEF TurnOf, InFlight
<1> QED BY <1>0, <1>1, <1>4, <1>5, WorkerTurn DEF TurnTypes

\* A pacer with nothing to send counts its repairs anew.
LEMMA IdleTurn == ASSUME TurnInv, NEW p \in Pacers, PacerIdles(p) PROVE TurnInv'
<1>0. TurnTypes /\ TurnOf(p)
  BY DEF TurnInv
<1>1. UNCHANGED <<media_, alive, ahead>> /\ alive[p] = "runs" /\ media_[p] = <<>>
      /\ hand[p].step = "selects" /\ hand' = [hand EXCEPT ![p].repairs = 0]
  BY DEF PacerIdles, Selects, queues
<1>2. /\ hand' \in [Pacers -> Hands]
      /\ \A q \in Pacers : q # p => hand'[q] = hand[q]
      /\ hand'[p].step = "selects" /\ hand'[p].repairs = 0
  BY <1>0, <1>1 DEF TurnTypes, Hands
<1>3. ahead[p] = NothingAhead
  BY <1>0, <1>1 DEF TurnOf
<1>4. TurnOf(p)'
  BY <1>1, <1>2, <1>3, TurnNumbers, <1>0 DEF TurnOf, InFlight
<1> QED BY <1>0, <1>1, <1>2, <1>4, WorkerTurn DEF TurnTypes

\* A repair goes ahead of a frame that waits.
LEMMA SendsRepairTurn ==
  ASSUME TurnInv, NEW p \in Pacers, SendsRepair(p)
  PROVE  TurnInv'
<1>0. TurnTypes /\ TurnOf(p)
  BY DEF TurnInv
<1>1. UNCHANGED <<media_, alive>> /\ InFlight(p, "repair") /\ alive[p] = "runs"
      /\ HandGoes(p, hand[p].repairs + 1) /\ GoesAhead(p, "repairs")
  BY DEF SendsRepair, MaySend, InFlight
<1>2. /\ hand' \in [Pacers -> Hands]
      /\ \A q \in Pacers : q # p => hand'[q] = hand[q]
      /\ hand'[p].step = "sends" /\ hand'[p].kind = "repair"
      /\ hand'[p].repairs = hand[p].repairs + 1
  BY <1>0, <1>1, HandGoesDoes, TurnNumbers DEF InFlight
<1>3. /\ ahead' \in [Pacers -> Aheads]
      /\ \A q \in Pacers : q # p => ahead'[q] = ahead[q]
      /\ media_[p] = <<>> => ahead'[p] = ahead[p]
      /\ media_[p] # <<>> => ahead'[p].repairs = ahead[p].repairs + 1 /\ ahead'[p].copies = ahead[p].copies
  BY <1>0, <1>1, GoesAheadDoes
<1>4. /\ ahead[p].repairs < MaxConsecutive /\ ahead[p].repairs <= hand[p].repairs
      /\ ahead[p].copies <= 1
  BY <1>0, <1>1 DEF TurnOf
<1>5. /\ ahead'[p].repairs <= hand'[p].repairs
      /\ ahead'[p].repairs <= MaxConsecutive /\ ahead'[p].copies <= 1
  BY <1>0, <1>2, <1>3, <1>4, TurnNumbers
<1>6. media_[p] = <<>> => ahead'[p] = NothingAhead
  BY <1>0, <1>1, <1>3 DEF TurnOf
<1>7. TurnOf(p)'
  BY <1>1, <1>2, <1>5, <1>6 DEF TurnOf, InFlight
<1> QED BY <1>0, <1>1, <1>2, <1>3, <1>7, WorkerTurn

\* So does a copy, once.
LEMMA SendsCopyTurn == ASSUME TurnInv, NEW p \in Pacers, SendsCopy(p) PROVE TurnInv'
<1>0. TurnTypes /\ TurnOf(p)
  BY DEF TurnInv
<1>1. UNCHANGED <<media_, alive>> /\ InFlight(p, "copy") /\ alive[p] = "runs"
      /\ HandGoes(p, 0) /\ GoesAhead(p, "copies")
  BY DEF SendsCopy, MaySend, InFlight
<1>2. /\ hand' \in [Pacers -> Hands]
      /\ \A q \in Pacers : q # p => hand'[q] = hand[q]
      /\ hand'[p].step = "sends" /\ hand'[p].kind = "copy" /\ hand'[p].repairs = 0
  BY <1>0, <1>1, HandGoesDoes DEF InFlight
<1>3. /\ ahead' \in [Pacers -> Aheads]
      /\ \A q \in Pacers : q # p => ahead'[q] = ahead[q]
      /\ media_[p] = <<>> => ahead'[p] = ahead[p]
      /\ media_[p] # <<>> => ahead'[p].repairs = ahead[p].repairs /\ ahead'[p].copies = ahead[p].copies + 1
  BY <1>0, <1>1, GoesAheadDoes
<1>4. ahead[p] = NothingAhead
  BY <1>0, <1>1 DEF TurnOf
<1>5. /\ ahead'[p].repairs <= hand'[p].repairs
      /\ ahead'[p].repairs <= MaxConsecutive /\ ahead'[p].copies <= 1
  BY <1>0, <1>2, <1>3, <1>4, TurnNumbers
<1>6. TurnOf(p)'
  BY <1>1, <1>2, <1>3, <1>4, <1>5 DEF TurnOf, InFlight
<1> QED BY <1>0, <1>1, <1>2, <1>3, <1>6, WorkerTurn

\* A packet of the frame itself: nothing went ahead of the next.
LEMMA SendsMediaTurn ==
  ASSUME TurnInv, NEW p \in Pacers, SendsMedia(p)
  PROVE  TurnInv'
<1>0. TurnTypes /\ TurnOf(p)
  BY DEF TurnInv
<1>1. alive' = alive /\ InFlight(p, "media") /\ HandGoes(p, 0)
      /\ ahead' = [ahead EXCEPT ![p] = NothingAhead]
  BY DEF SendsMedia, MaySend, InFlight
<1>2. /\ hand' \in [Pacers -> Hands]
      /\ \A q \in Pacers : q # p => hand'[q] = hand[q]
      /\ hand'[p].step = "sends" /\ hand'[p].kind = "media" /\ hand'[p].repairs = 0
  BY <1>0, <1>1, HandGoesDoes DEF InFlight
<1>3. /\ ahead' \in [Pacers -> Aheads]
      /\ \A q \in Pacers : q # p => ahead'[q] = ahead[q]
      /\ ahead'[p] = NothingAhead
  BY <1>0, <1>1, TurnNumbers DEF TurnTypes
<1>4. /\ media_' \in [Pacers -> Seq(QueuedFrames)]
      /\ \A q \in Pacers : q # p => media_'[q] = media_[q]
  <2> DEFINE q == media_[p]
             f == [q[1] EXCEPT !.left = q[1].left - 1]
             r == [q EXCEPT ![1] = f]
  <2>1. q \in Seq(QueuedFrames)
    BY <1>0 DEF TurnTypes
  <2>2. r \in Seq(QueuedFrames)
    <3>1. CASE 1 \in 1..Len(q)
      <4>1. q[1] \in QueuedFrames
        BY <2>1, <3>1, ElementOfSeq
      <4>2. f \in QueuedFrames
        BY <4>1 DEF QueuedFrames
      <4> HIDE DEF f, q
      <4> QED BY <2>1, <3>1, <4>2, ExceptSeq
    <3>2. CASE 1 \notin 1..Len(q)
      <4>1. 1 \notin DOMAIN q
        BY <2>1, <3>2
      <4>2. r = q
        BY <4>1, <2>1
      <4> QED BY <2>1, <4>2
    <3> QED BY <3>1, <3>2
  <2>3. media_' = [media_ EXCEPT ![p] = r]
    BY DEF SendsMedia
  <2> HIDE DEF r
  <2> QED BY <1>0, <2>2, <2>3 DEF TurnTypes
<1>5. TurnOf(p)'
  BY <1>0, <1>2, <1>3, TurnNumbers DEF TurnOf, InFlight
<1>6. TurnTypes' /\ \A q \in Pacers : q # p => SameTurn(q)
  BY <1>0, <1>1, <1>2, <1>3, <1>4 DEF TurnTypes, SameTurn
<1> QED BY <1>5, <1>6, TurnStepOf

\* A repair or a copy is out.
LEMMA ExtraSentTurn == ASSUME TurnInv, NEW p \in Pacers, ExtraSent(p) PROVE TurnInv'
<1>0. TurnTypes /\ TurnOf(p)
  BY DEF TurnInv
<1>1. UNCHANGED <<media_, alive, ahead>> /\ Back(p)
  BY DEF ExtraSent, queues
<1>2. /\ hand' \in [Pacers -> Hands]
      /\ \A q \in Pacers : q # p => hand'[q] = hand[q]
      /\ hand'[p].step = "selects" /\ hand'[p].repairs = hand[p].repairs
  BY <1>0, <1>1, BackDoes
<1>3. TurnOf(p)'
  BY <1>0, <1>1, <1>2 DEF TurnOf, InFlight
<1> QED BY <1>0, <1>1, <1>2, <1>3, WorkerTurn DEF TurnTypes

\* A packet of a frame is out, or failed.
LEMMA FrameSentTurn ==
  ASSUME TurnInv, NEW p \in Pacers, MediaSent(p) \/ MediaFailed(p)
  PROVE  TurnInv'
<1>0. TurnTypes /\ TurnOf(p)
  BY DEF TurnInv
<1>1. /\ UNCHANGED <<alive, ahead>> /\ Back(p) /\ hand[p].step = "sends"
      /\ hand[p].kind = "media"
  BY DEF MediaSent, MediaFailed
<1>2. /\ hand' \in [Pacers -> Hands]
      /\ \A q \in Pacers : q # p => hand'[q] = hand[q]
      /\ hand'[p].step = "selects" /\ hand'[p].repairs = hand[p].repairs
  BY <1>0, <1>1, BackDoes
<1>3. ahead[p] = NothingAhead
  BY <1>0, <1>1 DEF TurnOf
<1>4. /\ media_' \in [Pacers -> Seq(QueuedFrames)]
      /\ \A q \in Pacers : q # p => media_'[q] = media_[q]
  <2>1. PICK r \in {media_[p], Tail(media_[p])} : media_' = [media_ EXCEPT ![p] = r]
    BY <1>0 DEF MediaSent, MediaFailed, TurnTypes
  <2>2. CASE media_[p] # <<>>
    <3>1. r \in Seq(QueuedFrames)
      BY <1>0, <2>2, HeadTailProperties DEF TurnTypes
    <3> QED BY <1>0, <2>1, <3>1 DEF TurnTypes
  <2>3. CASE media_[p] = <<>>
    <3>1. Tail(<<>>) = <<>>
      OBVIOUS
    <3>2. r = media_[p]
      BY <2>1, <2>3, <3>1
    <3> QED BY <1>0, <2>1, <3>2 DEF TurnTypes
  <2> QED BY <2>2, <2>3
<1>5. TurnOf(p)'
  BY <1>0, <1>1, <1>2, <1>3, TurnNumbers DEF TurnOf, InFlight
<1>6. TurnTypes' /\ \A q \in Pacers : q # p => SameTurn(q)
  BY <1>0, <1>1, <1>2, <1>4 DEF TurnTypes, SameTurn
<1> QED BY <1>5, <1>6, TurnStepOf

\* The worker ends and takes the frames away.
LEMMA EndsTurn == ASSUME TurnInv, NEW p \in Pacers, PacerEnds(p) PROVE TurnInv'
<1>0. TurnTypes /\ TurnOf(p)
  BY DEF TurnInv
<1>1. UNCHANGED <<hand, ahead>> /\ alive' = [alive EXCEPT ![p] = "over"]
      /\ media_' = [media_ EXCEPT ![p] = <<>>] /\ alive[p] = "stops"
  BY DEF PacerEnds
<1>2. /\ media_' \in [Pacers -> Seq(QueuedFrames)]
      /\ \A q \in Pacers : q # p => media_'[q] = media_[q]
  BY <1>0, <1>1, EmptySeq DEF TurnTypes
<1>3. alive' \in [Pacers -> PacerLives] /\ alive'[p] = "over"
      /\ \A q \in Pacers : q # p => alive'[q] = alive[q]
  BY <1>0, <1>1 DEF TurnTypes, PacerLives
<1>4. TurnTypes'
  BY <1>0, <1>1, <1>2, <1>3 DEF TurnTypes
<1>5. TurnOf(p)'
  BY <1>0, <1>1, <1>3 DEF TurnOf, InFlight
<1>6. \A q \in Pacers : q # p => SameTurn(q)
  BY <1>1, <1>2, <1>3 DEF SameTurn
<1> QED BY <1>4, <1>5, <1>6, TurnStepOf

\* The invariant is inductive.
LEMMA TurnStep == ASSUME TurnInv, PacersNext PROVE TurnInv'
<1>1. CASE Refill
  BY <1>1, AllSame DEF Refill, queues
<1>2. ASSUME NEW p \in Pacers, Caller(p) PROVE TurnInv'
  <2>1. CASE CreatePacer(p) \/ StopPacing(p) \/ EnqueueFrame(p)
    BY <2>1, CallerTurn
  <2>2. CASE EnqueueRepair(p) \/ StopLeaves(p)
    BY <2>2, AllSame DEF EnqueueRepair, StopLeaves, queues
  <2>3. CASE DiscardDeltas(p) \/ DiscardMedia(p)
    BY <2>3, DiscardTurn
  <2> QED BY <1>2, <2>1, <2>2, <2>3 DEF Caller
<1>3. ASSUME NEW p \in Pacers, Pacer(p) PROVE TurnInv'
  <2>1. CASE CopiesExpire(p) \/ RepairExpires(p)
    BY <2>1, AllSame DEF CopiesExpire, RepairExpires
  <2>2. CASE AsksBudget(p) \/ Granted(p) \/ Cancelled(p) \/ ChoiceFell(p)
    BY <2>2, StepTurn
  <2>3. CASE MediaSent(p) \/ MediaFailed(p)
    BY <2>3, FrameSentTurn
  <2> QED BY <1>3, <2>1, <2>2, <2>3, IdleTurn, SelectTurn, SendsRepairTurn,
             SendsCopyTurn, SendsMediaTurn, ExtraSentTurn, EndsTurn DEF Pacer
<1> QED BY <1>1, <1>2, <1>3 DEF PacersNext

\* Before the first pacer.
LEMMA TurnInit == ASSUME PacersInit PROVE TurnInv
<1>1. TurnTypes
  BY DEF PacersInit, TurnTypes, PacerLives, Hands, PacketSteps, PacketKinds,
     Resting_,
         Aheads, NothingAhead
<1>2. ASSUME NEW p \in Pacers PROVE TurnOf(p)
  <2>1. hand[p].step = "selects" /\ hand[p].repairs = 0 /\ ahead[p] = NothingAhead
    BY DEF PacersInit, Resting_
  <2> QED BY <1>1, <2>1, TurnNumbers DEF TurnOf, InFlight
<1> QED BY <1>1, <1>2 DEF TurnInv

\* At most MaxConsecutive repairs and one copy go ahead of a packet of a frame that
\* waits, for any limits, pacers and budgets.
THEOREM TurnsKept == PacersSpec => []MediaKeepsItsTurn
<1>1. PacersInit => TurnInv
  BY TurnInit
<1>2. TurnInv /\ [PacersNext]_pacerVars => TurnInv'
  BY TurnStep, AllSame DEF pacerVars, queues
<1>3. TurnInv => MediaKeepsItsTurn
  BY DEF TurnInv, TurnOf, MediaKeepsItsTurn
<1> QED BY <1>1, <1>2, <1>3, PTL DEF PacersSpec

------------------------------------------------------------------------------
(***************************************************************************)
(* How many packets a queue has left.                                      *)
(***************************************************************************)
\* Every packet has a frame's place and a number.
LEMMA LeftMembers ==
  ASSUME NEW q \in Seq(QueuedFrames)
  PROVE  /\ \A x \in LeftOf(q) :
              x[1] \in 1..Len(q) /\ x[2] \in 1..q[x[1]].left /\ x = <<x[1], x[2]>>
         /\ \A i \in 1..Len(q) : \A k \in 1..q[i].left : <<i, k>> \in LeftOf(q)
<1>1. DOMAIN q = 1..Len(q)
  OBVIOUS
<1>2. ASSUME NEW x \in LeftOf(q)
      PROVE  x[1] \in 1..Len(q) /\ x[2] \in 1..q[x[1]].left /\ x = <<x[1], x[2]>>
  <2>1. PICK i \in 1..Len(q) : x \in {i} \X (1..q[i].left)
    BY <1>1 DEF LeftOf
  <2>2. x = <<x[1], x[2]>> /\ x[1] = i /\ x[2] \in 1..q[i].left
    BY <2>1
  <2> QED BY <2>2
<1>3. ASSUME NEW i \in 1..Len(q), NEW k \in 1..q[i].left PROVE <<i, k>> \in LeftOf(q)
  BY <1>1 DEF LeftOf
<1> QED BY <1>2, <1>3

\* The packets are finitely many.
LEMMA LeftFinite ==
  ASSUME NEW q \in Seq(QueuedFrames)
  PROVE  IsFiniteSet(LeftOf(q)) /\ Packets(q) \in Nat
<1> DEFINE S == 1..Len(q)
           part(i) == {i} \X (1..q[i].left)
           T == {part(i) : i \in S}
<1>1. ASSUME NEW i \in S PROVE IsFiniteSet(part(i))
  <2>1. q[i] \in QueuedFrames
    BY ElementOfSeq
  <2>2. q[i].left \in Int
    BY <2>1 DEF QueuedFrames
  <2> DEFINE m == q[i].left
  <2> HIDE DEF m
  <2>3. IsFiniteSet(1..m)
    <3>1. 1 \in Int /\ m \in Int
      BY <2>2 DEF m
    <3> QED BY <3>1, FS_Interval
  <2>5. IsFiniteSet({i})
    BY FS_Singleton
  <2>4. IsFiniteSet({i} \X (1..m))
    BY <2>3, <2>5, FS_Product
  <2> QED BY <2>4 DEF m
<1>2. IsFiniteSet(S)
  <2>1. Len(q) \in Int
    OBVIOUS
  <2> QED BY <2>1, FS_Interval
<1>3. \A t \in T : IsFiniteSet(t)
  BY <1>1
<1>4. LeftOf(q) = UNION T
  BY DEF LeftOf
<1>5. IsFiniteSet(T)
  <2> DEFINE f == [i \in S |-> part(i)]
  <2>1. f \in Surjection(S, T)
    BY DEF Surjection
  <2> HIDE DEF f, T, S
  <2> QED BY <1>2, <2>1, FS_Surjection
<1> HIDE DEF T
<1>6. IsFiniteSet(LeftOf(q))
  BY <1>3, <1>4, <1>5, FS_UNION
<1> QED BY <1>6, FS_CardinalityType DEF Packets

\* No frames have none.
LEMMA PacketsNone == Packets(<<>>) = 0
<1>1. LeftOf(<<>>) = {}
  BY DEF LeftOf
<1> QED BY <1>1, FS_EmptySet DEF Packets

\* One frame has its own.
LEMMA PacketsOne ==
  ASSUME NEW f \in QueuedFrames, f.left >= 0
  PROVE  Packets(<<f>>) = f.left
<1>1. LeftOf(<<f>>) = {1} \X (1..f.left)
  <2>1. DOMAIN <<f>> = {1} /\ <<f>>[1] = f
    OBVIOUS
  <2> QED BY <2>1 DEF LeftOf
<1>2. f.left \in Nat
  BY DEF QueuedFrames
<1>3. IsFiniteSet(1..f.left) /\ Cardinality(1..f.left) = f.left
  BY <1>2, FS_Interval
<1>4. IsFiniteSet({1}) /\ Cardinality({1}) = 1
  BY FS_Singleton
<1>5. Cardinality({1} \X (1..f.left)) = 1 * f.left
  BY <1>3, <1>4, FS_Product
<1>6. 1 * f.left = f.left
  BY <1>2
<1> QED BY <1>1, <1>5, <1>6 DEF Packets

\* A queue behind another moves its places, and no packet.
LEMMA PacketsJoin ==
  ASSUME NEW q \in Seq(QueuedFrames), NEW r \in Seq(QueuedFrames)
  PROVE  Packets(q \o r) = Packets(q) + Packets(r)
<1> DEFINE n == Len(q)
           s == q \o r
           C == {<<x[1] + n, x[2]>> : x \in LeftOf(r)}
           f == [x \in LeftOf(r) |-> <<x[1] + n, x[2]>>]
<1>1. /\ s \in Seq(QueuedFrames) /\ Len(s) = n + Len(r) /\ n \in Nat /\ Len(r) \in Nat
      /\ \A i \in 1..n : s[i] = q[i]
      /\ \A i \in 1..Len(r) : s[i + n] = r[i]
  BY ConcatProperties
<1> HIDE DEF s, n
<1>2. LeftOf(s) = LeftOf(q) \cup C
  <2>1. ASSUME NEW x \in LeftOf(s) PROVE x \in LeftOf(q) \cup C
    <3>1. x[1] \in 1..Len(s) /\ x[2] \in 1..s[x[1]].left /\ x = <<x[1], x[2]>>
      BY <1>1, LeftMembers
    <3>2. CASE x[1] <= n
      <4>1. x[1] \in 1..Len(q) /\ x[2] \in 1..q[x[1]].left
        BY <1>1, <3>1, <3>2 DEF n
      <4> QED BY <3>1, <4>1, LeftMembers
    <3>3. CASE x[1] > n
      <4> DEFINE y == <<x[1] - n, x[2]>>
      <4>1. y[1] \in 1..Len(r) /\ y[1] + n = x[1] /\ y[2] = x[2]
        BY <1>1, <3>1, <3>3
      <4>2. x[2] \in 1..r[y[1]].left
        BY <1>1, <3>1, <4>1
      <4>3. y \in LeftOf(r)
        BY <4>1, <4>2, LeftMembers
      <4>4. x = <<y[1] + n, y[2]>>
        BY <3>1, <4>1
      <4> QED BY <4>3, <4>4
    <3> QED BY <1>1, <3>1, <3>2, <3>3
  <2>2. ASSUME NEW x \in LeftOf(q) PROVE x \in LeftOf(s)
    <3>1. x[1] \in 1..Len(q) /\ x[2] \in 1..q[x[1]].left /\ x = <<x[1], x[2]>>
      BY LeftMembers
    <3>2. x[1] \in 1..Len(s) /\ x[2] \in 1..s[x[1]].left
      BY <1>1, <3>1 DEF n
    <3> QED BY <1>1, <3>1, <3>2, LeftMembers
  <2>3. ASSUME NEW x \in LeftOf(r) PROVE <<x[1] + n, x[2]>> \in LeftOf(s)
    <3>1. x[1] \in 1..Len(r) /\ x[2] \in 1..r[x[1]].left
      BY LeftMembers
    <3>2. x[1] + n \in 1..Len(s) /\ x[2] \in 1..s[x[1] + n].left
      BY <1>1, <3>1
    <3> QED BY <1>1, <3>2, LeftMembers
  <2> QED BY <2>1, <2>2, <2>3
<1>3. LeftOf(q) \cap C = {}
  <2> SUFFICES ASSUME NEW x \in LeftOf(q), x \in C PROVE FALSE
    OBVIOUS
  <2>1. x[1] \in 1..n
    BY LeftMembers DEF n
  <2>2. PICK y \in LeftOf(r) : x = <<y[1] + n, y[2]>>
    OBVIOUS
  <2>3. y[1] \in 1..Len(r)
    BY LeftMembers
  <2>4. x[1] = y[1] + n
    BY <2>2
  <2> QED BY <1>1, <2>1, <2>3, <2>4
<1>4. f \in Bijection(LeftOf(r), C)
  <2>1. f \in Surjection(LeftOf(r), C)
    BY DEF Surjection
  <2>2. ASSUME NEW x \in LeftOf(r), NEW y \in LeftOf(r), f[x] = f[y] PROVE x = y
    <3>1. x[1] \in 1..Len(r) /\ x = <<x[1], x[2]>>
      BY LeftMembers
    <3>2. y[1] \in 1..Len(r) /\ y = <<y[1], y[2]>>
      BY LeftMembers
    <3>3. x[1] + n = y[1] + n /\ x[2] = y[2]
      BY <2>2
    <3> QED BY <1>1, <3>1, <3>2, <3>3
  <2> QED BY <2>1, <2>2 DEF Bijection, Injection, Surjection, IsInjective
<1> HIDE DEF f, C
<1>5. IsFiniteSet(C) /\ Cardinality(C) = Packets(r)
  BY <1>4, LeftFinite, FS_Bijection DEF ExistsBijection, Packets
<1>6. Packets(s) = Packets(q) + Packets(r) - Cardinality({})
  BY <1>2, <1>3, <1>5, LeftFinite, FS_Union DEF Packets
<1> QED BY <1>6, FS_EmptySet, LeftFinite DEF s

\* The first frame's packets and the others'.
LEMMA PacketsFirst ==
  ASSUME NEW q \in Seq(QueuedFrames), q # <<>>, Head(q).left >= 0
  PROVE  Packets(q) = Head(q).left + Packets(Tail(q))
<1>1. Head(q) \in QueuedFrames /\ Tail(q) \in Seq(QueuedFrames) /\ q = <<Head(q)>> \o Tail(q)
  BY HeadTailProperties
<1>2. <<Head(q)>> \in Seq(QueuedFrames)
  BY <1>1
<1>3. Packets(<<Head(q)>> \o Tail(q)) = Packets(<<Head(q)>>) + Packets(Tail(q))
  BY <1>1, <1>2, PacketsJoin
<1> QED BY <1>1, <1>3, PacketsOne

\* A queue in two parts.
LEMMA PacketsSplit ==
  ASSUME NEW q \in Seq(QueuedFrames), NEW k \in 1..Len(q)
  PROVE  LET a == SubSeq(q, 1, k - 1)
             b == SubSeq(q, k, Len(q))
         IN /\ a \in Seq(QueuedFrames) /\ b \in Seq(QueuedFrames)
            /\ Packets(q) = Packets(a) + Packets(b)
            /\ Len(a) = k - 1 /\ Len(b) = Len(q) - k + 1
            /\ \A i \in 1..Len(b) : b[i] = q[i + k - 1]
<1> DEFINE a == SubSeq(q, 1, k - 1)
           b == SubSeq(q, k, Len(q))
<1>1. k \in Nat /\ Len(q) \in Nat /\ k >= 1 /\ k <= Len(q)
  OBVIOUS
<1>2. /\ a \in Seq(QueuedFrames) /\ Len(a) = k - 1
      /\ \A i \in 1..k - 1 : a[i] = q[i]
  <2>1. \A i \in 1..k - 1 : q[i] \in QueuedFrames
    BY <1>1, ElementOfSeq
  <2>2. IF 1 <= k - 1 THEN k - 1 - 1 + 1 = k - 1 ELSE k - 1 = 0
    BY <1>1
  <2> QED BY <1>1, <2>1, <2>2, SubSeqProperties
<1>3. /\ b \in Seq(QueuedFrames) /\ Len(b) = Len(q) - k + 1
      /\ \A i \in 1..Len(b) : b[i] = q[i + k - 1]
  <2>1. \A i \in k..Len(q) : q[i] \in QueuedFrames
    BY <1>1, ElementOfSeq
  <2> QED BY <1>1, <2>1, SubSeqProperties
<1>4. q = a \o b
  <2>1. 1 \in 1..Len(q) + 1 /\ k - 1 \in 1 - 1..Len(q) /\ Len(q) \in k - 1..Len(q)
    BY <1>1
  <2>2. SubSeq(q, 1, k - 1) \o SubSeq(q, (k - 1) + 1, Len(q)) = SubSeq(q, 1, Len(q))
    BY <2>1, ConcatAdjacentSubSeq
  <2>3. (k - 1) + 1 = k
    BY <1>1
  <2> QED BY <2>2, <2>3, SubSeqFull
<1> HIDE DEF a, b
<1>5. Packets(q) = Packets(a) + Packets(b)
  BY <1>2, <1>3, <1>4, PacketsJoin
<1> QED BY <1>2, <1>3, <1>5 DEF a, b

\* A packet of the first frame goes.
LEMMA PacketsNext ==
  ASSUME NEW q \in Seq(QueuedFrames), q # <<>>, q[1].left > 0,
         NEW r \in Seq(QueuedFrames), Len(r) = Len(q), r[1].left = q[1].left - 1,
         \A i \in 2..Len(q) : r[i] = q[i]
  PROVE  Packets(r) = Packets(q) - 1
<1>1. 1 \in 1..Len(q) /\ q[1] \in QueuedFrames /\ q[1].left \in Int
  <2>1. 1 \in 1..Len(q)
    BY EmptySeq
  <2>2. q[1] \in QueuedFrames
    BY <2>1, ElementOfSeq
  <2> QED BY <2>1, <2>2 DEF QueuedFrames
<1>2. LeftOf(r) = LeftOf(q) \ {<<1, q[1].left>>}
  <2>1. ASSUME NEW i \in 1..Len(q), NEW k
        PROVE  k \in 1..r[i].left <=> k \in 1..q[i].left /\ ~(i = 1 /\ k = q[1].left)
    BY <1>1
  <2>2. ASSUME NEW x \in LeftOf(r) PROVE x \in LeftOf(q) /\ x # <<1, q[1].left>>
    <3>1. x[1] \in 1..Len(q) /\ x[2] \in 1..r[x[1]].left /\ x = <<x[1], x[2]>>
      BY LeftMembers
    <3>2. x[2] \in 1..q[x[1]].left /\ ~(x[1] = 1 /\ x[2] = q[1].left)
      BY <2>1, <3>1
    <3> QED BY <3>1, <3>2, LeftMembers
  <2>3. ASSUME NEW x \in LeftOf(q), x # <<1, q[1].left>> PROVE x \in LeftOf(r)
    <3>1. x[1] \in 1..Len(q) /\ x[2] \in 1..q[x[1]].left /\ x = <<x[1], x[2]>>
      BY LeftMembers
    <3>2. x[2] \in 1..r[x[1]].left
      BY <2>1, <2>3, <3>1
    <3> QED BY <3>1, <3>2, LeftMembers
  <2> QED BY <2>2, <2>3
<1>3. <<1, q[1].left>> \in LeftOf(q)
  BY <1>1, LeftMembers
<1>4. Cardinality(LeftOf(q) \ {<<1, q[1].left>>}) = Cardinality(LeftOf(q)) - 1
  BY <1>3, LeftFinite, FS_RemoveElement
<1> QED BY <1>2, <1>4 DEF Packets

------------------------------------------------------------------------------
(***************************************************************************)
(* The bytes of a pacer (PacerQueues).                                     *)
(***************************************************************************)
ByteCounts == [all : Int, repairs : Int, copies : Int]
BytesTypes ==
  /\ repairs \in [Pacers -> Nat] /\ copies \in [Pacers -> Nat]
  /\ bytes \in [Pacers -> ByteCounts]
  /\ mutated \in [Pacers -> BOOLEAN]

Sends(p) == hand[p].step = "sends" /\ hand[p].kind = "media"
Unfinished(q) == \A i \in 1..Len(q) : q[i].left > 0 /\ q[i].left <= q[i].size

\* A frame in the queue has packets left; the one whose packet is being sent has
\* begun, and may have none.
FramesOf(p) ==
  IF Sends(p)
    THEN /\ media_[p] # <<>>
         /\ Head(media_[p]).left >= 0 /\ Begun(Head(media_[p]))
         /\ Unfinished(Tail(media_[p]))
    ELSE Unfinished(media_[p])

\* What the worker has selected is there until a discard says so.
ChoiceStands(p) ==
  hand[p].step \in {"asks", "waits", "granted"} /\ ~mutated[p] =>
    /\ hand[p].kind = "repair" => repairs[p] > 0
    /\ hand[p].kind = "media" => media_[p] # <<>>
    /\ hand[p].kind = "copy" => copies[p] > 0

CountedOf(p) ==
  /\ bytes[p].repairs = repairs[p] /\ bytes[p].copies = copies[p]
  /\ bytes[p].all = Packets(media_[p]) + repairs[p] + copies[p]
  /\ bytes[p].all <= PacerLimit

BytesOf(p) == CountedOf(p) /\ FramesOf(p) /\ ChoiceStands(p)
BytesInv == BytesTypes /\ \A p \in Pacers : BytesOf(p)

SameBytes(p) ==
  UNCHANGED <<bytes[p], repairs[p], copies[p], media_[p], hand[p], mutated[p]>>

\* Another pacer's step keeps what is known of this one.
LEMMA SameBytesKeeps ==
  ASSUME NEW p \in Pacers, BytesOf(p), SameBytes(p)
  PROVE  BytesOf(p)'
  BY DEF BytesOf, CountedOf, FramesOf, Sends, ChoiceStands, SameBytes

\* A step concerns one pacer.
LEMMA BytesStepOf ==
  ASSUME BytesInv, NEW p \in Pacers, BytesTypes', BytesOf(p)',
         \A q \in Pacers : q # p => SameBytes(q)
  PROVE  BytesInv'
  BY SameBytesKeeps DEF BytesInv

\* A step that changes none of this.
LEMMA AllBytesSame ==
  ASSUME BytesInv, UNCHANGED <<bytes, repairs, copies, media_, hand, mutated>>
  PROVE  BytesInv'
<1>1. BytesTypes'
  BY DEF BytesInv, BytesTypes
<1>2. \A p \in Pacers : SameBytes(p)
  BY DEF SameBytes
<1> QED BY <1>1, <1>2, SameBytesKeeps DEF BytesInv

\* What is counted are numbers.
LEMMA BytesNumbers ==
  ASSUME BytesInv, TurnTypes, NEW p \in Pacers
  PROVE  /\ repairs[p] \in Nat /\ copies[p] \in Nat
         /\ bytes[p] \in ByteCounts /\ bytes[p].all \in Int
         /\ bytes[p].repairs \in Int /\ bytes[p].copies \in Int
         /\ media_[p] \in Seq(QueuedFrames) /\ Packets(media_[p]) \in Nat
         /\ hand[p] \in Hands /\ mutated[p] \in BOOLEAN
         /\ PacerLimit \in Nat /\ BytesOf(p)
<1>1. media_[p] \in Seq(QueuedFrames)
  BY DEF TurnTypes
<1>2. PacerLimit \in Nat
  BY PacerAssumption
<1> QED BY <1>1, <1>2, LeftFinite DEF BytesInv, BytesTypes, ByteCounts, TurnTypes

\* Bytes are taken and given back for one pacer.
LEMMA CountsDo ==
  ASSUME BytesTypes, NEW p \in Pacers, NEW n \in Int,
         NEW which \in {"repairs", "copies"},
         \/ bytes' = Reserve(p, which, n) \/ bytes' = Forget(p, which, 0 - n)
  PROVE  /\ bytes' \in [Pacers -> ByteCounts]
         /\ \A q \in Pacers : q # p => bytes'[q] = bytes[q]
         /\ bytes'[p].all = bytes[p].all + n
         /\ bytes'[p].repairs = bytes[p].repairs + (IF which = "repairs" THEN n ELSE 0)
         /\ bytes'[p].copies = bytes[p].copies + (IF which = "copies" THEN n ELSE 0)
<1>1. bytes[p] \in ByteCounts
  BY DEF BytesTypes
<1>2. CASE which = "repairs"
  <2> DEFINE r == [all |-> bytes[p].all + n, repairs |-> bytes[p].repairs + n,
                   copies |-> bytes[p].copies]
  <2>1. r \in ByteCounts
    BY <1>1 DEF ByteCounts
  <2>2. bytes' = [bytes EXCEPT ![p] = r]
    BY <1>1, <1>2 DEF Reserve, Forget, BytesTypes, ByteCounts
  <2> QED BY <1>1, <1>2, <2>1, <2>2 DEF BytesTypes, ByteCounts
<1>3. CASE which = "copies"
  <2> DEFINE r == [all |-> bytes[p].all + n, repairs |-> bytes[p].repairs,
                   copies |-> bytes[p].copies + n]
  <2>1. r \in ByteCounts
    BY <1>1 DEF ByteCounts
  <2>2. bytes' = [bytes EXCEPT ![p] = r]
    BY <1>1, <1>3 DEF Reserve, Forget, BytesTypes, ByteCounts
  <2> QED BY <1>1, <1>3, <2>1, <2>2 DEF BytesTypes, ByteCounts
<1> QED BY <1>2, <1>3

\* The frames of a pacer whose worker sends none of their packets.
LEMMA FramesStay ==
  ASSUME NEW p \in Pacers, FramesOf(p), media_'[p] = media_[p], ~Sends(p), ~Sends(p)'
  PROVE  FramesOf(p)'
  BY DEF FramesOf

\* Frames behind other frames.
LEMMA UnfinishedJoin ==
  ASSUME NEW q \in Seq(QueuedFrames), NEW r \in Seq(QueuedFrames), Unfinished(q), Unfinished(r)
  PROVE  Unfinished(q \o r)
<1>1. /\ Len(q \o r) = Len(q) + Len(r) /\ Len(q) \in Nat /\ Len(r) \in Nat
      /\ \A i \in 1..Len(q) + Len(r) :
           (q \o r)[i] = IF i <= Len(q) THEN q[i] ELSE r[i - Len(q)]
  BY ConcatProperties
<1>2. ASSUME NEW i \in 1..Len(q \o r)
      PROVE  (q \o r)[i].left > 0 /\ (q \o r)[i].left <= (q \o r)[i].size
  <2>1. CASE i <= Len(q)
    <3>1. i \in 1..Len(q) /\ (q \o r)[i] = q[i]
      BY <1>1, <2>1
    <3> QED BY <3>1 DEF Unfinished
  <2>2. CASE i > Len(q)
    <3>1. i - Len(q) \in 1..Len(r) /\ (q \o r)[i] = r[i - Len(q)]
      BY <1>1, <2>2
    <3> QED BY <3>1 DEF Unfinished
  <2> QED BY <1>1, <2>1, <2>2
<1> QED BY <1>2 DEF Unfinished

\* A new frame waits behind the others, with all its packets.
LEMMA EnqueueFrameBytes ==
  ASSUME BytesInv, TurnTypes, NEW p \in Pacers, EnqueueFrame(p)
  PROVE  BytesInv'
<1>1. PICK n \in FrameSizes, key \in BOOLEAN :
        /\ n <= Room(p)
        /\ media_' = [media_ EXCEPT ![p] = Append(@, NewFrame(n, key))]
        /\ bytes' = [bytes EXCEPT ![p].all = @ + n]
  BY DEF EnqueueFrame
<1> DEFINE q == media_[p]
           f == NewFrame(n, key)
<1>2. n \in Nat /\ n > 0 /\ f \in QueuedFrames /\ f.left = n /\ f.size = n
  BY PacerAssumption DEF NewFrame, QueuedFrames
<1>3. /\ q \in Seq(QueuedFrames) /\ Packets(q) \in Nat /\ bytes[p] \in ByteCounts
      /\ bytes[p].all \in Int /\ PacerLimit \in Nat /\ BytesOf(p)
      /\ repairs[p] \in Nat /\ copies[p] \in Nat
  BY BytesNumbers
<1>4. UNCHANGED <<repairs, copies, hand, mutated>>
  BY DEF EnqueueFrame
<1> HIDE DEF f
<1>5. <<f>> \in Seq(QueuedFrames) /\ Unfinished(<<f>>) /\ Append(q, f) = q \o <<f>>
  <2>1. Append(q, f) = q \o <<f>>
    BY <1>2, <1>3, AppendIsConcat
  <2>2. <<f>> \in Seq(QueuedFrames) /\ Len(<<f>>) = 1 /\ <<f>>[1] = f
    BY <1>2
  <2>3. Unfinished(<<f>>)
    BY <1>2, <2>2 DEF Unfinished
  <2> QED BY <2>1, <2>2, <2>3
<1>6. /\ media_'[p] = q \o <<f>> /\ \A r \in Pacers : r # p => media_'[r] = media_[r]
  BY <1>1, <1>5 DEF f, TurnTypes
<1>7. /\ bytes'[p].all = bytes[p].all + n /\ bytes'[p].repairs = bytes[p].repairs
      /\ bytes'[p].copies = bytes[p].copies /\ bytes' \in [Pacers -> ByteCounts]
      /\ \A r \in Pacers : r # p => bytes'[r] = bytes[r]
  <2> DEFINE b == [bytes[p] EXCEPT !.all = bytes[p].all + n]
  <2>1. /\ b \in ByteCounts /\ b.all = bytes[p].all + n
        /\ b.repairs = bytes[p].repairs /\ b.copies = bytes[p].copies
    BY <1>2, <1>3 DEF ByteCounts
  <2>2. bytes' = [bytes EXCEPT ![p] = b]
    BY <1>1
  <2> HIDE DEF b
  <2> QED BY <2>1, <2>2 DEF BytesInv, BytesTypes
<1>8. Packets(q \o <<f>>) = Packets(q) + n
  <2>1. Packets(q \o <<f>>) = Packets(q) + Packets(<<f>>)
    BY <1>3, <1>5, PacketsJoin
  <2>2. Packets(<<f>>) = n
    BY <1>2, PacketsOne
  <2> QED BY <2>1, <2>2
<1>9. CountedOf(p)'
  <2>1. n <= PacerLimit - bytes[p].all
    BY <1>1 DEF Room
  <2> QED BY <1>2, <1>3, <1>4, <1>6, <1>7, <1>8, <2>1 DEF BytesOf, CountedOf
<1>10. FramesOf(p)'
  <2>1. CASE Sends(p)
    <3>1. q # <<>> /\ Head(q).left >= 0 /\ Begun(Head(q)) /\ Unfinished(Tail(q))
      BY <1>3, <2>1 DEF BytesOf, FramesOf
    <3>2. /\ Tail(q) \in Seq(QueuedFrames) /\ q \o <<f>> # <<>>
          /\ Head(q \o <<f>>) = Head(q) /\ Tail(q \o <<f>>) = Tail(q) \o <<f>>
      <4>1. Tail(q) \in Seq(QueuedFrames) /\ Append(q, f) # <<>>
        BY <1>2, <1>3, <3>1, HeadTailProperties, AppendProperties
      <4>2. Head(Append(q, f)) = Head(q) /\ Tail(Append(q, f)) = Append(Tail(q), f)
        BY <1>3, <3>1, HeadTailAppend
      <4>3. Append(Tail(q), f) = Tail(q) \o <<f>>
        BY <1>2, <4>1, AppendIsConcat
      <4> QED BY <1>5, <4>1, <4>2, <4>3
    <3>3. Unfinished(Tail(q) \o <<f>>)
      BY <1>5, <3>1, <3>2, UnfinishedJoin
    <3> QED BY <1>4, <1>6, <2>1, <3>1, <3>2, <3>3 DEF FramesOf, Sends
  <2>2. CASE ~Sends(p)
    BY <1>3, <1>4, <1>5, <1>6, <2>2, UnfinishedJoin DEF BytesOf, FramesOf, Sends
  <2> QED BY <2>1, <2>2
<1>11. media_'[p] # <<>>
  BY <1>2, <1>3, <1>6
<1>12. ChoiceStands(p)'
  BY <1>3, <1>4, <1>11 DEF BytesOf, ChoiceStands
<1>13. BytesTypes'
  BY <1>4, <1>7 DEF BytesInv, BytesTypes
<1>14. \A r \in Pacers : r # p => SameBytes(r)
  BY <1>4, <1>6, <1>7 DEF SameBytes
<1> QED BY <1>9, <1>10, <1>12, <1>13, <1>14, BytesStepOf DEF BytesOf

\* A repair is queued while there is room.
LEMMA EnqueueRepairBytes ==
  ASSUME BytesInv, TurnTypes, NEW p \in Pacers, EnqueueRepair(p)
  PROVE  BytesInv'
<1>1. /\ repairs' = [repairs EXCEPT ![p] = @ + 1] /\ bytes' = Reserve(p, "repairs", 1)
      /\ UNCHANGED <<media_, copies, mutated, hand>> /\ PacerLimit - bytes[p].all > 0
  BY DEF EnqueueRepair, Room
<1>2. /\ repairs[p] \in Nat /\ copies[p] \in Nat /\ bytes[p].all \in Int
      /\ Packets(media_[p]) \in Nat /\ PacerLimit \in Nat /\ BytesOf(p)
  BY BytesNumbers
<1>3. /\ repairs' \in [Pacers -> Nat] /\ repairs'[p] = repairs[p] + 1
      /\ \A r \in Pacers : r # p => repairs'[r] = repairs[r]
  BY <1>1, <1>2 DEF BytesInv, BytesTypes
<1>4. /\ bytes' \in [Pacers -> ByteCounts]
      /\ \A q \in Pacers : q # p => bytes'[q] = bytes[q]
      /\ bytes'[p].all = bytes[p].all + 1
      /\ bytes'[p].repairs = bytes[p].repairs + 1
      /\ bytes'[p].copies = bytes[p].copies + 0
  BY <1>1, CountsDo DEF BytesInv
<1>5. CountedOf(p)'
  BY <1>1, <1>2, <1>3, <1>4 DEF BytesOf, CountedOf
<1>6. FramesOf(p)'
  BY <1>1, <1>2 DEF BytesOf, FramesOf, Sends
<1>7. ChoiceStands(p)'
  BY <1>1, <1>2, <1>3 DEF BytesOf, ChoiceStands
<1>8. BytesTypes' /\ \A r \in Pacers : r # p => SameBytes(r)
  BY <1>1, <1>3, <1>4 DEF BytesInv, BytesTypes, SameBytes
<1> QED BY <1>5, <1>6, <1>7, <1>8, BytesStepOf DEF BytesOf

\* A repair, or a copy, is gone from its queue, and its bytes are given back.
LEMMA OneLess ==
  ASSUME BytesInv, TurnTypes, NEW p \in Pacers, UNCHANGED <<media_, mutated>>,
         \/ /\ repairs[p] > 0 /\ bytes' = Forget(p, "repairs", 1)
            /\ repairs' = [repairs EXCEPT ![p] = @ - 1] /\ copies' = copies
         \/ /\ copies[p] > 0 /\ bytes' = Forget(p, "copies", 1)
            /\ copies' = [copies EXCEPT ![p] = @ - 1] /\ repairs' = repairs
  PROVE  /\ BytesTypes' /\ CountedOf(p)'
         /\ \A q \in Pacers : q # p =>
              UNCHANGED <<bytes[q], repairs[q], copies[q], media_[q], mutated[q]>>
<1>1. /\ repairs[p] \in Nat /\ copies[p] \in Nat /\ bytes[p].all \in Int
      /\ bytes[p].repairs \in Int /\ bytes[p].copies \in Int
      /\ Packets(media_[p]) \in Nat /\ PacerLimit \in Nat /\ CountedOf(p)
  BY BytesNumbers DEF BytesOf
<1>2. CASE /\ repairs[p] > 0 /\ bytes' = Forget(p, "repairs", 1)
           /\ repairs' = [repairs EXCEPT ![p] = @ - 1] /\ copies' = copies
  <2>1. /\ repairs' \in [Pacers -> Nat] /\ repairs'[p] = repairs[p] - 1
        /\ \A r \in Pacers : r # p => repairs'[r] = repairs[r]
    BY <1>1, <1>2 DEF BytesInv, BytesTypes
  <2>2. bytes' = Forget(p, "repairs", 0 - (0 - 1))
    BY <1>2
  <2>3. /\ bytes' \in [Pacers -> ByteCounts]
        /\ \A q \in Pacers : q # p => bytes'[q] = bytes[q]
        /\ bytes'[p].all = bytes[p].all + (0 - 1)
        /\ bytes'[p].repairs = bytes[p].repairs + (0 - 1)
        /\ bytes'[p].copies = bytes[p].copies + 0
    BY <2>2, CountsDo DEF BytesInv
  <2>4. CountedOf(p)'
    BY <1>1, <1>2, <2>1, <2>3 DEF CountedOf
  <2> QED BY <1>2, <2>1, <2>3, <2>4 DEF BytesInv, BytesTypes
<1>3. CASE /\ copies[p] > 0 /\ bytes' = Forget(p, "copies", 1)
           /\ copies' = [copies EXCEPT ![p] = @ - 1] /\ repairs' = repairs
  <2>1. /\ copies' \in [Pacers -> Nat] /\ copies'[p] = copies[p] - 1
        /\ \A r \in Pacers : r # p => copies'[r] = copies[r]
    BY <1>1, <1>3 DEF BytesInv, BytesTypes
  <2>2. bytes' = Forget(p, "copies", 0 - (0 - 1))
    BY <1>3
  <2>3. /\ bytes' \in [Pacers -> ByteCounts]
        /\ \A q \in Pacers : q # p => bytes'[q] = bytes[q]
        /\ bytes'[p].all = bytes[p].all + (0 - 1)
        /\ bytes'[p].repairs = bytes[p].repairs + 0
        /\ bytes'[p].copies = bytes[p].copies + (0 - 1)
    BY <2>2, CountsDo DEF BytesInv
  <2>4. CountedOf(p)'
    BY <1>1, <1>3, <2>1, <2>3 DEF CountedOf
  <2> QED BY <1>3, <2>1, <2>3, <2>4 DEF BytesInv, BytesTypes
<1> QED BY <1>2, <1>3

\* A discard keeps the frame that has begun, and drops the others.
LEMMA KeptAndDropped ==
  ASSUME NEW q \in Seq(QueuedFrames)
  PROVE  /\ Kept(q) \in Seq(QueuedFrames) /\ Dropped(q) \in Seq(QueuedFrames)
         /\ q = Kept(q) \o Dropped(q)
         /\ Packets(q) = Packets(Kept(q)) + Packets(Dropped(q))
         /\ Unfinished(q) => Unfinished(Kept(q)) /\ Unfinished(Dropped(q))
<1>1. Kept(q) \in Seq(QueuedFrames) /\ Dropped(q) \in Seq(QueuedFrames)
  BY KeptType
<1>2. q = Kept(q) \o Dropped(q)
  <2>1. CASE q # <<>> /\ Begun(Head(q))
    <3>1. q = <<Head(q)>> \o Tail(q)
      BY <2>1
    <3> QED BY <2>1, <3>1 DEF Kept, Dropped
  <2>2. CASE ~(q # <<>> /\ Begun(Head(q)))
    <3>1. <<>> \o q = q
      BY ConcatEmptySeq
    <3> QED BY <2>2, <3>1 DEF Kept, Dropped
  <2> QED BY <2>1, <2>2
<1>3. Packets(q) = Packets(Kept(q)) + Packets(Dropped(q))
  BY <1>1, <1>2, PacketsJoin
<1>4. ASSUME Unfinished(q) PROVE Unfinished(Kept(q)) /\ Unfinished(Dropped(q))
  <2> DEFINE a == Kept(q)
             b == Dropped(q)
  <2>1. /\ Len(q) = Len(a) + Len(b) /\ Len(a) \in Nat /\ Len(b) \in Nat
        /\ \A i \in 1..Len(a) + Len(b) : q[i] = IF i <= Len(a) THEN a[i] ELSE b[i - Len(a)]
    <3> HIDE DEF a, b
    <3>1. /\ Len(a \o b) = Len(a) + Len(b) /\ Len(a) \in Nat /\ Len(b) \in Nat
          /\ \A i \in 1..Len(a) + Len(b) :
               (a \o b)[i] = IF i <= Len(a) THEN a[i] ELSE b[i - Len(a)]
      BY <1>1, ConcatProperties DEF a, b
    <3> QED BY <1>2, <3>1 DEF a, b
  <2> HIDE DEF a, b
  <2>2. ASSUME NEW i \in 1..Len(a) PROVE a[i].left > 0 /\ a[i].left <= a[i].size
    <3>1. i \in 1..Len(q) /\ q[i] = a[i]
      BY <2>1
    <3> QED BY <1>4, <3>1 DEF Unfinished
  <2>3. ASSUME NEW i \in 1..Len(b) PROVE b[i].left > 0 /\ b[i].left <= b[i].size
    <3>1. i + Len(a) \in 1..Len(q) /\ q[i + Len(a)] = b[i]
      BY <2>1
    <3> QED BY <1>4, <3>1 DEF Unfinished
  <2> QED BY <2>2, <2>3 DEF Unfinished, a, b
<1> QED BY <1>1, <1>2, <1>3, <1>4

\* Of what is dropped, a keyframe and what follows it are live again.
LEMMA DeltasAndLive ==
  ASSUME NEW rest \in Seq(QueuedFrames)
  PROVE  LET key == SelectInSeq(rest, LAMBDA f : f.key)
             deltas == IF key = 0 THEN rest ELSE SubSeq(rest, 1, key - 1)
             live == IF key = 0 THEN <<>> ELSE SubSeq(rest, key, Len(rest))
         IN /\ deltas \in Seq(QueuedFrames) /\ live \in Seq(QueuedFrames)
            /\ Packets(rest) = Packets(deltas) + Packets(live)
            /\ Unfinished(rest) => Unfinished(live)
            /\ deltas = <<>> => live = rest
<1> DEFINE key == SelectInSeq(rest, LAMBDA f : f.key)
           deltas == IF key = 0 THEN rest ELSE SubSeq(rest, 1, key - 1)
           live == IF key = 0 THEN <<>> ELSE SubSeq(rest, key, Len(rest))
<1>1. key \in 0..Len(rest) /\ Len(rest) \in Nat
  BY SelectedIndex
<1> HIDE DEF key
<1>2. CASE key = 0
  <2>1. deltas = rest /\ live = <<>> /\ live \in Seq(QueuedFrames)
    BY <1>2
  <2>2. Packets(rest) \in Nat /\ Packets(<<>>) = 0
    BY LeftFinite, PacketsNone
  <2>3. Unfinished(<<>>)
    BY DEF Unfinished
  <2>4. Packets(rest) = Packets(deltas) + Packets(live)
    <3> HIDE DEF deltas, live
    <3> QED BY <2>1, <2>2
  <2> QED BY <2>1, <2>3, <2>4 DEF key
<1>3. CASE key # 0
  <2>1. key \in 1..Len(rest)
    BY <1>1, <1>3
  <2> DEFINE a == SubSeq(rest, 1, key - 1)
             b == SubSeq(rest, key, Len(rest))
  <2>2. /\ a \in Seq(QueuedFrames) /\ b \in Seq(QueuedFrames)
        /\ Packets(rest) = Packets(a) + Packets(b)
        /\ Len(a) = key - 1 /\ Len(b) = Len(rest) - key + 1
        /\ \A i \in 1..Len(b) : b[i] = rest[i + key - 1]
    BY <2>1, PacketsSplit
  <2>3. deltas = a /\ live = b
    BY <1>3
  <2>4. ASSUME deltas = <<>> PROVE live = rest
    <3>1. key = 1
      BY <1>1, <2>2, <2>3, <2>4
    <3> QED BY <2>3, <3>1, SubSeqFull
  <2> HIDE DEF a, b
  <2>5. ASSUME Unfinished(rest) PROVE Unfinished(b)
    <3>1. ASSUME NEW i \in 1..Len(b) PROVE b[i].left > 0 /\ b[i].left <= b[i].size
      <4>1. i + key - 1 \in 1..Len(rest)
        BY <2>1, <2>2
      <4>2. b[i] = rest[i + key - 1]
        BY <2>2
      <4> QED BY <2>5, <4>1, <4>2 DEF Unfinished
    <3> QED BY <3>1 DEF Unfinished
  <2> QED BY <2>2, <2>3, <2>4, <2>5 DEF key
<1> QED BY <1>2, <1>3

\* What stays of the queue in a discard: the frame that has begun, and of the
\* others those that are live.
LEMMA DiscardLeaves ==
  ASSUME BytesInv, TurnTypes, NEW p \in Pacers, UNCHANGED hand,
         NEW live \in Seq(QueuedFrames), NEW deltas \in Seq(QueuedFrames),
         Packets(Dropped(media_[p])) = Packets(deltas) + Packets(live),
         Unfinished(Dropped(media_[p])) => Unfinished(live),
         media_'[p] = Kept(media_[p]) \o live
  PROVE  /\ FramesOf(p)'
         /\ Packets(media_'[p]) = Packets(media_[p]) - Packets(deltas)
         /\ Packets(deltas) \in Nat
<1> DEFINE q == media_[p]
<1>1. q \in Seq(QueuedFrames) /\ BytesOf(p) /\ Packets(deltas) \in Nat /\ Packets(live) \in Nat
  BY BytesNumbers, LeftFinite
<1>2. /\ Kept(q) \in Seq(QueuedFrames) /\ Dropped(q) \in Seq(QueuedFrames)
      /\ Packets(q) = Packets(Kept(q)) + Packets(Dropped(q))
      /\ Packets(Kept(q)) \in Nat /\ Packets(Dropped(q)) \in Nat
  BY <1>1, KeptAndDropped, LeftFinite
<1>3. Packets(Kept(q) \o live) = Packets(Kept(q)) + Packets(live)
  BY <1>2, PacketsJoin
<1>4. Packets(media_'[p]) = Packets(q) - Packets(deltas)
  BY <1>1, <1>2, <1>3
<1>5. CASE Sends(p)
  <2>1. q # <<>> /\ Head(q).left >= 0 /\ Begun(Head(q)) /\ Unfinished(Tail(q))
    BY <1>1, <1>5 DEF BytesOf, FramesOf
  <2>2. Kept(q) = <<Head(q)>> /\ Dropped(q) = Tail(q)
    BY <2>1 DEF Kept, Dropped
  <2> DEFINE m == <<Head(q)>> \o live
  <2>3. m # <<>> /\ Head(m) = Head(q) /\ Tail(m) = live
    <3>1. Head(q) \in QueuedFrames
      BY <1>1, <2>1, HeadTailProperties
    <3> HIDE DEF q
    <3> QED BY <3>1
  <2>4. Unfinished(live)
    BY <2>1, <2>2
  <2>5. media_'[p] = m
    BY <2>2
  <2> HIDE DEF m
  <2>6. FramesOf(p)'
    BY <1>5, <2>1, <2>3, <2>4, <2>5 DEF FramesOf, Sends
  <2> QED BY <1>1, <1>4, <2>6
<1>6. CASE ~Sends(p)
  <2>1. Unfinished(q)
    BY <1>1, <1>6 DEF BytesOf, FramesOf
  <2>2. Unfinished(Kept(q)) /\ Unfinished(live)
    BY <1>1, <2>1, KeptAndDropped
  <2>3. Unfinished(Kept(q) \o live)
    BY <1>2, <2>2, UnfinishedJoin
  <2>4. FramesOf(p)'
    BY <1>6, <2>3 DEF FramesOf, Sends
  <2> QED BY <1>1, <1>4, <2>4
<1> QED BY <1>5, <1>6

\* Deltas are discarded: the choice falls if the frame chosen is among them.
LEMMA DiscardDeltasBytes ==
  ASSUME BytesInv, TurnTypes, NEW p \in Pacers, DiscardDeltas(p)
  PROVE  BytesInv'
<1> DEFINE q == media_[p]
           rest == Dropped(q)
           key == SelectInSeq(rest, LAMBDA f : f.key)
           deltas == IF key = 0 THEN rest ELSE SubSeq(rest, 1, key - 1)
           live == IF key = 0 THEN <<>> ELSE SubSeq(rest, key, Len(rest))
<1>1. /\ media_' = [media_ EXCEPT ![p] = Kept(q) \o live]
      /\ bytes' = [bytes EXCEPT ![p].all = @ - Packets(deltas)]
      /\ mutated' = [mutated EXCEPT ![p] = @ \/ deltas # <<>>]
      /\ UNCHANGED <<repairs, copies, hand>>
  BY DEF DiscardDeltas
<1>2. /\ q \in Seq(QueuedFrames) /\ BytesOf(p) /\ bytes[p] \in ByteCounts
      /\ bytes[p].all \in Int /\ repairs[p] \in Nat /\ copies[p] \in Nat
      /\ PacerLimit \in Nat /\ Packets(q) \in Nat /\ mutated[p] \in BOOLEAN
  BY BytesNumbers
<1>3. Kept(q) \in Seq(QueuedFrames) /\ rest \in Seq(QueuedFrames) /\ q = Kept(q) \o rest
  BY <1>2, KeptAndDropped
<1> HIDE DEF q, rest
<1>4. /\ deltas \in Seq(QueuedFrames) /\ live \in Seq(QueuedFrames)
      /\ Packets(rest) = Packets(deltas) + Packets(live)
      /\ Unfinished(rest) => Unfinished(live)
      /\ deltas = <<>> => live = rest
  BY <1>3, DeltasAndLive
<1> HIDE DEF key, deltas, live
<1>5. /\ media_'[p] = Kept(q) \o live
      /\ \A r \in Pacers : r # p => media_'[r] = media_[r]
  BY <1>1 DEF TurnTypes
<1>6. /\ FramesOf(p)' /\ Packets(media_'[p]) = Packets(q) - Packets(deltas)
      /\ Packets(deltas) \in Nat
  BY <1>1, <1>4, <1>5, DiscardLeaves DEF q, rest
<1>7. /\ bytes' \in [Pacers -> ByteCounts] /\ bytes'[p].all = bytes[p].all - Packets(deltas)
      /\ bytes'[p].repairs = bytes[p].repairs /\ bytes'[p].copies = bytes[p].copies
      /\ \A r \in Pacers : r # p => bytes'[r] = bytes[r]
  <2> DEFINE b == [bytes[p] EXCEPT !.all = bytes[p].all - Packets(deltas)]
  <2>1. /\ b \in ByteCounts /\ b.all = bytes[p].all - Packets(deltas)
        /\ b.repairs = bytes[p].repairs /\ b.copies = bytes[p].copies
    BY <1>2, <1>6 DEF ByteCounts
  <2>2. bytes' = [bytes EXCEPT ![p] = b]
    BY <1>1
  <2> HIDE DEF b
  <2> QED BY <2>1, <2>2 DEF BytesInv, BytesTypes
<1>8. /\ mutated' \in [Pacers -> BOOLEAN]
      /\ mutated'[p] = (mutated[p] \/ deltas # <<>>)
      /\ \A r \in Pacers : r # p => mutated'[r] = mutated[r]
  BY <1>1, <1>2 DEF BytesInv, BytesTypes
<1>9. CountedOf(p)'
  BY <1>1, <1>2, <1>6, <1>7 DEF BytesOf, CountedOf, q
<1>10. ChoiceStands(p)'
  <2>1. ~mutated'[p] => ~mutated[p] /\ media_'[p] = q
    BY <1>3, <1>4, <1>5, <1>8
  <2>2. ChoiceStands(p)
    BY <1>2 DEF BytesOf
  <2> QED BY <1>1, <2>1, <2>2 DEF ChoiceStands, q
<1>11. BytesTypes'
  BY <1>1, <1>7, <1>8 DEF BytesInv, BytesTypes
<1>12. \A r \in Pacers : r # p => SameBytes(r)
  BY <1>1, <1>5, <1>7, <1>8 DEF SameBytes
<1> QED BY <1>6, <1>9, <1>10, <1>11, <1>12, BytesStepOf DEF BytesOf

\* All that waits is discarded, copies too.
LEMMA DiscardMediaBytes ==
  ASSUME BytesInv, TurnTypes, NEW p \in Pacers, DiscardMedia(p)
  PROVE  BytesInv'
<1> DEFINE q == media_[p]
           rest == Dropped(q)
<1>1. /\ media_' = [media_ EXCEPT ![p] = Kept(q)]
      /\ copies' = [copies EXCEPT ![p] = 0]
      /\ bytes' = [bytes EXCEPT ![p].all = @ - Packets(rest) - copies[p], ![p].copies = 0]
      /\ mutated' = [mutated EXCEPT ![p] = @ \/ rest # <<>> \/ copies[p] # 0]
      /\ UNCHANGED <<repairs, hand>>
  BY DEF DiscardMedia
<1>2. /\ q \in Seq(QueuedFrames) /\ BytesOf(p) /\ bytes[p] \in ByteCounts
      /\ bytes[p].all \in Int /\ repairs[p] \in Nat /\ copies[p] \in Nat
      /\ PacerLimit \in Nat /\ Packets(q) \in Nat /\ mutated[p] \in BOOLEAN
  BY BytesNumbers
<1>3. /\ Kept(q) \in Seq(QueuedFrames) /\ rest \in Seq(QueuedFrames) /\ q = Kept(q) \o rest
      /\ Kept(q) \o <<>> = Kept(q) /\ Packets(rest) \in Nat
  BY <1>2, KeptAndDropped, ConcatEmptySeq, LeftFinite
<1> HIDE DEF q, rest
<1>4. /\ <<>> \in Seq(QueuedFrames) /\ Packets(rest) = Packets(rest) + Packets(<<>>)
      /\ Unfinished(<<>>)
  BY <1>3, PacketsNone DEF Unfinished
<1>5. /\ media_'[p] = Kept(q) /\ \A r \in Pacers : r # p => media_'[r] = media_[r]
  BY <1>1 DEF TurnTypes
<1>6. FramesOf(p)' /\ Packets(media_'[p]) = Packets(q) - Packets(rest)
  BY <1>1, <1>3, <1>4, <1>5, DiscardLeaves DEF q, rest
<1>7. /\ bytes' \in [Pacers -> ByteCounts]
      /\ bytes'[p].all = bytes[p].all - Packets(rest) - copies[p]
      /\ bytes'[p].repairs = bytes[p].repairs /\ bytes'[p].copies = 0
      /\ \A r \in Pacers : r # p => bytes'[r] = bytes[r]
  <2> DEFINE b == [all |-> bytes[p].all - Packets(rest) - copies[p],
                   repairs |-> bytes[p].repairs, copies |-> 0]
  <2>1. /\ b \in ByteCounts /\ b.all = bytes[p].all - Packets(rest) - copies[p]
        /\ b.repairs = bytes[p].repairs /\ b.copies = 0
    BY <1>2, <1>3 DEF ByteCounts
  <2>2. bytes' = [bytes EXCEPT ![p] = b]
    <3> DEFINE x == bytes[p].all - Packets(rest) - copies[p]
    <3>1. x \in Int
      BY <1>2, <1>3
    <3>2. bytes' = [bytes EXCEPT ![p].all = x, ![p].copies = 0]
      BY <1>1
    <3> HIDE DEF x
    <3>3. bytes' = [bytes EXCEPT ![p] = [[bytes[p] EXCEPT !.all = x] EXCEPT !.copies = 0]]
      BY <3>2, <1>2 DEF BytesInv, BytesTypes
    <3>4. [[bytes[p] EXCEPT !.all = x] EXCEPT !.copies = 0]
            = [all |-> x, repairs |-> bytes[p].repairs, copies |-> 0]
      <4>1. bytes[p] = [all |-> bytes[p].all, repairs |-> bytes[p].repairs,
                        copies |-> bytes[p].copies]
        BY <1>2 DEF ByteCounts
      <4> DEFINE c == [all |-> x, repairs |-> bytes[p].repairs, copies |-> bytes[p].copies]
      <4>2. [bytes[p] EXCEPT !.all = x] = c
        BY <4>1
      <4>3. [c EXCEPT !.copies = 0] = [all |-> x, repairs |-> bytes[p].repairs, copies |-> 0]
        OBVIOUS
      <4> HIDE DEF c
      <4> QED BY <4>2, <4>3
    <3> QED BY <3>3, <3>4 DEF x
  <2> HIDE DEF b
  <2> QED BY <2>1, <2>2 DEF BytesInv, BytesTypes
<1>8. /\ mutated' \in [Pacers -> BOOLEAN]
      /\ mutated'[p] = (mutated[p] \/ rest # <<>> \/ copies[p] # 0)
      /\ \A r \in Pacers : r # p => mutated'[r] = mutated[r]
  BY <1>1, <1>2 DEF BytesInv, BytesTypes
<1>9. /\ copies' \in [Pacers -> Nat] /\ copies'[p] = 0
      /\ \A r \in Pacers : r # p => copies'[r] = copies[r]
  BY <1>1 DEF BytesInv, BytesTypes
<1>10. CountedOf(p)'
  BY <1>1, <1>2, <1>3, <1>6, <1>7, <1>9 DEF BytesOf, CountedOf, q
<1>11. ChoiceStands(p)'
  <2>1. ~mutated'[p] => ~mutated[p] /\ media_'[p] = q /\ copies'[p] = copies[p]
    BY <1>3, <1>5, <1>8, <1>9
  <2>2. ChoiceStands(p)
    BY <1>2 DEF BytesOf
  <2> QED BY <1>1, <2>1, <2>2 DEF ChoiceStands, q
<1>12. BytesTypes'
  BY <1>1, <1>7, <1>8, <1>9 DEF BytesInv, BytesTypes
<1>13. \A r \in Pacers : r # p => SameBytes(r)
  BY <1>1, <1>5, <1>7, <1>8, <1>9 DEF SameBytes
<1> QED BY <1>6, <1>10, <1>11, <1>12, <1>13, BytesStepOf DEF BytesOf

\* What expires is gone while the worker selects.
LEMMA ExpiresBytes ==
  ASSUME BytesInv, TurnTypes, NEW p \in Pacers, CopiesExpire(p) \/ RepairExpires(p)
  PROVE  BytesInv'
<1>1. UNCHANGED <<media_, mutated, hand>> /\ hand[p].step = "selects"
  BY DEF CopiesExpire, RepairExpires, Selects
<1>2. /\ BytesTypes' /\ CountedOf(p)'
      /\ \A q \in Pacers : q # p =>
           UNCHANGED <<bytes[q], repairs[q], copies[q], media_[q], mutated[q]>>
  BY <1>1, OneLess DEF CopiesExpire, RepairExpires
<1>3. FramesOf(p)' /\ ChoiceStands(p)'
  BY <1>1, BytesNumbers DEF BytesOf, FramesOf, Sends, ChoiceStands
<1> QED BY <1>1, <1>2, <1>3, BytesStepOf DEF BytesOf, SameBytes

\* A step of the worker that leaves the queues alone.
LEMMA HandBytes ==
  ASSUME BytesInv, TurnTypes, NEW p \in Pacers,
         UNCHANGED <<media_, repairs, copies, bytes>>, mutated' \in [Pacers -> BOOLEAN],
         \A q \in Pacers : q # p => hand'[q] = hand[q] /\ mutated'[q] = mutated[q],
         ~Sends(p), ~Sends(p)', ChoiceStands(p)'
  PROVE  BytesInv'
<1>1. CountedOf(p)' /\ FramesOf(p)'
  BY BytesNumbers DEF BytesOf, CountedOf, FramesOf
<1>2. BytesTypes' /\ \A q \in Pacers : q # p => SameBytes(q)
  BY DEF BytesInv, BytesTypes, SameBytes
<1> QED BY <1>1, <1>2, BytesStepOf DEF BytesOf

\* The worker selects what is there.
LEMMA SelectsBytes ==
  ASSUME BytesInv, TurnTypes, NEW p \in Pacers, SelectsPacket(p) \/ PacerIdles(p)
  PROVE  BytesInv'
<1>1. UNCHANGED <<media_, repairs, copies, bytes>> /\ hand[p].step = "selects"
  BY DEF SelectsPacket, PacerIdles, queues, Selects
<1>2. ~Sends(p)
  BY <1>1 DEF Sends
<1>3. CASE SelectsPacket(p)
  <2>1. PICK kind \in {"repair", "media", "copy"} :
          /\ Picked(p, kind)
          /\ kind = "repair" => repairs[p] > 0
          /\ kind = "media" => media_[p] # <<>>
          /\ kind = "copy" => copies[p] > 0
    BY <1>3 DEF SelectsPacket
  <2>2. /\ \A q \in Pacers : q # p => hand'[q] = hand[q]
        /\ hand'[p].step = "asks" /\ hand'[p].kind = kind
    BY <2>1, PickedDoes DEF PacketKinds
  <2>3. /\ mutated' \in [Pacers -> BOOLEAN]
        /\ \A q \in Pacers : q # p => mutated'[q] = mutated[q]
    BY <2>1 DEF Picked, BytesInv, BytesTypes
  <2>4. ~Sends(p)' /\ ChoiceStands(p)'
    BY <1>1, <2>1, <2>2 DEF Sends, ChoiceStands
  <2> QED BY <1>1, <1>2, <2>2, <2>3, <2>4, HandBytes
<1>4. CASE PacerIdles(p)
  <2>1. hand' = [hand EXCEPT ![p].repairs = 0] /\ mutated' = mutated
    BY <1>4 DEF PacerIdles
  <2>2. hand'[p].step = "selects" /\ \A q \in Pacers : q # p => hand'[q] = hand[q]
    BY <1>1, <2>1 DEF TurnTypes, Hands
  <2>3. ~Sends(p)' /\ ChoiceStands(p)'
    BY <2>2 DEF Sends, ChoiceStands
  <2> QED BY <1>1, <1>2, <2>1, <2>2, <2>3, HandBytes DEF BytesInv, BytesTypes
<1> QED BY <1>3, <1>4

\* It asks for the budget, is granted it, or gives up its place.
LEMMA BudgetBytes ==
  ASSUME BytesInv, TurnTypes, NEW p \in Pacers,
         AsksBudget(p) \/ Granted(p) \/ Cancelled(p)
  PROVE  BytesInv'
<1>1. /\ UNCHANGED <<media_, repairs, copies, bytes, mutated>>
      /\ hand[p].step \in {"asks", "waits"}
  BY DEF AsksBudget, Granted, Cancelled, queues
<1>2. PICK step \in {"waits", "granted", "selects"} : hand' = [hand EXCEPT ![p].step = step]
  BY DEF AsksBudget, Granted, Cancelled
<1>3. /\ \A q \in Pacers : q # p => hand'[q] = hand[q]
      /\ hand'[p].step = step /\ hand'[p].kind = hand[p].kind
  BY <1>2, HandStepDoes DEF PacketSteps
<1>4. ~Sends(p) /\ ~Sends(p)'
  BY <1>1, <1>3 DEF Sends
<1>5. ChoiceStands(p)'
  BY <1>1, <1>3, BytesNumbers DEF BytesOf, ChoiceStands
<1> QED BY <1>1, <1>3, <1>4, <1>5, HandBytes DEF BytesInv, BytesTypes

\* What it selected was discarded meanwhile, or a copy expired.
LEMMA ChoiceFellBytes ==
  ASSUME BytesInv, TurnTypes, NEW p \in Pacers, ChoiceFell(p)
  PROVE  BytesInv'
<1>1. /\ UNCHANGED <<media_, repairs, mutated>> /\ hand[p].step = "granted"
      /\ hand' = [hand EXCEPT ![p].step = "selects"]
  BY DEF ChoiceFell
<1>2. /\ \A q \in Pacers : q # p => hand'[q] = hand[q]
      /\ hand'[p].step = "selects"
  BY <1>1, HandStepDoes DEF PacketSteps
<1>3. ~Sends(p) /\ ~Sends(p)' /\ ChoiceStands(p)'
  BY <1>1, <1>2 DEF Sends, ChoiceStands
<1>4. CASE UNCHANGED <<copies, bytes>>
  BY <1>1, <1>2, <1>3, <1>4, HandBytes DEF BytesInv, BytesTypes
<1>5. CASE /\ alive[p] = "runs" /\ ~mutated[p]
           /\ copies' = [copies EXCEPT ![p] = @ - 1] /\ bytes' = Forget(p, "copies", 1)
  <2>1. hand[p].kind = "copy"
    BY <1>5 DEF ChoiceFell
  <2>2. copies[p] > 0
    BY <1>1, <1>5, <2>1, BytesNumbers DEF BytesOf, ChoiceStands
  <2>3. /\ BytesTypes' /\ CountedOf(p)'
        /\ \A q \in Pacers : q # p =>
             UNCHANGED <<bytes[q], repairs[q], copies[q], media_[q], mutated[q]>>
    BY <1>1, <1>5, <2>2, OneLess
  <2>4. FramesOf(p)'
    BY <1>1, <1>3, FramesStay, BytesNumbers DEF BytesOf
  <2> QED BY <1>2, <1>3, <2>3, <2>4, BytesStepOf DEF BytesOf, SameBytes
<1> QED BY <1>4, <1>5 DEF ChoiceFell

\* A repair or a copy leaves its queue for the transport.
LEMMA SendsExtraBytes ==
  ASSUME BytesInv, TurnTypes, NEW p \in Pacers, SendsRepair(p) \/ SendsCopy(p)
  PROVE  BytesInv'
<1>1. PICK n \in Nat, kind \in {"repair", "copy"} :
        /\ UNCHANGED <<media_, mutated>> /\ MaySend(p, kind) /\ HandGoes(p, n)
        /\ \/ /\ kind = "repair" /\ bytes' = Forget(p, "repairs", 1)
              /\ repairs' = [repairs EXCEPT ![p] = @ - 1] /\ copies' = copies
           \/ /\ kind = "copy" /\ bytes' = Forget(p, "copies", 1)
              /\ copies' = [copies EXCEPT ![p] = @ - 1] /\ repairs' = repairs
  <2>1. hand[p].repairs + 1 \in Nat
    BY TurnNumbers
  <2>2. CASE SendsRepair(p)
    BY <2>1, <2>2 DEF SendsRepair
  <2>3. CASE SendsCopy(p)
    BY <2>3 DEF SendsCopy
  <2> QED BY <2>2, <2>3
<1>2. hand[p].step = "granted" /\ hand[p].kind = kind /\ ~mutated[p]
  BY <1>1 DEF MaySend
<1>3. (kind = "repair" => repairs[p] > 0) /\ (kind = "copy" => copies[p] > 0)
  BY <1>2, BytesNumbers DEF BytesOf, ChoiceStands
<1>4. /\ BytesTypes' /\ CountedOf(p)'
      /\ \A q \in Pacers : q # p =>
           UNCHANGED <<bytes[q], repairs[q], copies[q], media_[q], mutated[q]>>
  BY <1>1, <1>3, OneLess
<1>5. /\ \A q \in Pacers : q # p => hand'[q] = hand[q]
      /\ hand'[p].step = "sends" /\ hand'[p].kind = kind
  BY <1>1, <1>2, HandGoesDoes
<1>6. ~Sends(p) /\ ~Sends(p)' /\ ChoiceStands(p)'
  BY <1>2, <1>5 DEF Sends, ChoiceStands
<1>7. FramesOf(p)'
  BY <1>1, <1>6, FramesStay, BytesNumbers DEF BytesOf
<1> QED BY <1>4, <1>5, <1>6, <1>7, BytesStepOf DEF BytesOf, SameBytes

\* A packet of the first frame leaves it for the transport.
LEMMA SendsMediaBytes ==
  ASSUME BytesInv, TurnTypes, TurnTypes', NEW p \in Pacers, SendsMedia(p)
  PROVE  BytesInv'
<1> DEFINE q == media_[p]
           f == [q[1] EXCEPT !.left = q[1].left - 1]
           r == [q EXCEPT ![1] = f]
<1>1. /\ UNCHANGED <<repairs, copies, mutated>> /\ hand[p].step = "granted"
      /\ hand[p].kind = "media" /\ ~mutated[p] /\ HandGoes(p, 0)
      /\ media_' = [media_ EXCEPT ![p] = r]
      /\ bytes' = [bytes EXCEPT ![p].all = @ - 1]
  BY DEF SendsMedia, MaySend
<1>2. /\ q \in Seq(QueuedFrames) /\ BytesOf(p) /\ bytes[p] \in ByteCounts
      /\ bytes[p].all \in Int /\ repairs[p] \in Nat /\ copies[p] \in Nat
      /\ PacerLimit \in Nat /\ Packets(q) \in Nat
  BY BytesNumbers
<1>3. q # <<>> /\ Unfinished(q) /\ ~Sends(p)
  BY <1>1, <1>2 DEF BytesOf, ChoiceStands, FramesOf, Sends
<1>4. 1 \in 1..Len(q) /\ q[1] \in QueuedFrames /\ q[1].left > 0 /\ q[1].left <= q[1].size
  <2>1. 1 \in 1..Len(q)
    BY <1>2, <1>3
  <2> QED BY <1>2, <1>3, <2>1, ElementOfSeq DEF Unfinished
<1>5. f \in QueuedFrames /\ f.left = q[1].left - 1 /\ f.size = q[1].size /\ f.left >= 0
  BY <1>4 DEF QueuedFrames
<1> HIDE DEF f
<1>6. r \in Seq(QueuedFrames) /\ Len(r) = Len(q) /\ r[1] = f /\ \A i \in 2..Len(q) : r[i] = q[i]
  <2> HIDE DEF q
  <2>1. r \in Seq(QueuedFrames)
    BY <1>2, <1>4, <1>5, ExceptSeq
  <2>2. DOMAIN q = 1..Len(q) /\ Len(q) \in Nat
    BY <1>2
  <2>3. DOMAIN r = DOMAIN q
    OBVIOUS
  <2>4. Len(r) = Len(q)
    BY <2>1, <2>2, <2>3
  <2>5. r[1] = f /\ \A i \in 2..Len(q) : r[i] = q[i]
    BY <1>4, <2>2
  <2> QED BY <2>1, <2>4, <2>5
<1> HIDE DEF r
<1>7. Packets(r) = Packets(q) - 1
  BY <1>2, <1>3, <1>4, <1>5, <1>6, PacketsNext
<1>8. media_'[p] = r /\ \A w \in Pacers : w # p => media_'[w] = media_[w]
  BY <1>1 DEF TurnTypes
<1>9. /\ r # <<>> /\ Head(r) = f /\ Tail(r) \in Seq(QueuedFrames)
      /\ Unfinished(Tail(r))
  <2>1. r # <<>> /\ Head(r) = f
    BY <1>2, <1>4, <1>6
  <2>2. /\ Tail(r) \in Seq(QueuedFrames) /\ Len(Tail(r)) = Len(r) - 1
        /\ \A i \in 1..Len(Tail(r)) : Tail(r)[i] = r[i + 1]
    BY <1>6, <2>1, HeadTailProperties
  <2>3. ASSUME NEW i \in 1..Len(Tail(r))
        PROVE  Tail(r)[i].left > 0 /\ Tail(r)[i].left <= Tail(r)[i].size
    <3>1. i + 1 \in 2..Len(q) /\ i + 1 \in 1..Len(q)
      BY <1>2, <1>6, <2>2
    <3>2. Tail(r)[i] = q[i + 1]
      BY <1>6, <2>2, <3>1
    <3> QED BY <1>3, <3>1, <3>2 DEF Unfinished
  <2> QED BY <2>1, <2>2, <2>3 DEF Unfinished
<1>10. /\ \A w \in Pacers : w # p => hand'[w] = hand[w]
       /\ hand'[p].step = "sends" /\ hand'[p].kind = "media"
  BY <1>1, HandGoesDoes
<1>11. FramesOf(p)'
  <2>1. Begun(f)
    BY <1>4, <1>5 DEF Begun, QueuedFrames
  <2> QED BY <1>5, <1>8, <1>9, <1>10, <2>1 DEF FramesOf, Sends
<1>12. /\ bytes' \in [Pacers -> ByteCounts] /\ bytes'[p].all = bytes[p].all - 1
       /\ bytes'[p].repairs = bytes[p].repairs /\ bytes'[p].copies = bytes[p].copies
       /\ \A w \in Pacers : w # p => bytes'[w] = bytes[w]
  <2> DEFINE b == [bytes[p] EXCEPT !.all = bytes[p].all - 1]
  <2>1. /\ b \in ByteCounts /\ b.all = bytes[p].all - 1
        /\ b.repairs = bytes[p].repairs /\ b.copies = bytes[p].copies
    BY <1>2 DEF ByteCounts
  <2>2. bytes' = [bytes EXCEPT ![p] = b]
    BY <1>1
  <2> HIDE DEF b
  <2> QED BY <2>1, <2>2 DEF BytesInv, BytesTypes
<1>13. CountedOf(p)'
  BY <1>1, <1>2, <1>7, <1>8, <1>12 DEF BytesOf, CountedOf
<1>14. ChoiceStands(p)'
  BY <1>10 DEF ChoiceStands
<1>15. BytesTypes' /\ \A w \in Pacers : w # p => SameBytes(w)
  BY <1>1, <1>8, <1>10, <1>12 DEF BytesInv, BytesTypes, SameBytes
<1> QED BY <1>11, <1>13, <1>14, <1>15, BytesStepOf DEF BytesOf

\* A repair or a copy is out.
LEMMA ExtraSentBytes ==
  ASSUME BytesInv, TurnTypes, NEW p \in Pacers, ExtraSent(p)
  PROVE  BytesInv'
<1>1. /\ UNCHANGED <<media_, repairs, copies, bytes, mutated>> /\ Back(p)
      /\ hand[p].kind \in {"repair", "copy"}
  BY DEF ExtraSent, queues
<1>2. /\ \A q \in Pacers : q # p => hand'[q] = hand[q]
      /\ hand'[p].step = "selects"
  BY <1>1, BackDoes
<1>3. ~Sends(p) /\ ~Sends(p)' /\ ChoiceStands(p)'
  BY <1>1, <1>2 DEF Sends, ChoiceStands
<1> QED BY <1>1, <1>2, <1>3, HandBytes DEF BytesInv, BytesTypes

\* A packet of the first frame is out; the last one ends the frame, and any one may
\* be queued as a copy.  When it failed, the rest of the frame is given back.
LEMMA MediaSentBytes ==
  ASSUME BytesInv, TurnTypes, NEW p \in Pacers, MediaSent(p)
  PROVE  BytesInv'
<1> DEFINE q == media_[p]
           r == IF Head(q).left = 0 THEN Tail(q) ELSE q
<1>1. /\ UNCHANGED <<repairs, mutated>> /\ Sends(p) /\ Back(p)
      /\ media_' = [media_ EXCEPT ![p] = r]
  BY DEF MediaSent, Sends
<1>2. /\ q \in Seq(QueuedFrames) /\ BytesOf(p) /\ bytes[p] \in ByteCounts
      /\ bytes[p].all \in Int /\ repairs[p] \in Nat /\ copies[p] \in Nat
      /\ PacerLimit \in Nat /\ Packets(q) \in Nat
  BY BytesNumbers
<1>3. q # <<>> /\ Head(q).left >= 0 /\ Begun(Head(q)) /\ Unfinished(Tail(q))
  BY <1>1, <1>2 DEF BytesOf, FramesOf
<1>4. /\ Head(q) \in QueuedFrames /\ Tail(q) \in Seq(QueuedFrames)
      /\ Packets(q) = Head(q).left + Packets(Tail(q)) /\ Packets(Tail(q)) \in Nat
      /\ Head(q).left \in Int /\ Head(q).size \in Int
      /\ q = <<Head(q)>> \o Tail(q) /\ <<Head(q)>> \in Seq(QueuedFrames)
  <2>1. Head(q) \in QueuedFrames /\ Tail(q) \in Seq(QueuedFrames)
    BY <1>2, <1>3, HeadTailProperties
  <2>2. Packets(q) = Head(q).left + Packets(Tail(q))
    BY <1>2, <1>3, PacketsFirst
  <2>3. Head(q).left \in Int /\ Head(q).size \in Int
    BY <2>1 DEF QueuedFrames
  <2>4. q = <<Head(q)>> \o Tail(q) /\ <<Head(q)>> \in Seq(QueuedFrames)
    BY <1>2, <1>3, <2>1
  <2> QED BY <2>1, <2>2, <2>3, <2>4, LeftFinite
<1>5. Packets(r) = Packets(q) /\ Unfinished(r)
  <2>1. CASE Head(q).left = 0
    BY <1>3, <1>4, <2>1
  <2>2. CASE Head(q).left # 0
    <3>1. Unfinished(<<Head(q)>>)
      BY <1>3, <1>4, <2>2 DEF Unfinished, Begun
    <3>2. Unfinished(<<Head(q)>> \o Tail(q))
      BY <1>3, <1>4, <3>1, UnfinishedJoin
    <3> QED BY <1>4, <2>2, <3>2
  <2> QED BY <2>1, <2>2
<1> HIDE DEF r
<1>6. media_'[p] = r /\ \A w \in Pacers : w # p => media_'[w] = media_[w]
  BY <1>1 DEF TurnTypes
<1>7. /\ \A w \in Pacers : w # p => hand'[w] = hand[w]
      /\ hand'[p].step = "selects"
  BY <1>1, BackDoes
<1>8. FramesOf(p)' /\ ChoiceStands(p)'
  BY <1>5, <1>6, <1>7 DEF FramesOf, Sends, ChoiceStands
<1>9. CASE UNCHANGED <<copies, bytes>>
  <2>1. CountedOf(p)'
    BY <1>1, <1>2, <1>5, <1>6, <1>9 DEF BytesOf, CountedOf
  <2>2. BytesTypes' /\ \A w \in Pacers : w # p => SameBytes(w)
    BY <1>1, <1>6, <1>7, <1>9 DEF BytesInv, BytesTypes, SameBytes
  <2> QED BY <1>8, <2>1, <2>2, BytesStepOf DEF BytesOf
<1>10. CASE /\ Room(p) > 0 /\ copies' = [copies EXCEPT ![p] = @ + 1]
            /\ bytes' = Reserve(p, "copies", 1)
  <2>1. /\ copies' \in [Pacers -> Nat] /\ copies'[p] = copies[p] + 1
        /\ \A w \in Pacers : w # p => copies'[w] = copies[w]
    BY <1>2, <1>10 DEF BytesInv, BytesTypes
  <2>2. /\ bytes' \in [Pacers -> ByteCounts]
        /\ \A w \in Pacers : w # p => bytes'[w] = bytes[w]
        /\ bytes'[p].all = bytes[p].all + 1
        /\ bytes'[p].repairs = bytes[p].repairs + 0
        /\ bytes'[p].copies = bytes[p].copies + 1
    BY <1>10, CountsDo DEF BytesInv
  <2>3. PacerLimit - bytes[p].all > 0
    BY <1>10 DEF Room
  <2>4. CountedOf(p)'
    BY <1>1, <1>2, <1>5, <1>6, <2>1, <2>2, <2>3 DEF BytesOf, CountedOf
  <2>5. BytesTypes' /\ \A w \in Pacers : w # p => SameBytes(w)
    BY <1>1, <1>6, <1>7, <2>1, <2>2 DEF BytesInv, BytesTypes, SameBytes
  <2> QED BY <1>8, <2>4, <2>5, BytesStepOf DEF BytesOf
<1> QED BY <1>9, <1>10 DEF MediaSent

\* The frame whose packet was refused is given up with what it had left.
LEMMA MediaFailedBytes ==
  ASSUME BytesInv, TurnTypes, NEW p \in Pacers, MediaFailed(p)
  PROVE  BytesInv'
<1> DEFINE q == media_[p]
           n == Head(q).left
<1>1. /\ UNCHANGED <<repairs, copies, mutated>> /\ Sends(p) /\ Back(p)
      /\ media_' = [media_ EXCEPT ![p] = Tail(q)]
      /\ bytes' = [bytes EXCEPT ![p].all = @ - n]
  BY DEF MediaFailed, Sends
<1>2. /\ q \in Seq(QueuedFrames) /\ BytesOf(p) /\ bytes[p] \in ByteCounts
      /\ bytes[p].all \in Int /\ repairs[p] \in Nat /\ copies[p] \in Nat
      /\ PacerLimit \in Nat /\ Packets(q) \in Nat
  BY BytesNumbers
<1>3. q # <<>> /\ n >= 0 /\ Unfinished(Tail(q))
  BY <1>1, <1>2 DEF BytesOf, FramesOf
<1>4. /\ n \in Int /\ Packets(q) = n + Packets(Tail(q)) /\ Packets(Tail(q)) \in Nat
  <2>1. Head(q) \in QueuedFrames /\ Tail(q) \in Seq(QueuedFrames)
    BY <1>2, <1>3, HeadTailProperties
  <2>2. Packets(q) = n + Packets(Tail(q))
    BY <1>2, <1>3, PacketsFirst
  <2> QED BY <2>1, <2>2, LeftFinite DEF QueuedFrames
<1>6. media_'[p] = Tail(q) /\ \A w \in Pacers : w # p => media_'[w] = media_[w]
  BY <1>1 DEF TurnTypes
<1>7. /\ \A w \in Pacers : w # p => hand'[w] = hand[w]
      /\ hand'[p].step = "selects"
  BY <1>1, BackDoes
<1>8. FramesOf(p)' /\ ChoiceStands(p)'
  BY <1>3, <1>6, <1>7 DEF FramesOf, Sends, ChoiceStands
<1> HIDE DEF n
<1>9. /\ bytes' \in [Pacers -> ByteCounts] /\ bytes'[p].all = bytes[p].all - n
      /\ bytes'[p].repairs = bytes[p].repairs /\ bytes'[p].copies = bytes[p].copies
      /\ \A w \in Pacers : w # p => bytes'[w] = bytes[w]
  <2> DEFINE b == [bytes[p] EXCEPT !.all = bytes[p].all - n]
  <2>1. /\ b \in ByteCounts /\ b.all = bytes[p].all - n
        /\ b.repairs = bytes[p].repairs /\ b.copies = bytes[p].copies
    BY <1>2, <1>4 DEF ByteCounts
  <2>2. bytes' = [bytes EXCEPT ![p] = b]
    BY <1>1
  <2> HIDE DEF b
  <2> QED BY <2>1, <2>2 DEF BytesInv, BytesTypes
<1>10. CountedOf(p)'
  <2>1. /\ bytes[p].repairs = repairs[p] /\ bytes[p].copies = copies[p]
        /\ bytes[p].all = Packets(q) + repairs[p] + copies[p] /\ bytes[p].all <= PacerLimit
    BY <1>2 DEF BytesOf, CountedOf
  <2> DEFINE m == Packets(Tail(q))
  <2>2. Packets(media_'[p]) = m /\ m \in Nat /\ Packets(q) = n + m
    BY <1>4, <1>6
  <2>3. n \in Nat /\ repairs' = repairs /\ copies' = copies
    BY <1>1, <1>3, <1>4
  <2>4. /\ repairs[p] \in Nat /\ copies[p] \in Nat /\ PacerLimit \in Nat
        /\ bytes[p].all \in Int
    BY <1>2
  <2> HIDE DEF m, q
  <2>5. /\ bytes'[p].repairs = repairs'[p] /\ bytes'[p].copies = copies'[p]
    BY <1>9, <2>1, <2>3
  <2>6. bytes'[p].all = m + repairs'[p] + copies'[p] /\ bytes'[p].all <= PacerLimit
    BY <1>9, <2>1, <2>2, <2>3, <2>4
  <2> QED BY <2>2, <2>5, <2>6 DEF CountedOf
<1>11. BytesTypes' /\ \A w \in Pacers : w # p => SameBytes(w)
  BY <1>1, <1>6, <1>7, <1>9 DEF BytesInv, BytesTypes, SameBytes
<1> QED BY <1>8, <1>10, <1>11, BytesStepOf DEF BytesOf

\* The worker ends and empties the queues.
LEMMA EndsBytes ==
  ASSUME BytesInv, TurnTypes, NEW p \in Pacers, PacerEnds(p)
  PROVE  BytesInv'
<1>1. /\ UNCHANGED <<mutated, hand>> /\ hand[p].step = "selects"
      /\ media_' = [media_ EXCEPT ![p] = <<>>] /\ repairs' = [repairs EXCEPT ![p] = 0]
      /\ copies' = [copies EXCEPT ![p] = 0] /\ bytes' = [bytes EXCEPT ![p] = NoBytes]
  BY DEF PacerEnds
<1>2. NoBytes \in ByteCounts /\ NoBytes.all = 0 /\ NoBytes.repairs = 0 /\ NoBytes.copies = 0
  BY DEF NoBytes, ByteCounts
<1>3. CountedOf(p)'
  BY <1>1, <1>2, PacketsNone, PacerAssumption DEF CountedOf, BytesInv, BytesTypes, TurnTypes
<1>4. FramesOf(p)' /\ ChoiceStands(p)'
  BY <1>1 DEF FramesOf, ChoiceStands, Sends, Unfinished, TurnTypes
<1>5. BytesTypes' /\ \A w \in Pacers : w # p => SameBytes(w)
  BY <1>1, <1>2 DEF BytesInv, BytesTypes, SameBytes, TurnTypes
<1> QED BY <1>3, <1>4, <1>5, BytesStepOf DEF BytesOf

\* The invariant is inductive.
LEMMA BytesStep == ASSUME BytesInv, TurnInv, PacersNext PROVE BytesInv'
<1>1. TurnTypes /\ TurnTypes'
  BY TurnStep DEF TurnInv
<1>2. CASE Refill
  BY <1>2, AllBytesSame DEF Refill, queues
<1>3. ASSUME NEW p \in Pacers, Caller(p) PROVE BytesInv'
  <2>1. CASE CreatePacer(p) \/ StopPacing(p) \/ StopLeaves(p)
    BY <2>1, AllBytesSame DEF CreatePacer, StopPacing, StopLeaves, queues
  <2> QED BY <1>1, <1>3, <2>1, EnqueueFrameBytes, EnqueueRepairBytes, DiscardDeltasBytes,
             DiscardMediaBytes DEF Caller
<1>4. ASSUME NEW p \in Pacers, Pacer(p) PROVE BytesInv'
  BY <1>1, <1>4, ExpiresBytes, SelectsBytes, BudgetBytes, ChoiceFellBytes,
     SendsExtraBytes, SendsMediaBytes, ExtraSentBytes, MediaSentBytes,
     MediaFailedBytes, EndsBytes DEF Pacer
<1> QED BY <1>2, <1>3, <1>4 DEF PacersNext

\* Before the first pacer nothing is counted.
LEMMA BytesInit == ASSUME PacersInit PROVE BytesInv
<1>1. BytesTypes
  BY DEF PacersInit, BytesTypes, ByteCounts, NoBytes
<1>2. ASSUME NEW p \in Pacers PROVE BytesOf(p)
  <2>1. /\ hand[p].step = "selects" /\ media_[p] = <<>> /\ repairs[p] = 0 /\ copies[p] = 0
        /\ bytes[p].all = 0 /\ bytes[p].repairs = 0 /\ bytes[p].copies = 0
    BY DEF PacersInit, Resting_, NoBytes
  <2> QED BY <2>1, PacketsNone, PacerAssumption
          DEF BytesOf, CountedOf, FramesOf, Sends, Unfinished, ChoiceStands
<1> QED BY <1>1, <1>2 DEF BytesInv

------------------------------------------------------------------------------
(***************************************************************************)
(* The line for the shared budget (PacerQueues).                           *)
(***************************************************************************)
InLine(p) == \E i \in 1..Len(waiters) : waiters[i] = p

\* The pacers in line are those whose workers wait; they have joined the budget
\* and have not left it, because a worker that waits has not ended.
LineInv ==
  /\ waiters \in Seq(Pacers) /\ members \in SUBSET Pacers
  /\ \A i, j \in 1..Len(waiters) : waiters[i] = waiters[j] => i = j
  /\ \A p \in Pacers : hand[p].step = "waits" <=> InLine(p)
  /\ \A p \in Pacers : alive[p] \in {"runs", "stops"} => p \in members
  /\ \A p \in Pacers : alive[p] = "none" => p \notin members
  /\ \A p \in Pacers : alive[p] \in {"none", "over"} => hand[p].step = "selects"

\* A step that changes none of this, or of a hand what does not matter to the line.
LEMMA LineSame ==
  ASSUME LineInv, NEW p \in Pacers, UNCHANGED <<waiters, members, alive>>,
         \A q \in Pacers : q # p => hand'[q] = hand[q],
         hand'[p].step = "waits" <=> hand[p].step = "waits",
         hand'[p].step = "selects" \/ alive[p] \in {"runs", "stops"}
  PROVE  LineInv'
  BY DEF LineInv, InLine

\* A worker that does not select is a pacer's that was made and has not ended.
LEMMA BusyIsAlive ==
  ASSUME LineInv, TurnTypes, NEW p \in Pacers, hand[p].step # "selects"
  PROVE  alive[p] \in {"runs", "stops"}
  BY DEF LineInv, TurnTypes, PacerLives

\* A pacer joins the budget, is told to stop, ends, or leaves it.
LEMMA LifeLine ==
  ASSUME LineInv, TurnTypes, NEW p \in Pacers,
         CreatePacer(p) \/ StopPacing(p) \/ StopLeaves(p) \/ PacerEnds(p)
  PROVE  LineInv'
<1>1. UNCHANGED <<hand, waiters>>
  BY DEF CreatePacer, StopPacing, StopLeaves, PacerEnds, shared
<1>2. CASE CreatePacer(p)
  <2>1. alive' = [alive EXCEPT ![p] = "runs"] /\ members' = members \cup {p}
    BY <1>2 DEF CreatePacer
  <2> QED BY <1>1, <2>1 DEF LineInv, InLine, TurnTypes
<1>3. CASE StopPacing(p)
  <2>1. alive[p] = "runs" /\ alive' = [alive EXCEPT ![p] = "stops"] /\ members' = members
    BY <1>3 DEF StopPacing, shared
  <2> QED BY <1>1, <2>1 DEF LineInv, InLine, TurnTypes
<1>4. CASE StopLeaves(p)
  <2>1. alive[p] = "over" /\ alive' = alive /\ members' = members \ {p}
    BY <1>4 DEF StopLeaves
  <2> QED BY <1>1, <2>1 DEF LineInv, InLine, TurnTypes
<1>5. CASE PacerEnds(p)
  <2>1. /\ alive[p] = "stops" /\ alive' = [alive EXCEPT ![p] = "over"] /\ members' = members
        /\ hand[p].step = "selects"
    BY <1>5 DEF PacerEnds, shared
  <2> QED BY <1>1, <2>1 DEF LineInv, InLine, TurnTypes
<1> QED BY <1>2, <1>3, <1>4, <1>5

\* It gets in line, behind the others.
LEMMA AsksLine ==
  ASSUME LineInv, TurnTypes, NEW p \in Pacers, AsksBudget(p)
  PROVE  LineInv'
<1>1. /\ UNCHANGED <<members, alive>> /\ hand[p].step = "asks"
      /\ waiters' = Append(waiters, p) /\ hand' = [hand EXCEPT ![p].step = "waits"]
  BY DEF AsksBudget
<1>2. /\ \A q \in Pacers : q # p => hand'[q] = hand[q]
      /\ hand'[p].step = "waits"
  BY <1>1, HandStepDoes DEF PacketSteps
<1>3. /\ waiters \in Seq(Pacers) /\ Len(waiters) \in Nat /\ ~InLine(p)
  BY <1>1 DEF LineInv
<1>4. /\ waiters' \in Seq(Pacers) /\ Len(waiters') = Len(waiters) + 1
      /\ \A i \in 1..Len(waiters) : waiters'[i] = waiters[i]
      /\ waiters'[Len(waiters) + 1] = p
  BY <1>1, <1>3, AppendProperties
<1>5. \A i \in 1..Len(waiters') : i \in 1..Len(waiters) \/ i = Len(waiters) + 1
  BY <1>3, <1>4
<1>6. \A i, j \in 1..Len(waiters') : waiters'[i] = waiters'[j] => i = j
  BY <1>3, <1>4, <1>5 DEF LineInv, InLine
<1>7. InLine(p)'
  BY <1>3, <1>4 DEF InLine
<1>8. ASSUME NEW q \in Pacers, q # p PROVE InLine(q)' <=> InLine(q)
  BY <1>3, <1>4, <1>5, <1>8 DEF InLine
<1>9. alive[p] \in {"runs", "stops"}
  BY <1>1, BusyIsAlive
<1> QED BY <1>1, <1>2, <1>4, <1>6, <1>7, <1>8, <1>9 DEF LineInv

\* One pacer leaves the line, from whichever place.
LEMMA LeavesLine ==
  ASSUME LineInv, TurnTypes, NEW p \in Pacers, UNCHANGED <<members, alive>>,
         hand[p].step = "waits", NEW step \in {"granted", "selects"},
         hand' = [hand EXCEPT ![p].step = step],
         NEW k \in 1..Len(waiters), waiters[k] = p,
         waiters' \in Seq(Pacers), Len(waiters') = Len(waiters) - 1,
         \A i \in 1..Len(waiters') : waiters'[i] = IF i < k THEN waiters[i] ELSE waiters[i + 1]
  PROVE  LineInv'
<1>1. /\ \A q \in Pacers : q # p => hand'[q] = hand[q]
      /\ hand'[p].step = step
  BY HandStepDoes DEF PacketSteps
<1>2. Len(waiters) \in Nat /\ Len(waiters') \in Nat /\ k \in Nat /\ 1 <= k /\ k <= Len(waiters)
  BY DEF LineInv
<1>3. \A i \in 1..Len(waiters') : i \in 1..Len(waiters) /\ i + 1 \in 1..Len(waiters)
  BY <1>2
<1>4. \A i, j \in 1..Len(waiters') : waiters'[i] = waiters'[j] => i = j
  <2> SUFFICES ASSUME NEW i \in 1..Len(waiters'), NEW j \in 1..Len(waiters'),
                      waiters'[i] = waiters'[j]
               PROVE  i = j
    OBVIOUS
  <2> DEFINE a == IF i < k THEN i ELSE i + 1
             b == IF j < k THEN j ELSE j + 1
  <2>1. a \in 1..Len(waiters) /\ b \in 1..Len(waiters) /\ waiters[a] = waiters[b]
    BY <1>3
  <2>2. a = b
    BY <2>1 DEF LineInv
  <2> QED BY <1>2, <2>2
<1>5. ~InLine(p)'
  <2> SUFFICES ASSUME NEW i \in 1..Len(waiters'), waiters'[i] = p PROVE FALSE
    BY DEF InLine
  <2> DEFINE a == IF i < k THEN i ELSE i + 1
  <2>1. a \in 1..Len(waiters) /\ waiters[a] = p
    BY <1>3
  <2>2. a = k
    BY <2>1 DEF LineInv
  <2> QED BY <1>2, <2>2
<1>6. ASSUME NEW q \in Pacers, q # p PROVE InLine(q)' <=> InLine(q)
  <2>1. ASSUME InLine(q)' PROVE InLine(q)
    <3>1. PICK i \in 1..Len(waiters') : waiters'[i] = q
      BY <2>1 DEF InLine
    <3>2. waiters[i] = q \/ waiters[i + 1] = q
      BY <3>1
    <3> QED BY <1>3, <3>1, <3>2 DEF InLine
  <2>2. ASSUME InLine(q) PROVE InLine(q)'
    <3>1. PICK i \in 1..Len(waiters) : waiters[i] = q
      BY <2>2 DEF InLine
    <3>2. i # k
      BY <1>6, <3>1
    <3>3. CASE i < k
      <4>1. i \in 1..Len(waiters') /\ waiters'[i] = q
        BY <1>2, <3>1, <3>3
      <4> QED BY <4>1 DEF InLine
    <3>4. CASE i > k
      <4>1. i - 1 \in 1..Len(waiters') /\ ~(i - 1 < k) /\ (i - 1) + 1 = i
        BY <1>2, <3>1, <3>4
      <4>2. waiters'[i - 1] = q
        BY <3>1, <4>1
      <4> QED BY <4>1, <4>2 DEF InLine
    <3> QED BY <1>2, <3>2, <3>3, <3>4
  <2> QED BY <2>1, <2>2
<1>7. alive[p] \in {"runs", "stops"}
  BY BusyIsAlive
<1> QED BY <1>1, <1>4, <1>5, <1>6, <1>7 DEF LineInv

\* The first in line is served.
LEMMA GrantedLine ==
  ASSUME LineInv, TurnTypes, NEW p \in Pacers, Granted(p)
  PROVE  LineInv'
<1>1. /\ UNCHANGED <<members, alive>> /\ hand[p].step = "waits" /\ Head(waiters) = p
      /\ waiters' = Tail(waiters) /\ hand' = [hand EXCEPT ![p].step = "granted"]
  BY DEF Granted
<1>2. waiters \in Seq(Pacers) /\ Len(waiters) \in Nat /\ InLine(p)
  BY <1>1 DEF LineInv
<1>3. waiters # <<>> /\ 1 \in 1..Len(waiters) /\ waiters[1] = p
  BY <1>1, <1>2 DEF InLine
<1>4. /\ waiters' \in Seq(Pacers) /\ Len(waiters') = Len(waiters) - 1
      /\ \A i \in 1..Len(waiters') : waiters'[i] = waiters[i + 1]
  BY <1>1, <1>2, <1>3, HeadTailProperties
<1>5. \A i \in 1..Len(waiters') : waiters'[i] = IF i < 1 THEN waiters[i] ELSE waiters[i + 1]
  BY <1>2, <1>4
<1> QED BY <1>1, <1>3, <1>4, <1>5, LeavesLine

\* What is left of a line when the one at a place has left.
LEMMA RemoveAtIs ==
  ASSUME NEW S, NEW s \in Seq(S), NEW k \in 1..Len(s)
  PROVE  /\ RemoveAt(s, k) \in Seq(S) /\ Len(RemoveAt(s, k)) = Len(s) - 1
         /\ \A i \in 1..Len(s) - 1 : RemoveAt(s, k)[i] = IF i < k THEN s[i] ELSE s[i + 1]
<1> DEFINE a == SubSeq(s, 1, k - 1)
           b == SubSeq(s, k + 1, Len(s))
<1>1. k \in Nat /\ Len(s) \in Nat /\ 1 <= k /\ k <= Len(s)
  OBVIOUS
<1>2. /\ a \in Seq(S) /\ Len(a) = k - 1 /\ \A i \in 1..k - 1 : a[i] = s[i]
  <2>1. 1 \in Int /\ k - 1 \in Int /\ \A i \in 1..k - 1 : s[i] \in S
    BY <1>1, ElementOfSeq
  <2>2. /\ a \in Seq(S) /\ Len(a) = IF 1 <= k - 1 THEN k - 1 - 1 + 1 ELSE 0
        /\ \A i \in 1..k - 1 - 1 + 1 : a[i] = s[1 + i - 1]
    BY <2>1, SubSeqProperties
  <2> HIDE DEF a
  <2> QED BY <1>1, <2>2
<1>3. /\ b \in Seq(S) /\ Len(b) = Len(s) - k
      /\ \A i \in 1..Len(s) - k : b[i] = s[k + i]
  <2>1. k + 1 \in Int /\ Len(s) \in Int /\ \A i \in k + 1..Len(s) : s[i] \in S
    BY <1>1, ElementOfSeq
  <2>2. /\ b \in Seq(S) /\ Len(b) = IF k + 1 <= Len(s) THEN Len(s) - (k + 1) + 1 ELSE 0
        /\ \A i \in 1..Len(s) - (k + 1) + 1 : b[i] = s[k + 1 + i - 1]
    BY <2>1, SubSeqProperties
  <2> HIDE DEF b
  <2> QED BY <1>1, <2>2
<1>4. RemoveAt(s, k) = a \o b
  BY DEF RemoveAt
<1> HIDE DEF a, b
<1>5. /\ a \o b \in Seq(S) /\ Len(a \o b) = Len(a) + Len(b)
      /\ \A i \in 1..Len(a) + Len(b) : (a \o b)[i] = IF i <= Len(a) THEN a[i] ELSE b[i - Len(a)]
  <2>1. a \in Seq(S) /\ b \in Seq(S)
    BY <1>2, <1>3
  <2> QED BY <2>1, ConcatProperties
<1>6. Len(a \o b) = Len(s) - 1
  BY <1>1, <1>2, <1>3, <1>5
<1>7. ASSUME NEW i \in 1..Len(s) - 1
      PROVE  (a \o b)[i] = IF i < k THEN s[i] ELSE s[i + 1]
  <2>1. CASE i < k
    BY <1>1, <1>2, <1>3, <1>5, <2>1
  <2>2. CASE i >= k
    <3>1. i - (k - 1) \in 1..Len(s) - k /\ k + (i - (k - 1)) = i + 1
      BY <1>1, <2>2
    <3>2. (a \o b)[i] = b[i - (k - 1)]
      BY <1>1, <1>2, <1>3, <1>5, <2>2
    <3>3. b[i - (k - 1)] = s[k + (i - (k - 1))]
      BY <1>3, <3>1
    <3> QED BY <1>1, <2>2, <3>1, <3>2, <3>3
  <2>3. i < k \/ i >= k
    BY <1>1
  <2> QED BY <2>1, <2>2, <2>3
<1> QED BY <1>4, <1>5, <1>6, <1>7

\* One that is told to stop gives up its place.
LEMMA CancelledLine ==
  ASSUME LineInv, TurnTypes, NEW p \in Pacers, Cancelled(p)
  PROVE  LineInv'
<1>1. /\ UNCHANGED <<members, alive>> /\ hand[p].step = "waits"
      /\ waiters' = RemoveFirst(waiters, p) /\ hand' = [hand EXCEPT ![p].step = "selects"]
  BY DEF Cancelled
<1>2. waiters \in Seq(Pacers) /\ Len(waiters) \in Nat /\ InLine(p)
  BY <1>1 DEF LineInv
<1> DEFINE I == {i \in 1..Len(waiters) : waiters[i] = p}
           k == Min(I)
<1>3. I # {} /\ I \in SUBSET Nat
  BY <1>2 DEF InLine
<1>4. k \in I
  BY <1>3, LeastOf
<1>5. waiters' = RemoveAt(waiters, k)
  <2>1. \E i \in 1..Len(waiters) : waiters[i] = p
    BY <1>2 DEF InLine
  <2>2. SelectInSeq(waiters, LAMBDA v : v = p) = k
    BY <1>3 DEF SelectInSeq
  <2> QED BY <1>1, <2>1, <2>2 DEF RemoveFirst
<1>6. k \in 1..Len(waiters) /\ waiters[k] = p
  BY <1>4
<1> HIDE DEF k
<1>7. /\ waiters' \in Seq(Pacers) /\ Len(waiters') = Len(waiters) - 1
      /\ \A i \in 1..Len(waiters') : waiters'[i] = IF i < k THEN waiters[i] ELSE waiters[i + 1]
  BY <1>2, <1>5, <1>6, RemoveAtIs
<1> QED BY <1>1, <1>6, <1>7, LeavesLine

\* The other steps leave the line alone.
LEMMA OtherLine ==
  ASSUME LineInv, TurnTypes, NEW p \in Pacers,
         \/ PacerIdles(p) \/ SelectsPacket(p) \/ ChoiceFell(p) \/ SendsRepair(p)
         \/ SendsCopy(p) \/ SendsMedia(p) \/ ExtraSent(p) \/ MediaSent(p) \/ MediaFailed(p)
  PROVE  LineInv'
<1>1. UNCHANGED <<waiters, members, alive>>
  BY DEF PacerIdles, SelectsPacket, ChoiceFell, SendsRepair, SendsCopy, SendsMedia,
         ExtraSent, MediaSent, MediaFailed, shared
<1>2. CASE PacerIdles(p)
  <2>1. hand[p].step = "selects" /\ hand' = [hand EXCEPT ![p].repairs = 0]
    BY <1>2 DEF PacerIdles, Selects
  <2>2. hand'[p].step = "selects" /\ \A q \in Pacers : q # p => hand'[q] = hand[q]
    BY <2>1 DEF TurnTypes, Hands
  <2> QED BY <1>1, <2>1, <2>2, LineSame
<1>3. CASE SelectsPacket(p)
  <2>1. alive[p] = "runs" /\ hand[p].step = "selects"
    BY <1>3 DEF SelectsPacket, Selects
  <2>2. PICK kind \in {"repair", "media", "copy"} : Picked(p, kind)
    BY <1>3 DEF SelectsPacket
  <2>3. hand'[p].step = "asks" /\ \A q \in Pacers : q # p => hand'[q] = hand[q]
    BY <2>2, PickedDoes DEF PacketKinds
  <2> QED BY <1>1, <2>1, <2>3, LineSame
<1>4. CASE ChoiceFell(p)
  <2>1. hand[p].step = "granted" /\ hand' = [hand EXCEPT ![p].step = "selects"]
    BY <1>4 DEF ChoiceFell
  <2>2. hand'[p].step = "selects" /\ \A q \in Pacers : q # p => hand'[q] = hand[q]
    BY <2>1, HandStepDoes DEF PacketSteps
  <2> QED BY <1>1, <2>1, <2>2, LineSame
<1>5. CASE SendsRepair(p) \/ SendsCopy(p) \/ SendsMedia(p)
  <2>1. hand[p].step = "granted"
    BY <1>5 DEF SendsRepair, SendsCopy, SendsMedia, MaySend
  <2>2. PICK n \in Nat : HandGoes(p, n)
    BY <1>5, TurnNumbers DEF SendsRepair, SendsCopy, SendsMedia
  <2>3. hand'[p].step = "sends" /\ \A q \in Pacers : q # p => hand'[q] = hand[q]
    BY <2>2, HandGoesDoes
  <2> QED BY <1>1, <2>1, <2>3, LineSame, BusyIsAlive
<1>6. CASE ExtraSent(p) \/ MediaSent(p) \/ MediaFailed(p)
  <2>1. hand[p].step = "sends" /\ Back(p)
    BY <1>6 DEF ExtraSent, MediaSent, MediaFailed
  <2>2. hand'[p].step = "selects" /\ \A q \in Pacers : q # p => hand'[q] = hand[q]
    BY <2>1, BackDoes
  <2> QED BY <1>1, <2>1, <2>2, LineSame
<1> QED BY <1>2, <1>3, <1>4, <1>5, <1>6

\* A step that leaves line and hands as they are.
LEMMA AllLineSame ==
  ASSUME LineInv, UNCHANGED <<hand, waiters, members, alive>> PROVE LineInv'
  BY DEF LineInv, InLine

\* The invariant is inductive.
LEMMA LineStep == ASSUME LineInv, TurnTypes, PacersNext PROVE LineInv'
<1>1. CASE Refill
  BY <1>1, AllLineSame DEF Refill
<1>2. ASSUME NEW p \in Pacers, Caller(p) PROVE LineInv'
  <2>1. CASE EnqueueFrame(p) \/ EnqueueRepair(p) \/ DiscardDeltas(p) \/ DiscardMedia(p)
    BY <2>1, AllLineSame DEF EnqueueFrame, EnqueueRepair, DiscardDeltas, DiscardMedia, shared
  <2> QED BY <1>2, <2>1, LifeLine DEF Caller
<1>3. ASSUME NEW p \in Pacers, Pacer(p) PROVE LineInv'
  <2>1. CASE CopiesExpire(p) \/ RepairExpires(p)
    BY <2>1, AllLineSame DEF CopiesExpire, RepairExpires, shared
  <2> QED BY <1>3, <2>1, AsksLine, GrantedLine, CancelledLine, OtherLine, LifeLine DEF Pacer
<1> QED BY <1>1, <1>2, <1>3 DEF PacersNext

\* Before the first pacer nobody is in line.
LEMMA LineInit == ASSUME PacersInit PROVE LineInv
<1>1. /\ waiters = <<>> /\ members = {} /\ \A p \in Pacers : hand[p].step = "selects"
      /\ \A p \in Pacers : alive[p] = "none"
  BY DEF PacersInit, Resting_
<1> QED BY <1>1 DEF LineInv, InLine

\* What a pacer counts is what its queues hold, within its limit, and the line for the
\* shared budget moves, for any limits, sizes of frames, pacers and budgets.
THEOREM PacersCount == PacersSpec => [](BytesCounted /\ LineMoves)
<1>1. PacersInit => TurnInv /\ BytesInv /\ LineInv
  BY TurnInit, BytesInit, LineInit
<1>2. TurnInv /\ BytesInv /\ LineInv /\ [PacersNext]_pacerVars
        => (TurnInv /\ BytesInv /\ LineInv)'
  <2> SUFFICES ASSUME TurnInv, BytesInv, LineInv, [PacersNext]_pacerVars
               PROVE  (TurnInv /\ BytesInv /\ LineInv)'
    OBVIOUS
  <2>1. CASE PacersNext
    BY <2>1, TurnStep, BytesStep, LineStep DEF TurnInv
  <2>2. CASE UNCHANGED pacerVars
    BY <2>2, AllSame, AllBytesSame, AllLineSame DEF pacerVars, queues, shared
  <2> QED BY <2>1, <2>2
<1>3. BytesInv => BytesCounted
  BY DEF BytesInv, BytesOf, CountedOf, BytesCounted
<1>4. TurnInv /\ LineInv => LineMoves
  <2> SUFFICES ASSUME TurnInv, LineInv PROVE LineMoves
    OBVIOUS
  <2>1. waiters \in Seq(Pacers) /\ DOMAIN waiters = 1..Len(waiters)
    BY DEF LineInv
  <2>2. IsInjective(waiters)
    BY <2>1 DEF IsInjective, LineInv
  <2>3. ASSUME NEW i \in DOMAIN waiters
        PROVE  hand[waiters[i]].step = "waits" /\ waiters[i] \in members
    <3>1. waiters[i] \in Pacers /\ InLine(waiters[i])
      BY <2>1, ElementOfSeq DEF InLine
    <3>2. alive[waiters[i]] \in PacerLives
      BY <3>1 DEF TurnInv, TurnTypes
    <3>3. hand[waiters[i]].step = "waits"
      BY <3>1 DEF LineInv
    <3>4. alive[waiters[i]] \in {"runs", "stops"}
      BY <3>1, <3>2, <3>3 DEF LineInv, PacerLives
    <3> QED BY <3>1, <3>3, <3>4 DEF LineInv
  <2> QED BY <2>2, <2>3 DEF LineMoves, LineInv
<1> QED BY <1>1, <1>2, <1>3, <1>4, PTL DEF PacersSpec

------------------------------------------------------------------------------
(***************************************************************************)
(* The composition (MCPublisher).                                          *)
(***************************************************************************)
\* Threads in order in the specification that the run checks: whichever
\* component moves, the output's session and the removal workers take steps of
\* their own or none.
THEOREM AllThreadsInOrder ==
  ASSUME ~StartOverlapsStop
  PROVE  MCSpec => []ThreadsInOrder
<1>1. MCInit => SessionInv /\ StarterRuns /\ WorkerInv
  BY SessionInit, WorkersInit DEF MCInit, OutputInit, StarterRuns
<1>2. [MCNext]_<<subject, videoVars, outputVars, pacerVars, inboundVars>>
        => [OutputNext]_outputVars /\ [InboundNext]_inboundVars
  BY DEF MCNext
<1>3. SessionInv /\ StarterRuns /\ WorkerInv
      /\ [MCNext]_<<subject, videoVars, outputVars, pacerVars, inboundVars>>
        => (SessionInv /\ StarterRuns /\ WorkerInv)'
  BY <1>2, SessionStep, WorkersStep
<1>4. SessionInv /\ WorkerInv => ThreadsInOrder
  BY SessionSafe, WorkersSafe DEF ThreadsInOrder
<1> QED BY <1>1, <1>3, <1>4, PTL DEF MCSpec

\* The queues in the specification that the run checks: the viewer's queue and its
\* gate, and every pacer's counts and place in line.
THEOREM EveryQueueOKHolds == MCSpec => []EveryQueueOK
<1>1. MCInit => VideoInit /\ PacersInit
  BY DEF MCInit
<1>2. [MCNext]_<<subject, videoVars, outputVars, pacerVars, inboundVars>>
        => [VideoNext]_videoVars /\ [PacersNext]_pacerVars
  BY DEF MCNext
<1>3. MCSpec => VideoSpec /\ PacersSpec
  BY <1>1, <1>2, PTL DEF MCSpec, VideoSpec, PacersSpec
<1>4. QueuesOK /\ BytesCounted /\ LineMoves => EveryQueueOK
  BY DEF EveryQueueOK
<1> QED BY <1>3, <1>4, QueuesOKHolds, PacersCount, PTL
================================================================================
