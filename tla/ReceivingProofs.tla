----------------------------- MODULE ReceivingProofs -----------------------------
(***************************************************************************)
(* Theorems about the receiving side: whose tracks a source plays, what it *)
(* shows, what it lets sound, and the child that a wrapper keeps, for any  *)
(* publishers, generations, threads, timestamps, settings and budgets.     *)
(*                                                                         *)
(* Tracks: a track reaches the source in one event, so a handle has one    *)
(* place: an event that is under way, a slot or a bundle (Apart, WireOK).  *)
(* Between two handlers the source is Settled: the slots have one owner,   *)
(* which is alive, and callbacks are set on those tracks and on no others. *)
(* Within a handler one track may have lost its slot and not yet its       *)
(* callbacks (KeepsWires).                                                 *)
(*                                                                         *)
(* Pictures: a frame decoded in an epoch is made of packets of that epoch  *)
(* (Own), through assembly, decoder, queues and jobs; a thread shows one   *)
(* only while output is enabled for its epoch, and a transition disables   *)
(* output before it changes what may be shown (PictureOK).                 *)
(*                                                                         *)
(* Sound: one thread has the decoder from the mapping of a timestamp until *)
(* OBS has the frame, and a reset waits for it (OrderKept).                *)
(*                                                                         *)
(* The wrapper: after each call of OBS the children mirror it (Good).      *)
(***************************************************************************)
EXTENDS MCReceiving, TLAPS, SequenceTheorems, FiniteSetTheorems,
        FunctionTheorems, WellFoundedInduction

(***************************************************************************)
(* What sifting a sequence keeps (Sifting), and the least number of a set. *)
(***************************************************************************)
\* Every place of a set has a rank of its own, and every rank a place.
LEMMA PlacesRank ==
  ASSUME NEW n \in Nat, NEW places \in SUBSET (1..n)
  PROVE  /\ Cardinality(places) \in 0..n
         /\ \A k \in 1..Cardinality(places) :
              /\ Place(places, k) \in places
              /\ Cardinality({j \in places : j <= Place(places, k)}) = k
         /\ \A i \in places :
              \E k \in 1..Cardinality(places) : Place(places, k) = i
<1> DEFINE upto(i) == {j \in places : j <= i}
           m == Cardinality(places)
           rank == [i \in places |-> Cardinality(upto(i))]
<1>1. IsFiniteSet(places) /\ m \in Nat /\ m <= n
  <2>1. IsFiniteSet(1..n) /\ Cardinality(1..n) = n
    BY FS_Interval
  <2> QED BY <2>1, FS_Subset, FS_CardinalityType
<1>2. \A i \in places :
        /\ IsFiniteSet(upto(i)) /\ upto(i) \in SUBSET places /\ i \in upto(i)
        /\ i \in Nat
  <2> TAKE i \in places
  <2>1. upto(i) \in SUBSET places /\ i \in Nat /\ i \in upto(i)
    OBVIOUS
  <2> QED BY <1>1, <2>1, FS_Subset
<1>3. \A i \in places : Cardinality(upto(i)) \in 1..m
  <2> TAKE i \in places
  <2>1. Cardinality(upto(i)) <= m /\ Cardinality(upto(i)) \in Nat
    BY <1>1, <1>2, FS_Subset, FS_CardinalityType
  <2>2. Cardinality(upto(i)) # 0
    BY <1>2, FS_EmptySet
  <2> QED BY <2>1, <2>2
<1>4. \A i, j \in places :
        i < j => Cardinality(upto(i)) < Cardinality(upto(j))
  <2> SUFFICES ASSUME NEW i \in places, NEW j \in places, i < j
               PROVE  Cardinality(upto(i)) < Cardinality(upto(j))
    OBVIOUS
  <2>a. i \in Nat /\ j \in Nat /\ \A p \in places : p \in Nat
    BY <1>2
  <2>b. \A p \in places : p <= i => p <= j
    BY <2>a
  <2>c. ~(j <= i)
    BY <2>a
  <2>d. upto(i) \in SUBSET upto(j)
    BY <2>b
  <2>1. upto(i) \in SUBSET upto(j) /\ j \notin upto(i) /\ j \in upto(j)
    BY <1>2, <2>c, <2>d
  <2> HIDE DEF upto
  <2>2. /\ Cardinality(upto(i)) <= Cardinality(upto(j))
        /\ Cardinality(upto(i)) # Cardinality(upto(j))
    BY <1>2, <2>1, FS_Subset
  <2> QED BY <1>3, <2>2
<1>5. rank \in Injection(places, 1..m)
  <2>1. rank \in [places -> 1..m]
    BY <1>3
  <2>2. \A i, j \in places : rank[i] = rank[j] => i = j
    <3> SUFFICES ASSUME NEW i \in places, NEW j \in places, i # j
                 PROVE  rank[i] # rank[j]
      OBVIOUS
    <3>1. rank[i] = Cardinality(upto(i)) /\ rank[j] = Cardinality(upto(j))
      OBVIOUS
    <3> HIDE DEF rank, upto
    <3>2. i < j \/ j < i
      BY <1>2
    <3> QED BY <1>3, <1>4, <3>1, <3>2
  <2> HIDE DEF rank
  <2> QED BY <2>1, <2>2 DEF Injection, IsInjective
<1>6. rank \in Surjection(places, 1..m)
  <2>1. IsFiniteSet(1..m) /\ Cardinality(1..m) = m
    BY <1>1, FS_Interval
  <2> HIDE DEF rank
  <2> QED BY <1>5, <2>1, FS_Injection
<1>7. ASSUME NEW k \in 1..m
      PROVE  Place(places, k) \in places /\ Cardinality(upto(Place(places, k))) = k
  <2>1. \E i \in places : Cardinality(upto(i)) = k
    <3>1. PICK i \in places : rank[i] = k
      <4> HIDE DEF rank
      <4> QED BY <1>6 DEF Surjection
    <3> QED BY <3>1
  <2> QED BY <2>1 DEF Place
<1>8. ASSUME NEW i \in places
      PROVE  \E k \in 1..m : Place(places, k) = i
  <2> DEFINE k == Cardinality(upto(i))
  <2>1. k \in 1..m
    BY <1>3
  <2> HIDE DEF k
  <2>2. Place(places, k) \in places /\ Cardinality(upto(Place(places, k))) = k
    BY <1>7, <2>1
  <2>3. \A p \in places : Cardinality(upto(p)) = Cardinality(upto(i)) => p = i
    <3> SUFFICES ASSUME NEW p \in places, p # i
                 PROVE  Cardinality(upto(p)) # Cardinality(upto(i))
      OBVIOUS
    <3> HIDE DEF upto
    <3>1. p < i \/ i < p
      BY <1>2
    <3> QED BY <1>3, <1>4, <3>1
  <2> QED BY <2>1, <2>2, <2>3 DEF k
<1> QED BY <1>1, <1>7, <1>8

\* What is left of a sequence: its own elements, each kept one, in their order.
SiftedFrom(q, keep, r) ==
  /\ Len(r) <= Len(q)
  /\ \A i \in 1..Len(q) : q[i] \in keep => \E k \in 1..Len(r) : r[k] = q[i]
  /\ \A k \in 1..Len(r) : r[k] \in keep
  /\ \E at \in [1..Len(r) -> 1..Len(q)] :
       /\ \A k \in 1..Len(r) : r[k] = q[at[k]]
       /\ \A k, l \in 1..Len(r) : k # l => at[k] # at[l]

LEMMA SiftedKeeps ==
  ASSUME NEW S, NEW q, q \in Seq(S), NEW keep, NEW r, r = Sifted(q, keep)
  PROVE  r \in Seq(S) /\ SiftedFrom(q, keep, r)
<1> DEFINE places == {i \in 1..Len(q) : q[i] \in keep}
           m == Cardinality(places)
<1>1. places \in SUBSET (1..Len(q)) /\ Len(q) \in Nat /\ DOMAIN q = 1..Len(q)
  OBVIOUS
<1>2. r = [k \in 1..m |-> q[Place(places, k)]]
  BY <1>1 DEF Sifted
<1>3. \A i \in places : q[i] \in S /\ q[i] \in keep
  OBVIOUS
<1>a. \A i \in 1..Len(q) : q[i] \in keep => i \in places
  OBVIOUS
<1> HIDE DEF places
<1>4. /\ m \in 0..Len(q)
      /\ \A k \in 1..m :
           Place(places, k) \in places /\ Cardinality({j \in places : j <= Place(places, k)}) = k
      /\ \A i \in places : \E k \in 1..m : Place(places, k) = i
  BY <1>1, PlacesRank
<1> HIDE DEF m
<1>5. r \in [1..m -> S] /\ m \in Nat
  <2>1. \A k \in 1..m : q[Place(places, k)] \in S
    BY <1>3, <1>4
  <2>2. m \in Nat
    BY <1>1, <1>4
  <2> QED BY <1>2, <2>1, <2>2
<1>6. r \in Seq(S) /\ Len(r) = m
  BY <1>5
<1>7. \A k \in 1..m : r[k] = q[Place(places, k)] /\ r[k] \in keep
  <2> TAKE k \in 1..m
  <2>1. Place(places, k) \in places
    BY <1>4
  <2>2. r[k] = q[Place(places, k)]
    BY <1>2
  <2> QED BY <1>3, <2>1, <2>2
<1>8. ASSUME NEW i \in 1..Len(q), q[i] \in keep
      PROVE  \E k \in 1..m : r[k] = q[i]
  BY <1>4, <1>7, <1>8, <1>a
<1> DEFINE at == [k \in 1..m |-> Place(places, k)]
<1>9. at \in [1..m -> 1..Len(q)] /\ \A k \in 1..m : at[k] = Place(places, k)
  BY <1>1, <1>4
<1>10. \A k, l \in 1..m : k # l => at[k] # at[l]
  BY <1>4, <1>9
<1> HIDE DEF at
<1>11. \A k \in 1..m : r[k] = q[at[k]]
  BY <1>7, <1>9
<1>12. \E p \in [1..m -> 1..Len(q)] :
         /\ \A k \in 1..m : r[k] = q[p[k]]
         /\ \A k, l \in 1..m : k # l => p[k] # p[l]
  BY <1>9, <1>10, <1>11
<1>13. m <= Len(q)
  BY <1>1, <1>4
<1>14. \A i \in 1..Len(q) : q[i] \in keep => \E k \in 1..m : r[k] = q[i]
  BY <1>8
<1> QED BY <1>6, <1>7, <1>12, <1>13, <1>14, SMTT(40) DEF SiftedFrom

\* A set of numbers that is not empty has a least one.
LEMMA NatLeast ==
  ASSUME NEW I \in SUBSET Nat, I # {}
  PROVE  \E i \in I : \A j \in I : i <= j
<1> DEFINE R == {ss \in Nat \X Nat : ss[1] < ss[2]}
<1>1. IsWellFoundedOn(R, Nat)
  BY NatLessThanWellFounded DEF OpToRel
<1>2. PICK i \in I : \A j \in I : ~(<<j, i>> \in R)
  <2> HIDE DEF R
  <2> QED BY <1>1, WFMin
<1>3. ASSUME NEW j \in I PROVE i <= j
  <2>1. i \in Nat /\ j \in Nat
    OBVIOUS
  <2>2. ASSUME j < i PROVE <<j, i>> \in R
    <3>1. <<j, i>> \in Nat \X Nat /\ <<j, i>>[1] = j /\ <<j, i>>[2] = i
      BY <2>1
    <3> QED BY <3>1, <2>2
  <2> QED BY <1>2, <2>1, <2>2
<1> QED BY <1>3

------------------------------------------------------------------------------
(***************************************************************************)
(* The tracks of a source (SourceTracks).                                  *)
(***************************************************************************)
\* The tracks and peers there can be, and the records that name them.
Handles == Handle \cup {NoHandle}
PeerIds == [uuid : Publishers, generation : 1..MaxGenerations]

ManagerSlots == [TrackTypes -> [track : Handles, revision : Nat]]
KnownPeers == [generation : 0..MaxGenerations, state : {"absent", "connecting", "connected"},
               sequence : Nat, slots : ManagerSlots]
Told == [kind : {"connected", "disconnected", "cleanup", "bye", "open", "slot", "control"},
         uuid : Publishers, generation : 1..MaxGenerations, sequence : Nat,
         type : TrackTypes, revision : Nat, track : Handles, retired : Handles,
         what : {"audio", "video"}, value : BOOLEAN, target : Publishers \cup {NoPublisher}]
Seen == [generation : 0..MaxGenerations, terminal : BOOLEAN, message : Nat, open : Nat]
Positions == [TrackTypes -> [Publishers -> [generation : Nat, revision : Nat]]]
Sources == [slots : [TrackTypes -> SlotOrEmpty], pending : Seq(Bundle),
            seen : [Publishers -> Seen], position : Positions,
            mutes : [Publishers -> [1..MaxGenerations -> Mutes]],
            shown : Mutes, audible : BOOLEAN, wired : SUBSET Handle, output : BOOLEAN,
            connected : BOOLEAN, retry : RetryState]

\* The parts of the state of a source that say whose tracks it plays.
OneOwner(s) ==
  \A t, u \in TrackTypes : s.slots[t] # EmptySlot /\ s.slots[u] # EmptySlot =>
    /\ s.slots[t].uuid = s.slots[u].uuid
    /\ s.slots[t].generation = s.slots[u].generation

\* A handle has one place.
Apart(s) ==
  /\ \A t, u \in TrackTypes :
       t # u /\ s.slots[t].track = s.slots[u].track => s.slots[t].track = NoHandle
  /\ \A t, u \in TrackTypes : \A i \in 1..Len(s.pending) :
       s.slots[t].track = s.pending[i].tracks[u] => s.slots[t].track = NoHandle
  /\ \A t, u \in TrackTypes : \A i, j \in 1..Len(s.pending) :
       (i # j \/ t # u) /\ s.pending[i].tracks[t] = s.pending[j].tracks[u]
         => s.pending[i].tracks[t] = NoHandle

\* A bundle holds something to play, and a peer has one.
Playable(b) ==
  /\ \E t \in TrackTypes : b.tracks[t] # NoHandle
  /\ \A t \in TrackTypes : b.tracks[t] # NoHandle => b.tracks[t].playable

\* Two bundles are of two peers, and each has something to play.
BundlesOK(s) ==
  /\ \A i \in 1..Len(s.pending) : Playable(s.pending[i])
  /\ \A i, j \in 1..Len(s.pending) : Is(s.pending[i], s.pending[j]) => i = j

\* The source heard of this generation of a publisher last, and not of its end.
Live(s, x) == LET seen == s.seen[x.uuid]
              IN seen.generation = x.generation /\ ~seen.terminal
AllLive(s) ==
  /\ \A t \in TrackTypes : s.slots[t] # EmptySlot => Live(s, s.slots[t])
  /\ \A i \in 1..Len(s.pending) : Live(s, s.pending[i])

\* Callbacks are set on the tracks of the slots, and on no other.
WiresOK(s) == s.wired = {s.slots[t].track : t \in Occupied(s)}

\* A bundle waits only while another peer owns the slots.
Awaits(s) == s.pending # <<>> => HasOwner(s)

\* The owner's mutes are those that are shown.
ShownOK(s) ==
  HasOwner(s) => LET owner == OwnerSlot(s)
                     mutes == s.mutes[owner.uuid][owner.generation]
                 IN /\ s.shown = mutes
                    /\ s.audible => s.slots["audio"] # EmptySlot /\ ~mutes.audio

\* What every helper keeps, and what holds between two handlers.
Base(s) == s \in Sources /\ OneOwner(s) /\ Apart(s) /\ BundlesOK(s)
Settled(s) == Base(s) /\ WiresOK(s) /\ AllLive(s) /\ Awaits(s) /\ ShownOK(s)

\* An event of a slot names a track that comes or one that goes.
EventOK(e) ==
  /\ e \in Told
  /\ e.kind = "slot" => /\ e.track = NoHandle => e.retired # NoHandle
                        /\ e.track # NoHandle /\ e.type # "video" => e.track.playable
Arrives(e) == e.kind = "slot" /\ e.track # NoHandle

\* A track that was created reaches the source once.
WireOK ==
  /\ \A e \in wire : EventOK(e)
  /\ \A e \in wire : Arrives(e) => e.track.n <= created /\ ~InUse(source, e.track)
  /\ \A e, f \in wire : Arrives(e) /\ Arrives(f) /\ e.track = f.track => e = f
  /\ \A h \in Handle : InUse(source, h) => h.n <= created

\* A peer that the manager has was given a generation.
ManagerOK ==
  /\ manager \in [Publishers -> KnownPeers]
  /\ \A p \in Publishers :
       manager[p].state # "absent" => manager[p].generation # 0

\* The inductive invariant.
TracksInv ==
  /\ Settled(source) /\ WireOK /\ ManagerOK /\ created \in Nat
  /\ control \in Control /\ sig \in {"off", "opening", "up"}

\* A peer, and whether the source has media of it.
PeerIs(id) == id.uuid \in Publishers /\ id.generation \in 1..MaxGenerations
Known(s, x) == \/ \E t \in TrackTypes : Is(s.slots[t], x)
               \/ \E i \in 1..Len(s.pending) : Is(s.pending[i], x)

\* What a step leaves alone, and what it may add.
SameMedia(s, r) == r.slots = s.slots /\ r.pending = s.pending /\ r.wired = s.wired
                   /\ r.seen = s.seen

\* What is noted of the peers and shown of the owner.
KeepsNotes(s, r) == /\ r.seen = s.seen /\ r.mutes = s.mutes
                    /\ r.shown = s.shown /\ r.audible = s.audible

\* No other peer, and no other track.
Shrinks(s, r) == /\ \A x \in PeerIds : Known(r, x) => Known(s, x)
                 /\ \A h \in Handle : InUse(r, h) => InUse(s, h)
\* The handles with callbacks are those of the slots, whatever holds of h.
Wires(s, h) ==
  \A x \in Handle : x # h =>
    (x \in s.wired <=> \E t \in TrackTypes : x = s.slots[t].track)

\* It may be that one track has lost its slot, and not yet its callbacks.
KeepsWires(s, r) == \A h \in Handles : Wires(s, h) => Wires(r, h)

\* One peer and one track more.
Grows(s, r, id, track) ==
  /\ \A x \in PeerIds : Known(r, x) => Known(s, x) \/ Is(x, id)
  /\ \A h \in Handle : InUse(r, h) => InUse(s, h) \/ h = track

\* A slot is empty or holds a track of a peer.
LEMMA SlotFacts ==
  ASSUME NEW s, s \in Sources, NEW t \in TrackTypes
  PROVE  /\ s.slots[t] \in SlotOrEmpty
         /\ s.slots[t] = EmptySlot <=> s.slots[t].track = NoHandle
         /\ s.slots[t] # EmptySlot =>
              /\ s.slots[t].track \in Handle /\ s.slots[t].uuid \in Publishers
              /\ s.slots[t].generation \in 1..MaxGenerations
         /\ NoHandle \notin Handle /\ EmptySlot.track = NoHandle
         /\ EmptySlot.generation = 0
<1>1. s.slots[t] \in SlotOrEmpty
  BY DEF Sources
<1>2. NoHandle \notin Handle
  BY DEF Handle, NoHandle
<1>3. EmptySlot.track = NoHandle /\ EmptySlot.generation = 0
  BY DEF EmptySlot
<1> QED BY <1>1, <1>2, <1>3 DEF SlotOrEmpty, TrackSlot

\* The owner is whoever has a slot.
LEMMA OwnerFacts ==
  ASSUME NEW s, s \in Sources
  PROVE  /\ HasOwner(s) <=> OwnerSlot(s) # EmptySlot
         /\ HasOwner(s) <=> \E t \in TrackTypes : s.slots[t] # EmptySlot
         /\ \A t \in TrackTypes : t \in Occupied(s) <=> s.slots[t] # EmptySlot
         /\ \E t \in TrackTypes : OwnerSlot(s) = s.slots[t]
<1>1. TrackTypes = {"video", "alpha", "audio"}
  BY DEF TrackTypes
<1>2. \A t \in TrackTypes : t \in Occupied(s) <=> s.slots[t] # EmptySlot
  BY DEF Occupied
<1> QED BY <1>1, <1>2 DEF HasOwner, OwnerSlot, Occupied

\* With no exception, the callbacks are those of the slots.
LEMMA WiresAre ==
  ASSUME NEW s, s \in Sources
  PROVE  WiresOK(s) <=> Wires(s, NoHandle)
<1>1. \A t \in TrackTypes : t \in Occupied(s) => s.slots[t].track \in Handle
  BY SlotFacts, OwnerFacts
<1>2. \A t \in TrackTypes : s.slots[t].track \in Handle => t \in Occupied(s)
  BY SlotFacts, OwnerFacts
<1>3. \A x \in Handle : x # NoHandle
  BY DEF Handle, NoHandle
<1>4. s.wired \in SUBSET Handle
  BY DEF Sources
<1>5. \A t \in Occupied(s) : t \in TrackTypes
  BY DEF Occupied
<1>6. ASSUME WiresOK(s) PROVE Wires(s, NoHandle)
  BY <1>1, <1>2, <1>5, <1>6 DEF WiresOK, Wires
<1>7. ASSUME Wires(s, NoHandle) PROVE WiresOK(s)
  <2>1. \A x : x \in s.wired => \E t \in Occupied(s) : x = s.slots[t].track
    BY <1>2, <1>3, <1>4, <1>7 DEF Wires
  <2>2. \A t \in Occupied(s) : s.slots[t].track \in s.wired
    BY <1>1, <1>3, <1>5, <1>7 DEF Wires
  <2> QED BY <2>1, <2>2 DEF WiresOK
<1> QED BY <1>6, <1>7

\* The mute state of the owner is published.
LEMMA PublishedOK ==
  ASSUME NEW s, Base(s), NEW r, r = Published(s)
  PROVE  r \in Sources /\ SameMedia(s, r) /\ r.mutes = s.mutes /\ ShownOK(r)
<1>1. s \in Sources /\ OneOwner(s)
  BY DEF Base
<1> DEFINE owner == OwnerSlot(s)
           state == IF owner = EmptySlot THEN Unmuted ELSE s.mutes[owner.uuid][owner.generation]
           audible == s.slots["audio"] # EmptySlot /\ Is(s.slots["audio"], owner) /\ ~state.audio
<1>2. r = [s EXCEPT !.shown = state, !.audible = audible]
  BY DEF Published
<1>3. state \in Mutes
  <2>1. CASE owner = EmptySlot
    BY <2>1 DEF Unmuted, Mutes
  <2>2. CASE owner # EmptySlot
    <3>1. owner.uuid \in Publishers /\ owner.generation \in 1..MaxGenerations
      BY <1>1, <2>2, OwnerFacts, SlotFacts
    <3> QED BY <1>1, <2>2, <3>1 DEF Sources
  <2> QED BY <2>1, <2>2
<1>4. audible \in BOOLEAN
  OBVIOUS
<1>5. HasOwner(s) => state = s.mutes[owner.uuid][owner.generation]
  BY <1>1, OwnerFacts
<1>6. audible => s.slots["audio"] # EmptySlot /\ ~state.audio
  OBVIOUS
<1> HIDE DEF state, audible
<1>7. /\ r \in Sources /\ r.shown = state /\ r.audible = audible /\ SameMedia(s, r)
      /\ r.mutes = s.mutes
  BY <1>1, <1>2, <1>3, <1>4 DEF Sources, SameMedia
<1>8. HasOwner(r) = HasOwner(s) /\ OwnerSlot(r) = owner
  BY <1>7 DEF SameMedia, HasOwner, Occupied, OwnerSlot
<1> QED BY <1>5, <1>6, <1>7, <1>8 DEF ShownOK, SameMedia

\* A step that leaves the tracks alone keeps what is said of them.
LEMMA SameMediaKeeps ==
  ASSUME NEW s, NEW r, Base(s), r \in Sources, SameMedia(s, r)
  PROVE  /\ Base(r) /\ HasOwner(r) = HasOwner(s) /\ Shrinks(s, r)
         /\ KeepsWires(s, r)
         /\ AllLive(s) => AllLive(r)
         /\ Awaits(s) => Awaits(r)
         /\ KeepsNotes(s, r) => (ShownOK(s) => ShownOK(r))
<1>1. r.slots = s.slots /\ r.pending = s.pending /\ r.wired = s.wired
      /\ r.seen = s.seen
  BY DEF SameMedia
<1>2. /\ Occupied(r) = Occupied(s) /\ OwnerSlot(r) = OwnerSlot(s)
      /\ HasOwner(r) = HasOwner(s)
  BY <1>1 DEF Occupied, OwnerSlot, HasOwner
<1>3. OneOwner(r) /\ Apart(r) /\ BundlesOK(r)
  BY <1>1, <1>2 DEF Base, OneOwner, Apart, BundlesOK
<1>4. Shrinks(s, r) /\ KeepsWires(s, r)
  BY <1>1 DEF Shrinks, Known, InUse, KeepsWires, Wires
<1>5. /\ AllLive(s) => AllLive(r)
      /\ Awaits(s) => Awaits(r)
      /\ KeepsNotes(s, r) => (ShownOK(s) => ShownOK(r))
  BY <1>1, <1>2 DEF AllLive, Live, Awaits, ShownOK, KeepsNotes
<1> QED BY <1>2, <1>3, <1>4, <1>5 DEF Base

\* A retry is scheduled or cancelled.
LEMMA CancelledOK ==
  ASSUME NEW q \in RetryState
  PROVE  RetryCancelled(q) \in RetryState /\ RetryScheduled(q) \in RetryState
BY DEF RetryCancelled, RetryScheduled, RetryState

\* The source counts as connected.
LEMMA MarkedOK ==
  ASSUME NEW s, s \in Sources, NEW id, NEW r, r = MarkedConnected(s, id)
  PROVE  r \in Sources /\ SameMedia(s, r) /\ KeepsNotes(s, r)
<1>1. r = s \/ r = [s EXCEPT !.connected = TRUE, !.retry = RetryCancelled(s.retry)]
  BY DEF MarkedConnected
<1>2. RetryCancelled(s.retry) \in RetryState
  BY CancelledOK DEF Sources
<1>3. CASE r = s
  BY <1>3 DEF SameMedia, KeepsNotes
<1>4. CASE r # s
  BY <1>1, <1>2, <1>4 DEF Sources, SameMedia, KeepsNotes
<1> QED BY <1>3, <1>4

\* A track of another peer than the owner goes into the bundle of its peer.
LEMMA DeferredOK ==
  ASSUME NEW s, Base(s), NEW id, PeerIs(id), NEW type \in TrackTypes,
         NEW track \in Handle, track.playable, ~InUse(s, track),
         NEW r, r = Deferred(s, id, type, track)
  PROVE  /\ Base(r) /\ r.slots = s.slots /\ KeepsNotes(s, r) /\ KeepsWires(s, r)
         /\ Grows(s, r, id, track)
<1>1. s \in Sources /\ OneOwner(s) /\ Apart(s) /\ BundlesOK(s)
      /\ s.pending \in Seq(Bundle) /\ Len(s.pending) \in Nat
  BY DEF Base, Sources
<1>n. track # NoHandle /\ NoHandle \in Handles /\ track \in Handles
  BY DEF Handle, NoHandle, Handles
<1>2. ASSUME NEW q, r = [s EXCEPT !.pending = q], q \in Seq(Bundle)
      PROVE  /\ r \in Sources /\ r.slots = s.slots /\ r.pending = q
             /\ r.wired = s.wired
             /\ KeepsNotes(s, r) /\ OneOwner(r) /\ KeepsWires(s, r)
  <2>1. /\ r \in Sources /\ r.slots = s.slots /\ r.pending = q /\ r.wired = s.wired
        /\ KeepsNotes(s, r)
    BY <1>1, <1>2 DEF Sources, KeepsNotes
  <2> QED BY <1>1, <2>1 DEF OneOwner, KeepsWires, Wires
<1>3. CASE \E i \in 1..Len(s.pending) : Is(s.pending[i], id)
  <2> DEFINE q == [i \in 1..Len(s.pending) |->
                     IF Is(s.pending[i], id)
                     THEN [s.pending[i] EXCEPT !.tracks[type] = track]
                     ELSE s.pending[i]]
  <2>1. r = [s EXCEPT !.pending = q]
    BY <1>3 DEF Deferred
  <2>2. \A i \in 1..Len(s.pending) :
          /\ q[i] \in Bundle /\ q[i].uuid = s.pending[i].uuid
          /\ q[i].generation = s.pending[i].generation
          /\ \A t \in TrackTypes : q[i].tracks[t] =
               IF Is(s.pending[i], id) /\ t = type THEN track ELSE s.pending[i].tracks[t]
    <3> TAKE i \in 1..Len(s.pending)
    <3>1. s.pending[i] \in Bundle
      BY <1>1
    <3>2. q[i] = IF Is(s.pending[i], id)
                 THEN [s.pending[i] EXCEPT !.tracks[type] = track] ELSE s.pending[i]
      OBVIOUS
    <3> HIDE DEF q
    <3> QED BY <1>n, <3>1, <3>2 DEF Bundle, Handles
  <2>b. DOMAIN q = 1..Len(s.pending) /\ q = [i \in 1..Len(s.pending) |-> q[i]]
    OBVIOUS
  <2> HIDE DEF q
  <2>c. q \in [1..Len(s.pending) -> Bundle]
    BY <2>2, <2>b
  <2>3. q \in Seq(Bundle) /\ Len(q) = Len(s.pending)
    BY <1>1, <2>c
  <2>4. /\ r \in Sources /\ r.slots = s.slots /\ r.pending = q /\ r.wired = s.wired
        /\ KeepsNotes(s, r) /\ OneOwner(r) /\ KeepsWires(s, r)
    BY <1>2, <2>1, <2>3
  <2>5. \A i, j \in 1..Len(s.pending) :
          Is(s.pending[i], id) /\ Is(s.pending[j], id) => i = j
    BY <1>1 DEF BundlesOK, Is
  <2>6. /\ \A t \in TrackTypes : s.slots[t].track # track
        /\ \A i \in 1..Len(s.pending) :
             \A t \in TrackTypes : s.pending[i].tracks[t] # track
    BY DEF InUse
  <2>7. Apart(r)
    <3>1. \A t, u \in TrackTypes : \A i \in 1..Len(q) :
            s.slots[t].track = q[i].tracks[u] => s.slots[t].track = NoHandle
      BY <1>1, <2>2, <2>3, <2>6 DEF Apart
    <3>2. \A t, u \in TrackTypes : \A i, j \in 1..Len(q) :
            (i # j \/ t # u) /\ q[i].tracks[t] = q[j].tracks[u] => q[i].tracks[t] = NoHandle
      BY <1>1, <2>2, <2>3, <2>5, <2>6 DEF Apart
    <3> QED BY <1>1, <2>4, <3>1, <3>2 DEF Apart
  <2>8. BundlesOK(r)
    <3>1. \A i \in 1..Len(q) : Playable(q[i])
      BY <1>1, <1>n, <2>2, <2>3 DEF BundlesOK, Playable
    <3>2. \A i, j \in 1..Len(q) : Is(q[i], q[j]) => i = j
      BY <1>1, <2>2, <2>3 DEF BundlesOK, Is
    <3> QED BY <2>4, <3>1, <3>2 DEF BundlesOK
  <2>9. Grows(s, r, id, track)
    <3>1. \A x \in PeerIds : Known(r, x) => Known(s, x)
      BY <2>2, <2>3, <2>4 DEF Known, Is
    <3>2. \A h \in Handle : InUse(r, h) => InUse(s, h) \/ h = track
      BY <2>2, <2>3, <2>4 DEF InUse
    <3> QED BY <3>1, <3>2 DEF Grows
  <2> QED BY <2>4, <2>7, <2>8, <2>9 DEF Base
<1>4. CASE ~ \E i \in 1..Len(s.pending) : Is(s.pending[i], id)
  <2> DEFINE b == [uuid |-> id.uuid, generation |-> id.generation,
                   tracks |-> [t \in TrackTypes |-> IF t = type THEN track ELSE NoHandle]]
  <2>1. r = [s EXCEPT !.pending = Append(s.pending, b)]
    BY <1>4 DEF Deferred
  <2>2. /\ b \in Bundle /\ b.uuid = id.uuid /\ b.generation = id.generation
        /\ \A t \in TrackTypes :
             b.tracks[t] = IF t = type THEN track ELSE NoHandle
    BY <1>n DEF Bundle, PeerIs
  <2> HIDE DEF b
  <2> DEFINE q == Append(s.pending, b)
             n == Len(s.pending)
  <2>3. /\ q \in Seq(Bundle) /\ Len(q) = n + 1 /\ q[n + 1] = b
        /\ \A i \in 1..n : q[i] = s.pending[i]
    BY <1>1, <2>2
  <2>a. \A i \in 1..Len(q) : i \in 1..n \/ i = n + 1
    BY <1>1, <2>3
  <2>4. /\ r \in Sources /\ r.slots = s.slots /\ r.pending = q /\ r.wired = s.wired
        /\ KeepsNotes(s, r) /\ OneOwner(r) /\ KeepsWires(s, r)
    BY <1>2, <2>1, <2>3
  <2> HIDE DEF q, n
  <2>6. /\ \A t \in TrackTypes : s.slots[t].track # track
        /\ \A i \in 1..n :
             \A t \in TrackTypes : s.pending[i].tracks[t] # track
    BY DEF InUse, n
  <2>7. Apart(r)
    <3>1. \A t, u \in TrackTypes : \A i \in 1..Len(q) :
            s.slots[t].track = q[i].tracks[u] => s.slots[t].track = NoHandle
      BY <1>1, <2>2, <2>3, <2>6, <2>a DEF Apart, n
    <3>2. \A t, u \in TrackTypes : \A i, j \in 1..Len(q) :
            (i # j \/ t # u) /\ q[i].tracks[t] = q[j].tracks[u] => q[i].tracks[t] = NoHandle
      <4> TAKE t, u \in TrackTypes
      <4> TAKE i, j \in 1..Len(q)
      <4>1. CASE i \in 1..n /\ j \in 1..n
        BY <1>1, <2>3, <4>1, SMTT(40) DEF Apart, n
      <4>2. CASE i = n + 1 \/ j = n + 1
        BY <1>n, <2>2, <2>3, <2>6, <2>a, <4>2
      <4> QED BY <2>a, <4>1, <4>2
    <3> QED BY <1>1, <2>4, <3>1, <3>2 DEF Apart
  <2>8. BundlesOK(r)
    <3>1. \A i \in 1..Len(q) : Playable(q[i])
      <4> TAKE i \in 1..Len(q)
      <4>1. CASE i \in 1..n
        BY <1>1, <2>3, <4>1 DEF BundlesOK, n
      <4>2. CASE i = n + 1
        BY <1>n, <2>2, <2>3, <4>2 DEF Playable
      <4> QED BY <2>a, <4>1, <4>2
    <3>2. \A i, j \in 1..Len(q) : Is(q[i], q[j]) => i = j
      <4> TAKE i, j \in 1..Len(q)
      <4>1. CASE i \in 1..n /\ j \in 1..n
        BY <1>1, <2>3, <4>1 DEF BundlesOK, n
      <4>2. CASE i = n + 1 \/ j = n + 1
        BY <1>4, <2>2, <2>3, <2>a, <4>2 DEF Is, n
      <4> QED BY <2>a, <4>1, <4>2
    <3> QED BY <2>4, <3>1, <3>2 DEF BundlesOK
  <2>9. Grows(s, r, id, track)
    <3>1. \A x \in PeerIds : Known(r, x) => Known(s, x) \/ Is(x, id)
      BY <2>2, <2>3, <2>4, <2>a DEF Known, Is, n
    <3>2. \A h \in Handle : InUse(r, h) => InUse(s, h) \/ h = track
      <4> SUFFICES ASSUME NEW h \in Handle, InUse(r, h), h # track PROVE InUse(s, h)
        OBVIOUS
      <4>1. h # NoHandle
        BY DEF Handle, NoHandle
      <4> QED BY <2>2, <2>3, <2>4, <2>a, <4>1 DEF InUse, n
    <3> QED BY <3>1, <3>2 DEF Grows
  <2> QED BY <2>4, <2>7, <2>8, <2>9 DEF Base
<1> QED BY <1>3, <1>4

\* A track of the owner takes its slot, and the callbacks move to it.
LEMMA AttachedOK ==
  ASSUME NEW s, Base(s), NEW id, PeerIs(id), NEW type \in TrackTypes,
         NEW track \in Handle, track.playable, ~InUse(s, track),
         NEW r, r = Attached(s, id, type, track)
  PROVE  /\ Base(r) /\ KeepsNotes(s, r) /\ KeepsWires(s, r)
         /\ Grows(s, r, id, track) /\ HasOwner(r)
<1>1. s \in Sources /\ OneOwner(s) /\ Apart(s) /\ BundlesOK(s)
  BY DEF Base
<1>n. track # NoHandle
  BY DEF Handle, NoHandle
<1>2. /\ \A t \in TrackTypes : s.slots[t].track # track
      /\ \A i \in 1..Len(s.pending) :
           \A t \in TrackTypes : s.pending[i].tracks[t] # track
  BY DEF InUse
<1>3. CASE OtherOwner(s, id)
  <2>1. r = Deferred(s, id, type, track)
    BY <1>2, <1>3 DEF Attached
  <2>2. /\ Base(r) /\ r.slots = s.slots /\ KeepsNotes(s, r) /\ KeepsWires(s, r)
        /\ Grows(s, r, id, track)
    BY <2>1, DeferredOK
  <2>3. HasOwner(s)
    BY <1>1, <1>3, OwnerFacts DEF OtherOwner
  <2> QED BY <2>2, <2>3 DEF HasOwner, Occupied
<1>4. CASE ~OtherOwner(s, id)
  <2> DEFINE new == [track |-> track, uuid |-> id.uuid, generation |-> id.generation]
             slots == [s.slots EXCEPT ![type] = new]
             wired == (s.wired \ {s.slots[type].track}) \cup {track}
             output == s.output \/ type # "audio"
  <2>1. r = [s EXCEPT !.slots = slots, !.wired = wired, !.output = output]
    BY <1>1, <1>2, <1>4 DEF Attached, Sources
  <2>2. /\ new \in TrackSlot /\ new.track = track /\ Is(new, id) /\ new # EmptySlot
        /\ new.uuid = id.uuid /\ new.generation = id.generation
    BY <1>n DEF TrackSlot, PeerIs, Is, EmptySlot
  <2>3. /\ slots \in [TrackTypes -> SlotOrEmpty] /\ slots[type] = new
        /\ \A t \in TrackTypes : t # type => slots[t] = s.slots[t]
    BY <1>1, <2>2 DEF Sources, SlotOrEmpty
  <2>4. wired \in SUBSET Handle /\ output \in BOOLEAN
    BY <1>1 DEF Sources
  <2>w. \A h : h \in wired <=> (h \in s.wired /\ h # s.slots[type].track) \/ h = track
    OBVIOUS
  <2> HIDE DEF new, slots, wired, output
  <2>5. /\ r \in Sources /\ r.slots = slots /\ r.wired = wired
        /\ r.pending = s.pending
        /\ KeepsNotes(s, r)
    BY <1>1, <2>1, <2>3, <2>4 DEF Sources, KeepsNotes
  <2>6. OneOwner(r)
    <3>1. \A t \in TrackTypes : s.slots[t] # EmptySlot =>
            s.slots[t].uuid = id.uuid /\ s.slots[t].generation = id.generation
      <4> SUFFICES ASSUME NEW t \in TrackTypes, s.slots[t] # EmptySlot
                   PROVE  /\ s.slots[t].uuid = id.uuid
                          /\ s.slots[t].generation = id.generation
        OBVIOUS
      <4>1. OwnerSlot(s) # EmptySlot /\ Is(OwnerSlot(s), id)
        BY <1>1, <1>4, OwnerFacts DEF OtherOwner
      <4>2. PICK u \in TrackTypes : OwnerSlot(s) = s.slots[u]
        BY <1>1, OwnerFacts
      <4> QED BY <1>1, <4>1, <4>2 DEF OneOwner, Is
    <3>2. \A t \in TrackTypes : r.slots[t] # EmptySlot =>
            r.slots[t].uuid = id.uuid /\ r.slots[t].generation = id.generation
      BY <2>2, <2>3, <2>5, <3>1
    <3> QED BY <3>2 DEF OneOwner
  <2>7. Apart(r)
    BY <1>1, <1>2, <2>2, <2>3, <2>5 DEF Apart
  <2>8. BundlesOK(r)
    BY <1>1, <2>5 DEF BundlesOK
  <2>9. KeepsWires(s, r)
    <3> SUFFICES ASSUME NEW h \in Handles, Wires(s, h), NEW x \in Handle, x # h
                 PROVE  x \in wired <=> \E t \in TrackTypes : x = slots[t].track
      BY <2>5 DEF KeepsWires, Wires
    <3>1. x \in s.wired <=> \E t \in TrackTypes : x = s.slots[t].track
      BY DEF Wires
    <3>2. x # NoHandle
      BY DEF Handle, NoHandle
    <3>3. \A t \in TrackTypes :
            x = s.slots[t].track /\ x = s.slots[type].track => t = type
      BY <1>1, <3>2 DEF Apart
    <3> QED BY <2>2, <2>3, <2>w, <3>1, <3>3
  <2>10. Grows(s, r, id, track)
    <3>1. \A x \in PeerIds : Known(r, x) => Known(s, x) \/ Is(x, id)
      BY <2>2, <2>3, <2>5 DEF Known, Is
    <3>2. \A h \in Handle : InUse(r, h) => InUse(s, h) \/ h = track
      BY <2>2, <2>3, <2>5 DEF InUse
    <3> QED BY <3>1, <3>2 DEF Grows
  <2>11. HasOwner(r)
    BY <2>2, <2>3, <2>5, OwnerFacts
  <2> QED BY <2>5, <2>6, <2>7, <2>8, <2>9, <2>10, <2>11 DEF Base
<1> QED BY <1>3, <1>4

\* Either happens, or the track is not wanted.
LEMMA OnTrackOK ==
  ASSUME NEW s, Base(s), NEW id, PeerIs(id), NEW type \in TrackTypes,
         NEW track \in Handle, type # "video" => track.playable, ~InUse(s, track),
         NEW r, r = OnTrack(s, id, type, track)
  PROVE  /\ Base(r) /\ KeepsNotes(s, r) /\ KeepsWires(s, r)
         /\ Grows(s, r, id, track)
         /\ HasOwner(s) => HasOwner(r)
         /\ track.playable => HasOwner(r)
         /\ r = s \/ HasOwner(r)
<1> DEFINE role == RoleOf(s, type, track)
<1>1. role \in TrackTypes /\ (role = "alpha" => type = "alpha")
  BY DEF RoleOf, TrackTypes
<1>2. CASE role # "alpha" /\ ~track.playable
  <2>1. r = s
    BY <1>2 DEF OnTrack
  <2> QED BY <1>2, <2>1 DEF KeepsNotes, KeepsWires, Grows
<1>3. CASE ~(role # "alpha" /\ ~track.playable)
  <2>1. r = Attached(s, id, role, track)
    BY <1>3 DEF OnTrack
  <2>2. track.playable
    BY <1>1, <1>3
  <2> HIDE DEF role
  <2> QED BY <1>1, <2>1, <2>2, AttachedOK
<1> QED BY <1>2, <1>3

\* The handler of a track also marks the source.
LEMMA OnTrackAndMarkOK ==
  ASSUME NEW s, Base(s), NEW id, PeerIs(id), NEW type \in TrackTypes,
         NEW track \in Handle, type # "video" => track.playable, ~InUse(s, track),
         NEW r, r = OnTrackAndMark(s, id, type, track)
  PROVE  /\ Base(r) /\ r.seen = s.seen /\ KeepsWires(s, r) /\ Grows(s, r, id, track)
         /\ Awaits(s) => Awaits(r)
<1> DEFINE after == OnTrack(s, id, type, track)
<1>1. /\ Base(after) /\ KeepsNotes(s, after) /\ KeepsWires(s, after)
      /\ Grows(s, after, id, track)
      /\ after = s \/ HasOwner(after)
  BY OnTrackOK
<1>2. Awaits(s) => Awaits(after)
  BY <1>1 DEF Awaits
<1>3. r = after \/ r = MarkedConnected(after, id)
  BY DEF OnTrackAndMark
<1> HIDE DEF after
<1>4. CASE r = after
  BY <1>1, <1>2, <1>4 DEF KeepsNotes
<1>5. CASE r = MarkedConnected(after, id)
  <2>1. r \in Sources /\ SameMedia(after, r)
    BY <1>1, <1>5, MarkedOK DEF Base
  <2>2. /\ Base(r) /\ Shrinks(after, r) /\ KeepsWires(after, r)
        /\ Awaits(after) => Awaits(r)
    BY <1>1, <2>1, SameMediaKeeps
  <2>3. Grows(s, r, id, track) /\ KeepsWires(s, r)
    BY <1>1, <2>2 DEF Grows, Shrinks, KeepsWires
  <2>4. r.seen = s.seen
    BY <1>1, <2>1 DEF SameMedia, KeepsNotes
  <2> QED BY <1>2, <2>2, <2>3, <2>4
<1> QED BY <1>3, <1>4, <1>5

\* The end of adoptNextPendingPeerBundleIfOwnerless for one track.
TakeFrom(s, b, type) ==
  IF b.tracks[type] = NoHandle THEN s ELSE OnTrack(s, b, type, b.tracks[type])

\* One track of a bundle moves in.
LEMMA TakeOK ==
  ASSUME NEW s, Base(s), NEW b \in Bundle, Playable(b), NEW type \in TrackTypes,
         b.tracks[type] # NoHandle => ~InUse(s, b.tracks[type]),
         NEW r, r = TakeFrom(s, b, type)
  PROVE  /\ Base(r) /\ KeepsNotes(s, r) /\ KeepsWires(s, r)
         /\ Grows(s, r, b, b.tracks[type])
         /\ HasOwner(s) \/ b.tracks[type] # NoHandle => HasOwner(r)
<1>1. PeerIs(b) /\ b.tracks[type] \in Handles
  BY DEF Bundle, PeerIs, Handles
<1>2. CASE b.tracks[type] = NoHandle
  BY <1>2 DEF TakeFrom, KeepsNotes, KeepsWires, Grows
<1>3. CASE b.tracks[type] # NoHandle
  <2>1. b.tracks[type] \in Handle /\ b.tracks[type].playable
    BY <1>1, <1>3 DEF Handles, Playable
  <2>2. r = OnTrack(s, b, type, b.tracks[type])
    BY <1>3 DEF TakeFrom
  <2> QED BY <1>1, <1>3, <2>1, <2>2, OnTrackOK
<1> QED BY <1>2, <1>3

\* The first bundle is taken, and nothing else knows its tracks.
LEMMA PoppedOK ==
  ASSUME NEW s, Base(s), s.pending # <<>>, NEW b, b = Head(s.pending),
         NEW r, r = [s EXCEPT !.pending = Tail(s.pending)]
  PROVE  /\ b \in Bundle /\ Playable(b) /\ Base(r) /\ KeepsNotes(s, r)
         /\ Shrinks(s, r)
         /\ KeepsWires(s, r)
         /\ \A x \in PeerIds : Is(x, b) => Known(s, x)
         /\ \A t \in TrackTypes : b.tracks[t] # NoHandle =>
              /\ InUse(s, b.tracks[t]) /\ ~InUse(r, b.tracks[t])
              /\ \A u \in TrackTypes : u # t => b.tracks[u] # b.tracks[t]
<1> DEFINE q == Tail(s.pending)
<1>1. s \in Sources /\ OneOwner(s) /\ Apart(s) /\ BundlesOK(s)
      /\ s.pending \in Seq(Bundle) /\ Len(s.pending) \in Nat
  BY DEF Base, Sources
<1>2. /\ q \in Seq(Bundle) /\ Len(q) = Len(s.pending) - 1 /\ Len(s.pending) >= 1
      /\ b = s.pending[1] /\ b \in Bundle
      /\ \A i \in 1..Len(q) : q[i] = s.pending[i + 1]
  BY <1>1
<1>3. /\ 1 \in 1..Len(s.pending)
      /\ \A i \in 1..Len(q) : i + 1 \in 1..Len(s.pending) /\ i + 1 # 1
  BY <1>1, <1>2
<1> HIDE DEF q
<1>4. /\ r \in Sources /\ r.slots = s.slots /\ r.pending = q /\ r.wired = s.wired
      /\ KeepsNotes(s, r)
  BY <1>1, <1>2 DEF Sources, KeepsNotes, q
<1>5. OneOwner(r) /\ KeepsWires(s, r)
  BY <1>1, <1>4 DEF OneOwner, KeepsWires, Wires
<1>6. Apart(r)
  <2>1. \A t, u \in TrackTypes : \A i \in 1..Len(q) :
          s.slots[t].track = q[i].tracks[u] => s.slots[t].track = NoHandle
    BY <1>1, <1>2, <1>3 DEF Apart
  <2>2. \A t, u \in TrackTypes : \A i, j \in 1..Len(q) :
          (i # j \/ t # u) /\ q[i].tracks[t] = q[j].tracks[u] => q[i].tracks[t] = NoHandle
    <3> TAKE t, u \in TrackTypes
    <3> TAKE i, j \in 1..Len(q)
    <3>1. i # j => i + 1 # j + 1
      OBVIOUS
    <3>2. q[i] = s.pending[i + 1] /\ q[j] = s.pending[j + 1]
          /\ i + 1 \in 1..Len(s.pending) /\ j + 1 \in 1..Len(s.pending)
      BY <1>2, <1>3
    <3> QED BY <1>1, <3>1, <3>2 DEF Apart
  <2>3. \A t, u \in TrackTypes :
          t # u /\ s.slots[t].track = s.slots[u].track => s.slots[t].track = NoHandle
    BY <1>1 DEF Apart
  <2>4. r.slots = s.slots /\ r.pending = q
    BY <1>4
  <2>5. \A t, u \in TrackTypes : \A i \in 1..Len(r.pending) :
          r.slots[t].track = r.pending[i].tracks[u] => r.slots[t].track = NoHandle
    BY <2>1, <2>4
  <2>6. \A t, u \in TrackTypes : \A i, j \in 1..Len(r.pending) :
          (i # j \/ t # u) /\ r.pending[i].tracks[t] = r.pending[j].tracks[u]
            => r.pending[i].tracks[t] = NoHandle
    BY <2>2, <2>4
  <2>7. \A t, u \in TrackTypes :
          t # u /\ r.slots[t].track = r.slots[u].track => r.slots[t].track = NoHandle
    BY <2>3, <2>4
  <2> QED BY <2>5, <2>6, <2>7 DEF Apart
<1>7. BundlesOK(r)
  <2>1. \A i \in 1..Len(q) : Playable(q[i])
    BY <1>1, <1>2, <1>3 DEF BundlesOK
  <2>2. \A i, j \in 1..Len(q) : Is(q[i], q[j]) => i = j
    <3> TAKE i, j \in 1..Len(q)
    <3>2. q[i] = s.pending[i + 1] /\ q[j] = s.pending[j + 1]
          /\ i + 1 \in 1..Len(s.pending) /\ j + 1 \in 1..Len(s.pending)
      BY <1>2, <1>3
    <3>3. i + 1 = j + 1 => i = j
      OBVIOUS
    <3> QED BY <1>1, <3>2, <3>3 DEF BundlesOK
  <2> QED BY <1>4, <2>1, <2>2 DEF BundlesOK
<1>8. Shrinks(s, r)
  BY <1>2, <1>3, <1>4 DEF Shrinks, Known, InUse
<1>9. \A x \in PeerIds : Is(x, b) => Known(s, x)
  BY <1>2, <1>3 DEF Known, Is
<1>10. Playable(b)
  BY <1>1, <1>2, <1>3 DEF BundlesOK
<1>11. ASSUME NEW t \in TrackTypes, b.tracks[t] # NoHandle
       PROVE  /\ InUse(s, b.tracks[t]) /\ ~InUse(r, b.tracks[t])
              /\ \A u \in TrackTypes : u # t => b.tracks[u] # b.tracks[t]
  <2>1. InUse(s, b.tracks[t])
    BY <1>2, <1>3 DEF InUse
  <2>2. \A u \in TrackTypes : s.slots[u].track # b.tracks[t]
    BY <1>1, <1>2, <1>3, <1>11 DEF Apart
  <2>3. \A i \in 1..Len(q) :
          \A u \in TrackTypes : q[i].tracks[u] # b.tracks[t]
    BY <1>1, <1>2, <1>3, <1>11 DEF Apart
  <2>4. \A u \in TrackTypes : u # t => b.tracks[u] # b.tracks[t]
    BY <1>1, <1>2, <1>3, <1>11 DEF Apart
  <2> QED BY <1>4, <2>1, <2>2, <2>3, <2>4 DEF InUse
<1> QED BY <1>2, <1>4, <1>5, <1>6, <1>7, <1>8, <1>9, <1>10, <1>11 DEF Base

\* Once a peer's slots are free the next bundle moves in.
LEMMA AdoptedOK ==
  ASSUME NEW s, Base(s), NEW r, r = Adopted(s)
  PROVE  /\ Base(r) /\ KeepsNotes(s, r) /\ Shrinks(s, r) /\ KeepsWires(s, r)
         /\ Awaits(r)
         /\ HasOwner(s) => r = s
<1>1. CASE ~Adopts(s)
  <2>1. r = s
    BY <1>1 DEF Adopted
  <2> QED
    BY <1>1, <2>1
    DEF Adopts, KeepsNotes, KeepsWires, Shrinks, Awaits, HasOwner
<1>2. CASE Adopts(s)
  <2> DEFINE b == Head(s.pending)
             s0 == [s EXCEPT !.pending = Tail(s.pending)]
             s1 == TakeFrom(s0, b, "video")
             s2 == TakeFrom(s1, b, "alpha")
             s3 == TakeFrom(s2, b, "audio")
  <2>1. r = s3
    BY <1>2 DEF Adopted, TakeFrom
  <2>2. s.pending # <<>> /\ ~HasOwner(s)
    BY <1>2 DEF Adopts, HasOwner
  <2>3. /\ b \in Bundle /\ Playable(b) /\ Base(s0) /\ KeepsNotes(s, s0)
        /\ Shrinks(s, s0)
        /\ KeepsWires(s, s0)
        /\ \A x \in PeerIds : Is(x, b) => Known(s, x)
        /\ \A t \in TrackTypes : b.tracks[t] # NoHandle =>
             /\ InUse(s, b.tracks[t]) /\ ~InUse(s0, b.tracks[t])
             /\ \A u \in TrackTypes : u # t => b.tracks[u] # b.tracks[t]
    BY <2>2, PoppedOK
  <2>t. /\ TrackTypes = {"video", "alpha", "audio"}
        /\ \A t \in TrackTypes : b.tracks[t] \in Handles
    BY <2>3 DEF TrackTypes, Bundle, Handles
  <2> HIDE DEF b, s0
  <2>4. /\ Base(s1) /\ KeepsNotes(s0, s1) /\ KeepsWires(s0, s1)
        /\ Grows(s0, s1, b, b.tracks["video"])
        /\ b.tracks["video"] # NoHandle => HasOwner(s1)
    BY <2>3, <2>t, TakeOK
  <2> HIDE DEF s1
  <2>5. b.tracks["alpha"] # NoHandle => ~InUse(s1, b.tracks["alpha"])
    BY <2>3, <2>4, <2>t DEF Grows, Handles
  <2>6. /\ Base(s2) /\ KeepsNotes(s1, s2) /\ KeepsWires(s1, s2)
        /\ Grows(s1, s2, b, b.tracks["alpha"])
        /\ HasOwner(s1) \/ b.tracks["alpha"] # NoHandle => HasOwner(s2)
    BY <2>3, <2>4, <2>5, <2>t, TakeOK
  <2> HIDE DEF s2
  <2>7. b.tracks["audio"] # NoHandle => ~InUse(s2, b.tracks["audio"])
    BY <2>3, <2>4, <2>6, <2>t DEF Grows, Handles
  <2>8. /\ Base(s3) /\ KeepsNotes(s2, s3) /\ KeepsWires(s2, s3)
        /\ Grows(s2, s3, b, b.tracks["audio"])
        /\ HasOwner(s2) \/ b.tracks["audio"] # NoHandle => HasOwner(s3)
    BY <2>3, <2>6, <2>7, <2>t, TakeOK
  <2> HIDE DEF s3
  <2>9. HasOwner(s3)
    BY <2>3, <2>4, <2>6, <2>8, <2>t DEF Playable
  <2>10. Shrinks(s, s3)
    <3>1. \A x \in PeerIds : Known(s3, x) => Known(s, x)
      BY <2>3, <2>4, <2>6, <2>8 DEF Grows, Shrinks
    <3>2. \A h \in Handle : InUse(s3, h) => InUse(s, h)
      <4> SUFFICES ASSUME NEW h \in Handle, InUse(s3, h) PROVE InUse(s, h)
        OBVIOUS
      <4>1. h # NoHandle
        BY DEF Handle, NoHandle
      <4>2. \/ InUse(s0, h) \/ h = b.tracks["video"]
            \/ h = b.tracks["alpha"] \/ h = b.tracks["audio"]
        BY <2>4, <2>6, <2>8 DEF Grows
      <4> QED BY <2>3, <2>t, <4>1, <4>2 DEF Shrinks
    <3> QED BY <3>1, <3>2 DEF Shrinks
  <2>11. KeepsNotes(s, s3) /\ KeepsWires(s, s3)
    <3>1. KeepsNotes(s, s3)
      BY <2>3, <2>4, <2>6, <2>8 DEF KeepsNotes
    <3>2. KeepsWires(s, s3)
      BY <2>3, <2>4, <2>6, <2>8 DEF KeepsWires
    <3> QED BY <3>1, <3>2
  <2> QED BY <2>1, <2>2, <2>8, <2>9, <2>10, <2>11 DEF Awaits
<1> QED BY <1>1, <1>2

\* Tracks and peers go, and nothing else changes.
Thins(s, r) ==
  /\ \A t \in TrackTypes : r.slots[t] = s.slots[t] \/ r.slots[t] = EmptySlot
  /\ \E at \in [1..Len(r.pending) -> 1..Len(s.pending)] :
       /\ \A k \in 1..Len(r.pending) :
            /\ Is(r.pending[k], s.pending[at[k]])
            /\ \A t \in TrackTypes : r.pending[k].tracks[t] # NoHandle =>
                 r.pending[k].tracks[t] = s.pending[at[k]].tracks[t]
       /\ \A k, l \in 1..Len(r.pending) : k # l => at[k] # at[l]

\* A handle still has one place.
LEMMA ThinOK ==
  ASSUME NEW s, NEW r, Base(s), r \in Sources, Thins(s, r),
         \A k \in 1..Len(r.pending) :
           \E t \in TrackTypes : r.pending[k].tracks[t] # NoHandle
  PROVE  Base(r) /\ Shrinks(s, r)
<1>1. /\ s \in Sources /\ OneOwner(s) /\ Apart(s) /\ BundlesOK(s)
      /\ EmptySlot.track = NoHandle
  BY DEF Base, EmptySlot
<1>2. \A t \in TrackTypes : r.slots[t] = s.slots[t] \/ r.slots[t] = EmptySlot
  BY DEF Thins
<1>3. PICK at \in [1..Len(r.pending) -> 1..Len(s.pending)] :
       /\ \A k \in 1..Len(r.pending) :
            /\ Is(r.pending[k], s.pending[at[k]])
            /\ \A t \in TrackTypes : r.pending[k].tracks[t] # NoHandle =>
                 r.pending[k].tracks[t] = s.pending[at[k]].tracks[t]
       /\ \A k, l \in 1..Len(r.pending) : k # l => at[k] # at[l]
  BY DEF Thins
<1>4. OneOwner(r)
  BY <1>1, <1>2 DEF OneOwner
<1>5. Apart(r)
  <2>1. \A t, u \in TrackTypes :
          t # u /\ r.slots[t].track = r.slots[u].track => r.slots[t].track = NoHandle
    BY <1>1, <1>2 DEF Apart
  <2>2. \A t, u \in TrackTypes : \A i \in 1..Len(r.pending) :
          r.slots[t].track = r.pending[i].tracks[u] => r.slots[t].track = NoHandle
    <3> SUFFICES ASSUME NEW t \in TrackTypes, NEW u \in TrackTypes,
                        NEW i \in 1..Len(r.pending),
                        r.slots[t].track = r.pending[i].tracks[u], r.slots[t].track # NoHandle
                 PROVE  FALSE
      OBVIOUS
    <3>1. /\ s.slots[t].track = s.pending[at[i]].tracks[u]
          /\ at[i] \in 1..Len(s.pending)
      BY <1>1, <1>2, <1>3
    <3> QED BY <1>1, <1>2, <3>1 DEF Apart
  <2>3. \A t, u \in TrackTypes : \A i, j \in 1..Len(r.pending) :
          (i # j \/ t # u) /\ r.pending[i].tracks[t] = r.pending[j].tracks[u]
            => r.pending[i].tracks[t] = NoHandle
    <3> SUFFICES ASSUME NEW t \in TrackTypes, NEW u \in TrackTypes,
                        NEW i \in 1..Len(r.pending), NEW j \in 1..Len(r.pending),
                        i # j \/ t # u, r.pending[i].tracks[t] = r.pending[j].tracks[u],
                        r.pending[i].tracks[t] # NoHandle
                 PROVE  FALSE
      OBVIOUS
    <3>1. /\ s.pending[at[i]].tracks[t] = s.pending[at[j]].tracks[u]
          /\ at[i] \in 1..Len(s.pending) /\ at[j] \in 1..Len(s.pending)
          /\ s.pending[at[i]].tracks[t] # NoHandle
      BY <1>3
    <3>2. at[i] # at[j] \/ t # u
      BY <1>3
    <3> QED BY <1>1, <3>1, <3>2 DEF Apart
  <2> QED BY <2>1, <2>2, <2>3 DEF Apart
<1>6. BundlesOK(r)
  <2>1. ASSUME NEW k \in 1..Len(r.pending) PROVE Playable(r.pending[k])
    <3>1. Playable(s.pending[at[k]])
      BY <1>1, <1>3 DEF BundlesOK
    <3>2. \A t \in TrackTypes : r.pending[k].tracks[t] # NoHandle =>
                 r.pending[k].tracks[t] = s.pending[at[k]].tracks[t]
      BY <1>3
    <3> QED BY <3>1, <3>2 DEF Playable
  <2>2. \A i, j \in 1..Len(r.pending) :
          Is(r.pending[i], r.pending[j]) => i = j
    <3> SUFFICES ASSUME NEW i \in 1..Len(r.pending), NEW j \in 1..Len(r.pending),
                        Is(r.pending[i], r.pending[j])
                 PROVE  i = j
      OBVIOUS
    <3>1. Is(s.pending[at[i]], s.pending[at[j]])
      BY <1>3 DEF Is
    <3>2. at[i] = at[j]
      BY <1>1, <1>3, <3>1 DEF BundlesOK
    <3> QED BY <1>3, <3>2
  <2> QED BY <2>1, <2>2 DEF BundlesOK
<1>7. Shrinks(s, r)
  <2>1. ASSUME NEW x \in PeerIds, Known(r, x) PROVE Known(s, x)
    <3>0. x.generation # 0 /\ EmptySlot.generation = 0
      BY DEF PeerIds, EmptySlot
    <3>1. CASE \E t \in TrackTypes : Is(r.slots[t], x)
      BY <1>2, <3>0, <3>1 DEF Known, Is
    <3>2. CASE \E i \in 1..Len(r.pending) : Is(r.pending[i], x)
      <4>1. PICK i \in 1..Len(r.pending) : Is(r.pending[i], x)
        BY <3>2
      <4>2. Is(s.pending[at[i]], x) /\ at[i] \in 1..Len(s.pending)
        BY <1>3, <4>1 DEF Is
      <4> QED BY <4>2 DEF Known
    <3> QED BY <2>1, <3>1, <3>2 DEF Known
  <2>2. ASSUME NEW h \in Handle, InUse(r, h) PROVE InUse(s, h)
    <3>0. h # NoHandle
      BY DEF Handle, NoHandle
    <3>1. CASE \E t \in TrackTypes : r.slots[t].track = h
      BY <1>1, <1>2, <3>0, <3>1 DEF InUse
    <3>2. CASE \E i \in 1..Len(r.pending) : \E t \in TrackTypes : r.pending[i].tracks[t] = h
      <4>1. PICK i \in 1..Len(r.pending), t \in TrackTypes : r.pending[i].tracks[t] = h
        BY <3>2
      <4>2. s.pending[at[i]].tracks[t] = h /\ at[i] \in 1..Len(s.pending)
        BY <1>3, <3>0, <4>1
      <4> QED BY <4>2 DEF InUse
    <3> QED BY <2>2, <3>1, <3>2 DEF InUse
  <2> QED BY <2>1, <2>2 DEF Shrinks
<1> QED BY <1>4, <1>5, <1>6, <1>7 DEF Base

\* What follows an adoption.
LEMMA AfterAdoptionOK ==
  ASSUME NEW before, NEW s, Base(s), NEW r, r = AfterAdoption(before, s)
  PROVE  r \in Sources /\ SameMedia(s, r) /\ r.mutes = s.mutes /\ ShownOK(r)
<1> DEFINE p == Published(s)
<1>1. p \in Sources /\ SameMedia(s, p) /\ p.mutes = s.mutes /\ ShownOK(p)
  BY PublishedOK
<1>2. Base(p)
  BY <1>1, SameMediaKeeps
<1>3. r = p \/ r = MarkedConnected(p, Head(before.pending))
  BY DEF AfterAdoption
<1> HIDE DEF p
<1>4. CASE r = p
  BY <1>1, <1>4
<1>5. CASE r = MarkedConnected(p, Head(before.pending))
  <2>1. r \in Sources /\ SameMedia(p, r) /\ KeepsNotes(p, r)
    BY <1>1, <1>5, MarkedOK
  <2>2. ShownOK(r)
    BY <1>1, <1>2, <2>1, SameMediaKeeps
  <2> QED BY <1>1, <2>1, <2>2 DEF SameMedia, KeepsNotes
<1> QED BY <1>3, <1>4, <1>5

\* handlePeerDisconnectedAccepted, before the next bundle moves in.
Freed(s, id) ==
  LET gone == {t \in TrackTypes : Is(s.slots[t], id)}
      slots == [t \in TrackTypes |-> IF t \in gone THEN EmptySlot ELSE s.slots[t]]
  IN [s EXCEPT !.slots = slots,
               !.pending = Sifted(@, {b \in Range(@) : ~Is(b, id)}),
               !.wired = @ \ {s.slots[t].track : t \in gone},
               !.output = IF gone \cap {"video", "alpha"} = {} THEN @
                          ELSE slots["video"] # EmptySlot]

\* Afterwards the source has nothing of the peer.
LEMMA FreedOK ==
  ASSUME NEW s, Base(s), NEW id, PeerIs(id), NEW r, r = Freed(s, id)
  PROVE  /\ Base(r) /\ Shrinks(s, r) /\ KeepsWires(s, r) /\ KeepsNotes(s, r)
         /\ \A x \in PeerIds : Is(x, id) => ~Known(r, x)
<1> DEFINE gone == {t \in TrackTypes : Is(s.slots[t], id)}
           slots == [t \in TrackTypes |-> IF t \in gone THEN EmptySlot ELSE s.slots[t]]
           keep == {b \in Range(s.pending) : ~Is(b, id)}
           pending == Sifted(s.pending, keep)
           lost == {s.slots[t].track : t \in gone}
           output == IF gone \cap {"video", "alpha"} = {} THEN s.output
                     ELSE slots["video"] # EmptySlot
<1>1. /\ s \in Sources /\ OneOwner(s) /\ Apart(s) /\ BundlesOK(s)
      /\ s.pending \in Seq(Bundle)
  BY DEF Base, Sources
<1>2. r = [s EXCEPT !.slots = slots, !.pending = pending, !.wired = s.wired \ lost,
                    !.output = output]
  BY DEF Freed
<1>3. /\ slots \in [TrackTypes -> SlotOrEmpty]
      /\ \A t \in TrackTypes :
           slots[t] = IF Is(s.slots[t], id) THEN EmptySlot ELSE s.slots[t]
  BY <1>1 DEF Sources, SlotOrEmpty
<1>4. /\ pending \in Seq(Bundle) /\ Len(pending) <= Len(s.pending)
      /\ \A i \in 1..Len(s.pending) : s.pending[i] \in keep =>
           \E k \in 1..Len(pending) : pending[k] = s.pending[i]
      /\ \A k \in 1..Len(pending) : pending[k] \in keep
      /\ \E at \in [1..Len(pending) -> 1..Len(s.pending)] :
           /\ \A k \in 1..Len(pending) : pending[k] = s.pending[at[k]]
           /\ \A k, l \in 1..Len(pending) : k # l => at[k] # at[l]
  <2>1. pending = Sifted(s.pending, keep)
    OBVIOUS
  <2>2. s.pending \in Seq(Bundle)
    BY <1>1
  <2> HIDE DEF keep, pending
  <2>3. pending \in Seq(Bundle) /\ SiftedFrom(s.pending, keep, pending)
    BY <2>1, <2>2, SiftedKeeps
  <2> QED BY <2>3 DEF SiftedFrom
<1>5. \A k \in 1..Len(pending) : ~Is(pending[k], id)
  BY <1>4
<1>6. \A x :
        x \in lost <=> \E t \in TrackTypes : Is(s.slots[t], id) /\ x = s.slots[t].track
  OBVIOUS
<1>7. output \in BOOLEAN
  BY <1>1 DEF Sources
<1> DEFINE wired == s.wired \ lost
<1>w. /\ wired \in SUBSET Handle
      /\ \A x : x \in wired <=> x \in s.wired /\ x \notin lost
  BY <1>1 DEF Sources
<1>v. r = [s EXCEPT !.slots = slots, !.pending = pending, !.wired = wired, !.output = output]
  BY <1>2
<1> HIDE DEF gone, slots, keep, pending, lost, output, wired
<1>8. /\ r \in Sources /\ r.slots = slots /\ r.pending = pending
      /\ r.wired = wired /\ KeepsNotes(s, r)
  <2>1. /\ r.slots = slots /\ r.pending = pending /\ r.wired = wired
        /\ KeepsNotes(s, r)
    BY <1>1, <1>v DEF Sources, KeepsNotes
  <2>2. /\ slots \in [TrackTypes -> SlotOrEmpty] /\ pending \in Seq(Bundle)
        /\ wired \in SUBSET Handle
    BY <1>3, <1>4, <1>w
  <2>3. r \in Sources
    BY <1>1, <1>v, <1>7, <2>2 DEF Sources
  <2> QED BY <2>1, <2>3
<1>9. PICK at \in [1..Len(pending) -> 1..Len(s.pending)] :
        /\ \A k \in 1..Len(pending) : pending[k] = s.pending[at[k]]
        /\ \A k, l \in 1..Len(pending) : k # l => at[k] # at[l]
  BY <1>4
<1>10. Thins(s, r)
  <2>1. \A k \in 1..Len(r.pending) :
          /\ Is(r.pending[k], s.pending[at[k]])
          /\ \A t \in TrackTypes : r.pending[k].tracks[t] # NoHandle =>
               r.pending[k].tracks[t] = s.pending[at[k]].tracks[t]
    BY <1>8, <1>9 DEF Is
  <2>2. \A t \in TrackTypes :
          r.slots[t] = s.slots[t] \/ r.slots[t] = EmptySlot
    BY <1>3, <1>8
  <2> QED BY <1>8, <1>9, <2>1, <2>2 DEF Thins
<1>11. \A k \in 1..Len(r.pending) :
         \E t \in TrackTypes : r.pending[k].tracks[t] # NoHandle
  BY <1>1, <1>8, <1>9 DEF BundlesOK, Playable
<1>12. Base(r) /\ Shrinks(s, r)
  BY <1>8, <1>10, <1>11, ThinOK
<1>13. KeepsWires(s, r)
  <2> SUFFICES ASSUME NEW h \in Handles, Wires(s, h), NEW x \in Handle, x # h
               PROVE  x \in r.wired <=> \E t \in TrackTypes : x = r.slots[t].track
    BY DEF KeepsWires, Wires
  <2>1. x \in s.wired <=> \E t \in TrackTypes : x = s.slots[t].track
    BY DEF Wires
  <2>2. x # NoHandle /\ EmptySlot.track = NoHandle
    BY DEF Handle, NoHandle, EmptySlot
  <2>3. \A t, u \in TrackTypes :
          x = s.slots[t].track /\ x = s.slots[u].track => t = u
    BY <1>1, <2>2 DEF Apart
  <2> QED BY <1>3, <1>6, <1>8, <1>w, <2>1, <2>2, <2>3
<1>14. ASSUME NEW x \in PeerIds, Is(x, id) PROVE ~Known(r, x)
  <2>1. x.generation # 0 /\ EmptySlot.generation = 0
    BY DEF PeerIds, EmptySlot
  <2>2. \A t \in TrackTypes : ~Is(r.slots[t], x)
    BY <1>3, <1>8, <1>14, <2>1 DEF Is
  <2>3. \A i \in 1..Len(r.pending) : ~Is(r.pending[i], x)
    BY <1>5, <1>8, <1>14 DEF Is
  <2> QED BY <2>2, <2>3 DEF Known
<1> QED BY <1>8, <1>12, <1>13, <1>14

\* Its mutes are forgotten.
LEMMA ErasedOK ==
  ASSUME NEW s, s \in Sources, NEW p \in Publishers, NEW g \in 1..MaxGenerations,
         NEW r, r = [s EXCEPT !.mutes[p][g] = Unmuted]
  PROVE  r \in Sources /\ SameMedia(s, r)
<1> DEFINE mutes == [s.mutes EXCEPT ![p][g] = Unmuted]
<1>1. r = [s EXCEPT !.mutes = mutes]
  BY DEF Sources
<1>2. mutes \in [Publishers -> [1..MaxGenerations -> Mutes]]
  BY DEF Sources, Unmuted, Mutes
<1> HIDE DEF mutes
<1> QED BY <1>1, <1>2 DEF Sources, SameMedia

\* The whole of handlePeerDisconnectedAccepted.
LEMMA PeerRetiredOK ==
  ASSUME NEW s, Base(s), NEW id, PeerIs(id), NEW retry \in BOOLEAN,
         NEW r, r = PeerRetired(s, id, retry)
  PROVE  /\ Base(r) /\ Shrinks(s, r) /\ KeepsWires(s, r) /\ Awaits(r) /\ ShownOK(r)
         /\ r.seen = s.seen
         /\ \A x \in PeerIds : Is(x, id) => ~Known(r, x)
<1> DEFINE freed == Freed(s, id)
           gone == {t \in TrackTypes : Is(s.slots[t], id)}
           audible == freed.audible /\ "audio" \notin gone
           after == [freed EXCEPT !.connected = HasOwner(freed), !.audible = audible]
           adopted == Adopted(after)
           erased == [adopted EXCEPT !.mutes[id.uuid][id.generation] = Unmuted]
           settled == AfterAdoption(after, erased)
<1>1. r = IF retry /\ ~settled.connected /\ control.running
          THEN [settled EXCEPT !.retry = RetryScheduled(settled.retry)] ELSE settled
  BY DEF PeerRetired, Freed
<1>2. /\ Base(freed) /\ Shrinks(s, freed) /\ KeepsWires(s, freed)
      /\ freed.seen = s.seen
      /\ \A x \in PeerIds : Is(x, id) => ~Known(freed, x)
  BY FreedOK DEF KeepsNotes
<1>3. audible \in BOOLEAN /\ HasOwner(freed) \in BOOLEAN
  BY DEF HasOwner
<1> HIDE DEF freed, audible
<1>4. after \in Sources /\ SameMedia(freed, after)
  BY <1>2, <1>3 DEF Base, Sources, SameMedia
<1>5. Base(after) /\ Shrinks(freed, after) /\ KeepsWires(freed, after)
      /\ after.seen = s.seen
  BY <1>2, <1>4, SameMediaKeeps DEF SameMedia
<1> HIDE DEF after
<1>6. /\ Base(adopted) /\ Shrinks(after, adopted) /\ KeepsWires(after, adopted)
      /\ Awaits(adopted) /\ adopted.seen = s.seen
  BY <1>5, AdoptedOK DEF KeepsNotes
<1> HIDE DEF adopted
<1>7. erased \in Sources /\ SameMedia(adopted, erased)
  BY <1>6, ErasedOK DEF Base, PeerIs
<1>8. /\ Base(erased) /\ Shrinks(adopted, erased) /\ KeepsWires(adopted, erased)
      /\ Awaits(erased) /\ erased.seen = s.seen
  BY <1>6, <1>7, SameMediaKeeps DEF SameMedia
<1> HIDE DEF erased
<1>9. settled \in Sources /\ SameMedia(erased, settled) /\ ShownOK(settled)
  BY <1>8, AfterAdoptionOK
<1>10. /\ Base(settled) /\ Shrinks(erased, settled) /\ KeepsWires(erased, settled)
       /\ Awaits(settled) /\ settled.seen = s.seen
  BY <1>8, <1>9, SameMediaKeeps DEF SameMedia
<1> HIDE DEF settled
<1>11. r \in Sources /\ SameMedia(settled, r) /\ KeepsNotes(settled, r)
  <2>1. RetryScheduled(settled.retry) \in RetryState
    BY <1>9, CancelledOK DEF Sources
  <2>2. CASE r = settled
    BY <1>9, <2>2 DEF SameMedia, KeepsNotes
  <2>3. CASE r = [settled EXCEPT !.retry = RetryScheduled(settled.retry)]
    BY <1>9, <2>1, <2>3 DEF Sources, SameMedia, KeepsNotes
  <2> QED BY <1>1, <2>2, <2>3
<1>12. /\ Base(r) /\ Shrinks(settled, r) /\ KeepsWires(settled, r) /\ Awaits(r)
       /\ ShownOK(r) /\ r.seen = s.seen
  BY <1>9, <1>10, <1>11, SameMediaKeeps DEF SameMedia
<1>13. Shrinks(s, r)
  BY <1>2, <1>5, <1>6, <1>8, <1>10, <1>12 DEF Shrinks
<1>14. Shrinks(freed, r)
  BY <1>5, <1>6, <1>8, <1>10, <1>12 DEF Shrinks
<1>15. KeepsWires(s, r)
  BY <1>2, <1>5, <1>6, <1>8, <1>10, <1>12 DEF KeepsWires
<1>16. \A x \in PeerIds : Is(x, id) => ~Known(r, x)
  BY <1>2, <1>14 DEF Shrinks
<1> QED BY <1>12, <1>13, <1>15, <1>16

\* The peers whose media the source has.
LEMMA AllLiveIs ==
  ASSUME NEW s, s \in Sources
  PROVE  AllLive(s) <=> \A x \in PeerIds : Known(s, x) => Live(s, x)
<1>1. ASSUME AllLive(s), NEW x \in PeerIds, Known(s, x) PROVE Live(s, x)
  <2>1. x.generation # 0 /\ EmptySlot.generation = 0
    BY DEF PeerIds, EmptySlot
  <2>2. CASE \E t \in TrackTypes : Is(s.slots[t], x)
    BY <1>1, <2>1, <2>2 DEF AllLive, Live, Is
  <2>3. CASE \E i \in 1..Len(s.pending) : Is(s.pending[i], x)
    BY <1>1, <2>3 DEF AllLive, Live, Is
  <2> QED BY <1>1, <2>2, <2>3 DEF Known
<1>2. ASSUME \A x \in PeerIds : Known(s, x) => Live(s, x) PROVE AllLive(s)
  <2>1. ASSUME NEW t \in TrackTypes, s.slots[t] # EmptySlot
        PROVE  Live(s, s.slots[t])
    <3> DEFINE x == [uuid |-> s.slots[t].uuid, generation |-> s.slots[t].generation]
    <3>1. x \in PeerIds /\ Is(s.slots[t], x)
      BY <2>1, SlotFacts DEF PeerIds, Is
    <3>2. x.uuid = s.slots[t].uuid /\ x.generation = s.slots[t].generation
      OBVIOUS
    <3> HIDE DEF x
    <3>3. Live(s, x)
      BY <1>2, <3>1 DEF Known
    <3> QED BY <3>2, <3>3 DEF Live
  <2>2. ASSUME NEW i \in 1..Len(s.pending) PROVE Live(s, s.pending[i])
    <3> DEFINE x == [uuid |-> s.pending[i].uuid, generation |-> s.pending[i].generation]
    <3>0. s.pending[i] \in Bundle
      BY DEF Sources
    <3>1. x \in PeerIds /\ Is(s.pending[i], x)
      BY <3>0 DEF PeerIds, Is, Bundle
    <3>2. x.uuid = s.pending[i].uuid /\ x.generation = s.pending[i].generation
      OBVIOUS
    <3> HIDE DEF x
    <3>3. Live(s, x)
      BY <1>2, <3>1 DEF Known
    <3> QED BY <3>2, <3>3 DEF Live
  <2> QED BY <2>1, <2>2 DEF AllLive
<1> QED BY <1>1, <1>2

\* A source at rest but for one peer, which is about to go.
SettledBut(s, id) ==
  /\ Base(s) /\ WiresOK(s) /\ Awaits(s) /\ ShownOK(s)
  /\ \A x \in PeerIds : Known(s, x) /\ ~Is(x, id) => Live(s, x)

\* An event that is not stale makes at most its own peer a dead one.
LEMMA AcceptedOK ==
  ASSUME NEW s, Settled(s), NEW id, PeerIs(id), id.sequence \in Nat, ~Stale(s, id),
         NEW terminal \in BOOLEAN, NEW lane, NEW r, r = Accepted(s, id, terminal, lane)
  PROVE  /\ SettledBut(r, id) /\ Shrinks(s, r)
         /\ r.seen[id.uuid].generation = id.generation
         /\ r.seen[id.uuid].terminal = terminal
         /\ ~terminal => Settled(r) /\ Live(r, id)
<1> DEFINE known == s.seen[id.uuid]
           newer == id.generation > known.generation
           base == IF newer THEN [generation |-> id.generation, terminal |-> FALSE,
                                  message |-> 0, open |-> 0]
                   ELSE known
           noted == IF lane \in {"message", "open"}
                    THEN [base EXCEPT ![lane] = id.sequence] ELSE base
           now == [noted EXCEPT !.terminal = noted.terminal \/ terminal]
           marked == [s EXCEPT !.seen[id.uuid] = now]
           old == [uuid |-> id.uuid, generation |-> known.generation]
           retired == PeerRetired(marked, old, FALSE)
           erased == [retired EXCEPT !.mutes[id.uuid][id.generation] = Unmuted]
<1>1. s \in Sources /\ Base(s) /\ WiresOK(s) /\ AllLive(s) /\ Awaits(s) /\ ShownOK(s)
      /\ id.uuid \in Publishers /\ id.generation \in 1..MaxGenerations
  BY DEF Settled, Base, PeerIs
<1>2. known \in Seen
  BY <1>1 DEF Sources
<1>3. /\ known.generation \in 0..MaxGenerations /\ known.terminal \in BOOLEAN
      /\ id.generation >= known.generation
      /\ ~newer => id.generation = known.generation /\ known.terminal = FALSE
  <2>1. ~(id.generation < known.generation)
        /\ ~(id.generation = known.generation /\ known.terminal)
    BY DEF Stale
  <2>2. known.generation \in 0..MaxGenerations /\ known.terminal \in BOOLEAN
    BY <1>2 DEF Seen
  <2> HIDE DEF known
  <2>3. MaxGenerations \in Nat
    BY SourceTracksAssumption
  <2> QED BY <1>1, <2>1, <2>2, <2>3
<1>4. r = IF newer /\ known.generation # 0 THEN Published(erased) ELSE marked
  BY DEF Accepted
<1>5. base \in Seen /\ base.generation = id.generation /\ base.terminal = FALSE
  <2>1. CASE newer
    <3>1. base = [generation |-> id.generation, terminal |-> FALSE, message |-> 0, open |-> 0]
      BY <2>1
    <3>2. id.generation \in 0..MaxGenerations
      BY <1>1
    <3> HIDE DEF base
    <3> QED BY <3>1, <3>2 DEF Seen
  <2>2. CASE ~newer
    BY <1>2, <1>3, <2>2
  <2> QED BY <2>1, <2>2
<1> HIDE DEF base
<1>6. noted \in Seen /\ noted.generation = id.generation /\ noted.terminal = FALSE
  <2>1. CASE lane = "message"
    BY <1>5, <2>1 DEF Seen
  <2>2. CASE lane = "open"
    BY <1>5, <2>2 DEF Seen
  <2>3. CASE lane \notin {"message", "open"}
    BY <1>5, <2>3
  <2> QED BY <2>1, <2>2, <2>3
<1> HIDE DEF noted
<1>7. now \in Seen /\ now.generation = id.generation /\ now.terminal = terminal
  BY <1>6 DEF Seen
<1> HIDE DEF now
<1>8. /\ marked \in Sources /\ marked.slots = s.slots /\ marked.pending = s.pending
      /\ marked.wired = s.wired
      /\ KeepsNotes([s EXCEPT !.seen = marked.seen], marked)
      /\ marked.mutes = s.mutes /\ marked.shown = s.shown
      /\ marked.audible = s.audible
      /\ marked.seen = [s.seen EXCEPT ![id.uuid] = now]
  <2> DEFINE seen == [s.seen EXCEPT ![id.uuid] = now]
  <2>1. marked = [s EXCEPT !.seen = seen]
    BY <1>1 DEF Sources
  <2>2. seen \in [Publishers -> Seen]
    BY <1>1, <1>7 DEF Sources
  <2> HIDE DEF seen
  <2>3. /\ marked \in Sources /\ marked.slots = s.slots
        /\ marked.pending = s.pending
        /\ marked.wired = s.wired /\ marked.seen = seen
        /\ marked.mutes = s.mutes /\ marked.shown = s.shown
        /\ marked.audible = s.audible
    BY <1>1, <2>1, <2>2 DEF Sources
  <2>4. KeepsNotes([s EXCEPT !.seen = marked.seen], marked)
    BY <1>1, <2>3 DEF KeepsNotes, Sources
  <2> QED BY <2>3, <2>4 DEF seen
<1> HIDE DEF marked
<1>9. /\ marked.seen[id.uuid] = now
      /\ \A p \in Publishers : p # id.uuid => marked.seen[p] = s.seen[p]
  BY <1>1, <1>8 DEF Sources
<1>10. Base(marked) /\ Shrinks(s, marked) /\ WiresOK(marked) /\ Awaits(marked) /\ ShownOK(marked)
  <2>1. Occupied(marked) = Occupied(s) /\ OwnerSlot(marked) = OwnerSlot(s)
        /\ HasOwner(marked) = HasOwner(s)
    BY <1>8 DEF Occupied, OwnerSlot, HasOwner
  <2>2. OneOwner(marked) /\ Apart(marked) /\ BundlesOK(marked)
    BY <1>1, <1>8 DEF Base, OneOwner, Apart, BundlesOK
  <2>3. Shrinks(s, marked)
    BY <1>8 DEF Shrinks, Known, InUse
  <2> QED BY <1>1, <1>8, <2>1, <2>2, <2>3 DEF Base, WiresOK, Awaits, ShownOK
<1>11. ASSUME NEW x \in PeerIds, Known(s, x)
       PROVE  /\ x.uuid # id.uuid => Live(marked, x)
              /\ x.uuid = id.uuid => x.generation = known.generation
  <2>1. Live(s, x)
    BY <1>1, <1>11, AllLiveIs
  <2>2. x.uuid \in Publishers
    BY DEF PeerIds
  <2> QED BY <1>9, <2>1, <2>2 DEF Live
<1>12. CASE ~(newer /\ known.generation # 0)
  <2>1. r = marked
    BY <1>4, <1>12
  <2>2. ASSUME NEW x \in PeerIds, Known(r, x), ~Is(x, id) PROVE Live(r, x)
    <3>1. Known(s, x) /\ x.generation \in 1..MaxGenerations
      BY <1>10, <2>1, <2>2 DEF Shrinks, PeerIds
    <3>2. x.uuid # id.uuid
      BY <1>3, <1>11, <1>12, <2>2, <3>1 DEF Is
    <3> QED BY <1>11, <2>1, <3>1, <3>2
  <2>3. SettledBut(r, id)
    BY <1>10, <2>1, <2>2 DEF SettledBut
  <2>4. r.seen[id.uuid] = now
    BY <1>9, <2>1
  <2>5. ~terminal => Live(r, id)
    BY <1>7, <2>4 DEF Live
  <2>6. ASSUME ~terminal PROVE AllLive(r)
    <3>1. \A x \in PeerIds : Known(r, x) /\ Is(x, id) => Live(r, x)
      BY <2>5, <2>6 DEF Live, Is
    <3> QED BY <1>8, <2>1, <2>2, <3>1, AllLiveIs
  <2> QED BY <1>7, <1>10, <2>1, <2>3, <2>4, <2>5, <2>6 DEF Settled, SettledBut
<1>13. CASE newer /\ known.generation # 0
  <2>1. r = Published(erased)
    BY <1>4, <1>13
  <2>2. PeerIs(old) /\ old.uuid = id.uuid /\ old.generation = known.generation
    BY <1>1, <1>3, <1>13 DEF PeerIs
  <2> HIDE DEF old
  <2>3. /\ Base(retired) /\ Shrinks(marked, retired) /\ KeepsWires(marked, retired)
        /\ Awaits(retired) /\ retired.seen = marked.seen
        /\ \A x \in PeerIds : Is(x, old) => ~Known(retired, x)
    BY <1>10, <2>2, PeerRetiredOK
  <2> HIDE DEF retired
  <2>4. erased \in Sources /\ SameMedia(retired, erased)
    BY <1>1, <2>3, ErasedOK DEF Base
  <2>5. /\ Base(erased) /\ Shrinks(retired, erased) /\ KeepsWires(retired, erased)
        /\ Awaits(erased) /\ erased.seen = marked.seen
    BY <2>3, <2>4, SameMediaKeeps DEF SameMedia
  <2> HIDE DEF erased
  <2>6. r \in Sources /\ SameMedia(erased, r) /\ ShownOK(r)
    BY <2>1, <2>5, PublishedOK
  <2>7. /\ Base(r) /\ Shrinks(erased, r) /\ KeepsWires(erased, r)
        /\ Awaits(r) /\ r.seen = marked.seen
    BY <2>5, <2>6, SameMediaKeeps DEF SameMedia
  <2>8. Shrinks(s, r) /\ Shrinks(retired, r)
    BY <1>10, <2>3, <2>5, <2>7 DEF Shrinks
  <2>9. WiresOK(r)
    <3>1. Wires(marked, NoHandle) /\ NoHandle \in Handles
      BY <1>8, <1>10, WiresAre DEF Handles
    <3>2. Wires(r, NoHandle)
      BY <2>3, <2>5, <2>7, <3>1 DEF KeepsWires
    <3> QED BY <2>6, <3>2, WiresAre
  <2>10. ASSUME NEW x \in PeerIds, Known(r, x) PROVE Live(r, x)
    <3>1. Known(s, x) /\ Known(retired, x)
      BY <2>8, <2>10 DEF Shrinks
    <3>2. ~Is(x, old)
      BY <2>3, <3>1
    <3>3. x.uuid # id.uuid
      BY <1>11, <2>2, <3>1, <3>2 DEF Is
    <3>4. Live(marked, x)
      BY <1>11, <3>1, <3>3
    <3> QED BY <2>7, <3>4 DEF Live
  <2>11. r.seen[id.uuid] = now
    BY <1>9, <2>7
  <2>12. ~terminal => Live(r, id)
    BY <1>7, <2>11 DEF Live
  <2>13. AllLive(r)
    BY <2>6, <2>10, AllLiveIs
  <2> QED
    BY <1>7, <2>6, <2>7, <2>8, <2>9, <2>10, <2>11, <2>12, <2>13
    DEF Settled, SettledBut
<1> QED BY <1>12, <1>13

\* A peer is gone: then its media go.
LEMMA PeerEndedOK ==
  ASSUME NEW s, Settled(s), NEW e, PeerIs(e), e.sequence \in Nat, NEW r, r = PeerEnded(s, e)
  PROVE  Settled(r) /\ Shrinks(s, r)
<1>1. CASE ~Accepts(s, e, "end")
  BY <1>1 DEF PeerEnded, Shrinks
<1>2. CASE Accepts(s, e, "end")
  <2> DEFINE a == Accepted(s, e, TRUE, "end")
  <2>1. r = PeerRetired(a, e, TRUE)
    BY <1>2 DEF PeerEnded
  <2>2. SettledBut(a, e) /\ Shrinks(s, a)
    BY <1>2, AcceptedOK DEF Accepts
  <2> HIDE DEF a
  <2>3. /\ Base(r) /\ Shrinks(a, r) /\ KeepsWires(a, r) /\ Awaits(r) /\ ShownOK(r)
        /\ r.seen = a.seen /\ \A x \in PeerIds : Is(x, e) => ~Known(r, x)
    BY <2>1, <2>2, PeerRetiredOK DEF SettledBut
  <2>4. WiresOK(r)
    <3>1. Wires(a, NoHandle) /\ NoHandle \in Handles
      BY <2>2, WiresAre DEF SettledBut, Base, Handles
    <3>2. Wires(r, NoHandle)
      BY <2>3, <3>1 DEF KeepsWires
    <3> QED BY <2>3, <3>2, WiresAre DEF Base
  <2>5. AllLive(r)
    <3>1. \A x \in PeerIds : Known(r, x) => Live(r, x)
      BY <2>2, <2>3 DEF Shrinks, SettledBut, Live
    <3> QED BY <2>3, <3>1, AllLiveIs DEF Base
  <2>6. Shrinks(s, r)
    BY <2>2, <2>3 DEF Shrinks
  <2> QED BY <2>3, <2>4, <2>5, <2>6 DEF Settled
<1> QED BY <1>1, <1>2

\* A handler that leaves the tracks alone.
LEMMA SettledSame ==
  ASSUME NEW s, Settled(s), NEW r, r \in Sources, SameMedia(s, r), ShownOK(r)
  PROVE  Settled(r) /\ Shrinks(s, r)
<1>1. Base(r) /\ Shrinks(s, r) /\ AllLive(r) /\ Awaits(r)
  BY SameMediaKeeps DEF Settled
<1>2. WiresOK(r)
  BY DEF Settled, WiresOK, Occupied, SameMedia
<1> QED BY <1>1, <1>2 DEF Settled

\* A peer came up, or its channel opened.
LEMMA PeerCameUpOK ==
  ASSUME NEW s, Settled(s), NEW e, PeerIs(e), e.sequence \in Nat,
         NEW r, r = PeerCameUp(s, e) \/ r = ChannelOpened(s, e)
  PROVE  Settled(r) /\ Shrinks(s, r)
<1>1. ASSUME NEW lane, Accepts(s, e, lane)
      PROVE  /\ Settled(Accepted(s, e, FALSE, lane))
             /\ Shrinks(s, Accepted(s, e, FALSE, lane))
  BY <1>1, AcceptedOK DEF Accepts
<1>2. CASE r = s
  BY <1>2 DEF Shrinks
<1>3. CASE r = ChannelOpened(s, e)
  <2>1. r = s \/ (Accepts(s, e, "open") /\ r = Accepted(s, e, FALSE, "open"))
    BY <1>3 DEF ChannelOpened
  <2> QED BY <1>1, <1>2, <2>1
<1>4. CASE r = PeerCameUp(s, e) /\ r # s
  <2> DEFINE a == Accepted(s, e, FALSE, "up")
  <2>1. Accepts(s, e, "up") /\ r = MarkedConnected(a, e)
    BY <1>4 DEF PeerCameUp
  <2>2. Settled(a) /\ Shrinks(s, a)
    BY <1>1, <2>1
  <2> HIDE DEF a
  <2>3. r \in Sources /\ SameMedia(a, r) /\ KeepsNotes(a, r)
    BY <2>1, <2>2, MarkedOK DEF Settled, Base
  <2>4. ShownOK(r)
    BY <2>2, <2>3, SameMediaKeeps DEF Settled
  <2>5. Settled(r) /\ Shrinks(a, r)
    BY <2>2, <2>3, <2>4, SettledSame
  <2> QED BY <2>2, <2>5 DEF Shrinks
<1> QED BY <1>2, <1>3, <1>4

\* A publisher's mute state is applied,
LEMMA ControlAppliedOK ==
  ASSUME NEW s, Settled(s), NEW id, PeerIs(id), NEW e, e.what \in {"audio", "video"},
         e.value \in BOOLEAN, NEW r, r = ControlApplied(s, id, e)
  PROVE  Settled(r) /\ Shrinks(s, r)
<1> DEFINE mine == \E t \in TrackTypes : Is(s.slots[t], id)
           stored == [s.mutes[id.uuid][id.generation] EXCEPT ![e.what] = e.value]
           mutes == [s.mutes EXCEPT ![id.uuid][id.generation] = stored]
           kept == [s EXCEPT !.mutes = mutes]
           audible == IF e.what = "audio"
                      THEN Is(s.slots["audio"], id) /\ ~stored.audio ELSE s.audible
<1>1. s \in Sources /\ Base(s) /\ OneOwner(s) /\ ShownOK(s)
      /\ id.uuid \in Publishers /\ id.generation \in 1..MaxGenerations
      /\ TrackTypes = {"video", "alpha", "audio"}
  BY DEF Settled, Base, PeerIs, TrackTypes
<1>2. s.mutes \in [Publishers -> [1..MaxGenerations -> Mutes]]
  BY <1>1 DEF Sources
<1>3. r = IF HasOwner(s) /\ ~mine THEN kept
          ELSE [kept EXCEPT !.shown = stored, !.audible = audible]
  <2>1. kept = [s EXCEPT !.mutes[id.uuid][id.generation] = stored]
    BY <1>1 DEF Sources
  <2>2. kept.audible = s.audible
    BY <1>1 DEF Sources
  <2> HIDE DEF kept
  <2> QED BY <2>1, <2>2 DEF ControlApplied
<1>4. /\ stored \in Mutes
      /\ e.what = "video" => stored.audio = s.mutes[id.uuid][id.generation].audio
  <2>1. s.mutes[id.uuid][id.generation] \in Mutes
    BY <1>1, <1>2
  <2>2. CASE e.what = "audio"
    BY <2>1, <2>2 DEF Mutes
  <2>3. CASE e.what = "video"
    BY <2>1, <2>3 DEF Mutes
  <2> QED BY <2>2, <2>3
<1>5. audible \in BOOLEAN
  BY <1>1 DEF Sources, Is
<1>6. /\ audible => \/ Is(s.slots["audio"], id) /\ ~stored.audio
                    \/ s.audible /\ e.what = "video"
  OBVIOUS
<1> HIDE DEF stored, audible
<1>7. /\ mutes \in [Publishers -> [1..MaxGenerations -> Mutes]]
      /\ mutes[id.uuid][id.generation] = stored
      /\ \A p \in Publishers : \A g \in 1..MaxGenerations :
           p # id.uuid \/ g # id.generation => mutes[p][g] = s.mutes[p][g]
  BY <1>1, <1>2, <1>4
<1> HIDE DEF mutes
<1>8. /\ kept \in Sources /\ SameMedia(s, kept) /\ kept.mutes = mutes
      /\ kept.shown = s.shown /\ kept.audible = s.audible
  BY <1>1, <1>7 DEF Sources, SameMedia
<1> HIDE DEF kept
<1>9. \A t \in TrackTypes : s.slots[t] # EmptySlot =>
        /\ s.slots[t].uuid \in Publishers
        /\ s.slots[t].generation \in 1..MaxGenerations
  BY <1>1, SlotFacts
<1>10. CASE HasOwner(s) /\ ~mine
  <2>1. r = kept
    BY <1>3, <1>10
  <2> DEFINE owner == OwnerSlot(s)
  <2>2. owner # EmptySlot /\ owner.uuid \in Publishers /\ owner.generation \in 1..MaxGenerations
        /\ (owner.uuid # id.uuid \/ owner.generation # id.generation)
    BY <1>1, <1>9, <1>10, OwnerFacts DEF Is
  <2>3. mutes[owner.uuid][owner.generation] = s.mutes[owner.uuid][owner.generation]
    BY <1>7, <2>2
  <2>4. OwnerSlot(r) = owner /\ r.slots = s.slots
    BY <1>8, <2>1 DEF SameMedia, OwnerSlot
  <2> HIDE DEF owner
  <2>5. ShownOK(r)
    BY <1>1, <1>8, <1>10, <2>1, <2>3, <2>4 DEF ShownOK, owner
  <2> QED BY <1>8, <2>1, <2>5, SettledSame
<1>11. CASE ~(HasOwner(s) /\ ~mine)
  <2>1. r = [kept EXCEPT !.shown = stored, !.audible = audible]
    BY <1>3, <1>11
  <2>2. /\ r \in Sources /\ SameMedia(s, r) /\ r.mutes = mutes /\ r.shown = stored
        /\ r.audible = audible
    BY <1>4, <1>5, <1>8, <2>1 DEF Sources, SameMedia
  <2>3. ShownOK(r)
    <3> SUFFICES ASSUME HasOwner(r)
                 PROVE  /\ stored = mutes[OwnerSlot(r).uuid][OwnerSlot(r).generation]
                        /\ audible => s.slots["audio"] # EmptySlot /\ ~stored.audio
      BY <2>2 DEF ShownOK, SameMedia
    <3>1. OwnerSlot(r) = OwnerSlot(s) /\ HasOwner(s)
      BY <2>2 DEF SameMedia, OwnerSlot, HasOwner, Occupied
    <3>2. PICK t \in TrackTypes : Is(s.slots[t], id)
      BY <1>11, <3>1
    <3>3. s.slots[t] # EmptySlot
      BY <1>1, <3>2 DEF EmptySlot, Is
    <3>4. /\ OwnerSlot(s).uuid = id.uuid
          /\ OwnerSlot(s).generation = id.generation
      <4>1. OwnerSlot(s) # EmptySlot
        BY <1>1, <3>1, OwnerFacts
      <4>2. PICK u \in TrackTypes : OwnerSlot(s) = s.slots[u]
        BY <1>1, OwnerFacts
      <4> QED BY <1>1, <3>2, <3>3, <4>1, <4>2 DEF OneOwner, Is
    <3>5. ASSUME audible PROVE s.slots["audio"] # EmptySlot /\ ~stored.audio
      <4>1. CASE Is(s.slots["audio"], id) /\ ~stored.audio
        BY <1>1, <4>1 DEF EmptySlot, Is
      <4>2. CASE s.audible /\ e.what = "video"
        BY <1>1, <1>4, <3>1, <3>4, <4>2 DEF ShownOK
      <4> QED BY <1>6, <3>5, <4>1, <4>2
    <3> QED BY <1>7, <3>1, <3>4, <3>5
  <2> QED BY <2>2, <2>3, SettledSame
<1> QED BY <1>10, <1>11

\* if it is not stale, and shown if it is the owner's.
LEMMA ControlReceivedOK ==
  ASSUME NEW s, Settled(s), ManagerOK, NEW e \in Told, NEW r, r = ControlReceived(s, e)
  PROVE  Settled(r) /\ Shrinks(s, r)
<1> DEFINE heard == Accepted(s, e, FALSE, "message")
           target == Claim(e.target)
           both == Accepted(heard, target, FALSE, "message")
<1>1. PeerIs(e) /\ e.sequence \in Nat /\ e.what \in {"audio", "video"} /\ e.value \in BOOLEAN
      /\ (e.target = NoPublisher \/ e.target \in Publishers)
  BY DEF Told, PeerIs
<1>2. \/ r = s
      \/ Accepts(s, e, "message") /\ r = heard
      \/ Accepts(s, e, "message") /\ r = ControlApplied(heard, e, e)
      \/ /\ Accepts(s, e, "message") /\ e.target # NoPublisher
         /\ manager[e.target].state # "absent" /\ Accepts(heard, target, "message")
         /\ r = ControlApplied(both, target, e)
  BY DEF ControlReceived
<1>3. ASSUME Accepts(s, e, "message")
      PROVE  Settled(heard) /\ Shrinks(s, heard)
  BY <1>1, <1>3, AcceptedOK DEF Accepts
<1> HIDE DEF heard
<1>4. CASE r = s
  BY <1>4 DEF Shrinks
<1>5. CASE Accepts(s, e, "message") /\ r = heard
  BY <1>3, <1>5
<1>6. CASE Accepts(s, e, "message") /\ r = ControlApplied(heard, e, e)
  <2>1. Settled(r) /\ Shrinks(heard, r)
    BY <1>1, <1>3, <1>6, ControlAppliedOK
  <2> QED BY <1>3, <1>6, <2>1 DEF Shrinks
<1>7. CASE /\ Accepts(s, e, "message") /\ e.target # NoPublisher
           /\ manager[e.target].state # "absent"
           /\ Accepts(heard, target, "message")
           /\ r = ControlApplied(both, target, e)
  <2>1. e.target \in Publishers /\ manager[e.target] \in KnownPeers
        /\ manager[e.target].generation # 0
    BY <1>1, <1>7 DEF ManagerOK
  <2>2. PeerIs(target) /\ target.sequence \in Nat
    BY <2>1 DEF Claim, PeerIs, KnownPeers
  <2> HIDE DEF target
  <2>3. Settled(both) /\ Shrinks(heard, both)
    BY <1>3, <1>7, <2>2, AcceptedOK DEF Accepts
  <2> HIDE DEF both
  <2>4. Settled(r) /\ Shrinks(both, r)
    BY <1>1, <1>7, <2>2, <2>3, ControlAppliedOK
  <2> QED BY <1>3, <1>7, <2>3, <2>4 DEF Shrinks
<1> QED BY <1>2, <1>4, <1>5, <1>6, <1>7

\* Callbacks of one track are cleared; it was the exception.
LEMMA ClearedOK ==
  ASSUME NEW s, Base(s), NEW h \in Handles, NEW r, r = CallbacksCleared(s, h)
  PROVE  /\ Base(r) /\ Shrinks(s, r) /\ KeepsWires(s, r) /\ KeepsNotes(s, r)
         /\ r.slots = s.slots /\ r.pending = s.pending
         /\ Wires(s, h) /\ ~InUse(s, h) => WiresOK(r)
<1>1. s \in Sources /\ OneOwner(s) /\ Apart(s) /\ BundlesOK(s)
  BY DEF Base
<1>2. CASE InUse(s, h)
  <2>1. r = s
    BY <1>2 DEF CallbacksCleared
  <2> QED BY <1>2, <2>1 DEF Shrinks, KeepsWires, KeepsNotes
<1>3. CASE ~InUse(s, h)
  <2> DEFINE wired == s.wired \ {h}
  <2>1. r = [s EXCEPT !.wired = wired]
    BY <1>3 DEF CallbacksCleared
  <2>2. wired \in SUBSET Handle /\ \A x : x \in wired <=> x \in s.wired /\ x # h
    BY <1>1 DEF Sources
  <2> HIDE DEF wired
  <2>3. /\ r \in Sources /\ r.slots = s.slots /\ r.pending = s.pending
        /\ r.wired = wired
        /\ KeepsNotes(s, r)
    BY <1>1, <2>1, <2>2 DEF Sources, KeepsNotes
  <2>4. OneOwner(r) /\ Apart(r) /\ BundlesOK(r)
    BY <1>1, <2>3 DEF OneOwner, Apart, BundlesOK
  <2>5. Shrinks(s, r)
    BY <2>3 DEF Shrinks, Known, InUse
  <2>6. \A t \in TrackTypes : s.slots[t].track # h
    BY <1>3 DEF InUse
  <2>7. KeepsWires(s, r)
    BY <2>2, <2>3, <2>6 DEF KeepsWires, Wires
  <2>8. ASSUME Wires(s, h) PROVE WiresOK(r)
    <3>1. Wires(r, NoHandle)
      BY <2>2, <2>3, <2>6, <2>8 DEF Wires
    <3> QED BY <2>3, <3>1, WiresAre
  <2> QED BY <2>3, <2>4, <2>5, <2>7, <2>8 DEF Base
<1> QED BY <1>2, <1>3

\* A slot is emptied while its track keeps its callbacks.
LEMMA ClosedSlotOK ==
  ASSUME NEW s, Base(s), WiresOK(s), NEW role \in TrackTypes, NEW h \in Handle,
         s.slots[role].track = h, NEW r, r \in Sources,
         r.slots = [s.slots EXCEPT ![role] = EmptySlot], r.pending = s.pending,
         r.wired = s.wired
  PROVE  Base(r) /\ Shrinks(s, r) /\ Wires(r, h) /\ ~InUse(r, h)
<1>1. s \in Sources /\ Apart(s) /\ BundlesOK(s) /\ h # NoHandle /\ EmptySlot.track = NoHandle
      /\ s.slots \in [TrackTypes -> SlotOrEmpty] /\ s.pending \in Seq(Bundle)
  BY DEF Base, Handle, NoHandle, Sources, EmptySlot
<1>2. \A t \in TrackTypes :
        r.slots[t] = IF t = role THEN EmptySlot ELSE s.slots[t]
  BY <1>1
<1>3. Thins(s, r)
  <2> DEFINE at == [k \in 1..Len(r.pending) |-> k]
  <2>1. at \in [1..Len(r.pending) -> 1..Len(s.pending)]
        /\ \A k \in 1..Len(r.pending) : at[k] = k
    OBVIOUS
  <2> HIDE DEF at
  <2>2. \A k \in 1..Len(r.pending) :
          /\ Is(r.pending[k], s.pending[at[k]])
          /\ \A t \in TrackTypes : r.pending[k].tracks[t] # NoHandle =>
               r.pending[k].tracks[t] = s.pending[at[k]].tracks[t]
    BY <2>1 DEF Is
  <2>3. \A k, l \in 1..Len(r.pending) : k # l => at[k] # at[l]
    BY <2>1
  <2>4. \A t \in TrackTypes :
          r.slots[t] = s.slots[t] \/ r.slots[t] = EmptySlot
    BY <1>2
  <2> QED BY <2>1, <2>2, <2>3, <2>4 DEF Thins
<1>4. Base(r) /\ Shrinks(s, r)
  <2>1. \A k \in 1..Len(r.pending) :
          \E t \in TrackTypes : r.pending[k].tracks[t] # NoHandle
    BY <1>1 DEF BundlesOK, Playable
  <2> QED BY <1>3, <2>1, ThinOK
<1>5. ~InUse(r, h)
  <2>1. \A t \in TrackTypes : r.slots[t].track # h
    BY <1>1, <1>2 DEF Apart
  <2>2. \A i \in 1..Len(r.pending) :
          \A t \in TrackTypes : r.pending[i].tracks[t] # h
    BY <1>1 DEF Apart
  <2> QED BY <2>1, <2>2 DEF InUse
<1>6. Wires(r, h)
  <2>1. Wires(s, NoHandle)
    BY <1>1, WiresAre
  <2>2. \A x \in Handle : x # NoHandle
    BY DEF Handle, NoHandle
  <2> SUFFICES ASSUME NEW x \in Handle, x # h
               PROVE  x \in r.wired <=> \E t \in TrackTypes : x = r.slots[t].track
    BY DEF Wires
  <2>3. x \in s.wired <=> \E t \in TrackTypes : x = s.slots[t].track
    BY <2>1, <2>2 DEF Wires
  <2> QED BY <1>1, <1>2, <2>2, <2>3
<1> QED BY <1>4, <1>5, <1>6

\* The handlers of a track that ended.
LEMMA VideoClosedOK ==
  ASSUME NEW s, Base(s), WiresOK(s), NEW e, NEW type \in TrackTypes, NEW h \in Handle,
         NEW r, r = VideoClosed(s, e, type, h) \/ r = AudioClosed(s, e, h)
  PROVE  /\ Base(r) /\ Shrinks(s, r) /\ r.seen = s.seen
         /\ WiresOK(r) \/ (Wires(r, h) /\ ~InUse(r, h))
<1>1. s \in Sources /\ h # NoHandle /\ s.slots \in [TrackTypes -> SlotOrEmpty]
      /\ TrackTypes = {"video", "alpha", "audio"}
  BY DEF Base, Sources, Handle, NoHandle, TrackTypes
<1>2. ASSUME NEW role \in TrackTypes, s.slots[role].track = h,
             NEW slots, slots = [s.slots EXCEPT ![role] = EmptySlot],
             NEW output \in BOOLEAN, NEW connected \in BOOLEAN,
             r = [s EXCEPT !.slots = slots, !.output = output, !.connected = connected]
      PROVE  /\ Base(r) /\ Shrinks(s, r) /\ r.seen = s.seen /\ Wires(r, h)
             /\ ~InUse(r, h)
  <2>1. slots \in [TrackTypes -> SlotOrEmpty]
    BY <1>1, <1>2 DEF SlotOrEmpty
  <2>2. /\ r \in Sources /\ r.slots = slots /\ r.pending = s.pending
        /\ r.wired = s.wired
        /\ r.seen = s.seen
    BY <1>1, <1>2, <2>1 DEF Sources
  <2>3. /\ s.slots[role].track = h
        /\ r.slots = [s.slots EXCEPT ![role] = EmptySlot]
    BY <1>2, <2>2
  <2>4. Base(r) /\ Shrinks(s, r) /\ Wires(r, h) /\ ~InUse(r, h)
    BY <2>2, <2>3, ClosedSlotOK
  <2> QED BY <2>2, <2>4
<1>3. ASSUME NEW connected \in BOOLEAN, r = [s EXCEPT !.connected = connected]
      PROVE  Base(r) /\ Shrinks(s, r) /\ r.seen = s.seen /\ WiresOK(r)
  <2>1. r \in Sources /\ SameMedia(s, r)
    BY <1>1, <1>3 DEF Sources, SameMedia
  <2>2. Base(r) /\ Shrinks(s, r)
    BY <2>1, SameMediaKeeps
  <2> QED BY <2>1, <2>2 DEF SameMedia, WiresOK, Occupied
<1>4. CASE r = VideoClosed(s, e, type, h)
  <2> DEFINE role == ClosedRole(s, e, type, h)
  <2>1. role \in {"none", "video", "alpha"}
        /\ (role # "none" => s.slots[role].track = h)
    BY <1>1 DEF ClosedRole
  <2>2. CASE role = "none"
    <3>1. r = s
      BY <1>4, <2>2 DEF VideoClosed
    <3> QED BY <3>1 DEF Shrinks
  <2>3. CASE role # "none"
    <3> DEFINE after == [s EXCEPT !.slots[role] = EmptySlot]
               slots == [s.slots EXCEPT ![role] = EmptySlot]
               output == after.slots["video"] # EmptySlot
    <3>1. r = [after EXCEPT !.output = output, !.connected = HasOwner(after)]
      BY <1>4, <2>3 DEF VideoClosed
    <3>2. output \in BOOLEAN /\ HasOwner(after) \in BOOLEAN
      BY DEF HasOwner
    <3> HIDE DEF output
    <3>3. after = [s EXCEPT !.slots = slots]
      BY <1>1 DEF Sources
    <3> HIDE DEF after, role
    <3> DEFINE connected == HasOwner(after)
    <3>4. r = [after EXCEPT !.output = output, !.connected = connected]
          /\ connected \in BOOLEAN
      BY <3>1, <3>2
    <3> HIDE DEF connected, slots
    <3>5. r = [s EXCEPT !.slots = slots, !.output = output, !.connected = connected]
      BY <1>1, <3>3, <3>4 DEF Sources
    <3>6. role \in TrackTypes
      BY <1>1, <2>1, <2>3
    <3>7. slots = [s.slots EXCEPT ![role] = EmptySlot]
      BY DEF slots
    <3> QED BY <1>2, <2>1, <2>3, <3>2, <3>4, <3>5, <3>6, <3>7
  <2> QED BY <2>2, <2>3
<1>5. CASE r = AudioClosed(s, e, h)
  <2>1. CASE Is(s.slots["audio"], e) /\ h \in {NoHandle, s.slots["audio"].track}
    <3> DEFINE after == [s EXCEPT !.slots["audio"] = EmptySlot]
               slots == [s.slots EXCEPT !["audio"] = EmptySlot]
               connected == HasOwner(after)
    <3>1. r = [after EXCEPT !.connected = connected]
      BY <1>5, <2>1 DEF AudioClosed
    <3>2. connected \in BOOLEAN
      BY DEF HasOwner
    <3>3. after = [s EXCEPT !.slots = slots]
      BY <1>1 DEF Sources
    <3> HIDE DEF after, connected, slots
    <3>4. s.output \in BOOLEAN
      BY <1>1 DEF Sources
    <3>5. r = [s EXCEPT !.slots = slots, !.output = s.output, !.connected = connected]
      BY <1>1, <3>1, <3>3 DEF Sources
    <3>6. /\ slots = [s.slots EXCEPT !["audio"] = EmptySlot]
          /\ "audio" \in TrackTypes
      BY <1>1 DEF slots
    <3> QED BY <1>1, <1>2, <2>1, <3>2, <3>4, <3>5, <3>6
  <2>2. CASE ~(Is(s.slots["audio"], e) /\ h \in {NoHandle, s.slots["audio"].track})
    <3>1. r = [s EXCEPT !.connected = HasOwner(s)] /\ HasOwner(s) \in BOOLEAN
      BY <1>5, <2>2 DEF AudioClosed, HasOwner
    <3> QED BY <1>3, <3>1
  <2> QED BY <2>1, <2>2
<1> QED BY <1>4, <1>5

\* A track leaves the bundles.
LEMMA UndeferredOK ==
  ASSUME NEW s, Base(s), NEW e, NEW type \in TrackTypes, NEW h \in Handle,
         NEW r, r = Undeferred(s, e, type, h)
  PROVE  Base(r) /\ Shrinks(s, r) /\ KeepsWires(s, r) /\ r.seen = s.seen
<1> DEFINE emptied(b) == IF Is(b, e) /\ h \in {NoHandle, b.tracks[type]}
                         THEN [b EXCEPT !.tracks[type] = NoHandle] ELSE b
           bundles == [i \in 1..Len(s.pending) |-> emptied(s.pending[i])]
           keep == {b \in Range(bundles) : \E t \in TrackTypes : b.tracks[t] # NoHandle}
           q == Sifted(bundles, keep)
<1>1. s \in Sources /\ BundlesOK(s) /\ s.pending \in Seq(Bundle) /\ Len(s.pending) \in Nat
      /\ s.slots \in [TrackTypes -> SlotOrEmpty]
  BY DEF Base, Sources
<1>2. r = [s EXCEPT !.pending = q]
  BY DEF Undeferred
<1>3. \A i \in 1..Len(s.pending) :
        /\ bundles[i] \in Bundle /\ Is(bundles[i], s.pending[i])
        /\ \A t \in TrackTypes : bundles[i].tracks[t] # NoHandle =>
             bundles[i].tracks[t] = s.pending[i].tracks[t]
  <2> TAKE i \in 1..Len(s.pending)
  <2>1. s.pending[i] \in Bundle
    BY <1>1
  <2>2. bundles[i] = s.pending[i]
        \/ bundles[i] = [s.pending[i] EXCEPT !.tracks[type] = NoHandle]
    OBVIOUS
  <2> HIDE DEF bundles
  <2>3. CASE bundles[i] = s.pending[i]
    BY <2>1, <2>3 DEF Is
  <2>4. CASE bundles[i] = [s.pending[i] EXCEPT !.tracks[type] = NoHandle]
    BY <2>1, <2>4 DEF Is, Bundle
  <2> QED BY <2>2, <2>3, <2>4
<1>4. bundles \in Seq(Bundle) /\ Len(bundles) = Len(s.pending)
  <2>1. /\ DOMAIN bundles = 1..Len(s.pending)
        /\ bundles = [i \in 1..Len(s.pending) |-> bundles[i]]
    OBVIOUS
  <2> HIDE DEF bundles
  <2>2. bundles \in [1..Len(s.pending) -> Bundle]
    BY <1>3, <2>1
  <2> QED BY <1>1, <2>2
<1>5. /\ q \in Seq(Bundle) /\ Len(q) <= Len(bundles)
      /\ \A i \in 1..Len(bundles) : bundles[i] \in keep =>
           \E k \in 1..Len(q) : q[k] = bundles[i]
      /\ \A k \in 1..Len(q) : q[k] \in keep
      /\ \E at \in [1..Len(q) -> 1..Len(bundles)] :
           /\ \A k \in 1..Len(q) : q[k] = bundles[at[k]]
           /\ \A k, l \in 1..Len(q) : k # l => at[k] # at[l]
  <2>1. q = Sifted(bundles, keep)
    OBVIOUS
  <2> HIDE DEF bundles, keep, q
  <2>2. bundles \in Seq(Bundle)
    BY <1>4
  <2>3. q \in Seq(Bundle) /\ SiftedFrom(bundles, keep, q)
    BY <2>1, <2>2, SiftedKeeps
  <2> QED BY <2>3 DEF SiftedFrom
<1>6. \A k \in 1..Len(q) : \E t \in TrackTypes : q[k].tracks[t] # NoHandle
  <2> HIDE DEF bundles, q
  <2> QED BY <1>5
<1> HIDE DEF bundles, keep, q
<1>7. /\ r \in Sources /\ r.slots = s.slots /\ r.pending = q /\ r.wired = s.wired
      /\ r.seen = s.seen
  BY <1>1, <1>2, <1>5 DEF Sources
<1>8. Thins(s, r)
  <2>1. PICK at \in [1..Len(q) -> 1..Len(bundles)] :
          /\ \A k \in 1..Len(q) : q[k] = bundles[at[k]]
          /\ \A k, l \in 1..Len(q) : k # l => at[k] # at[l]
    BY <1>5
  <2>2. \A k \in 1..Len(q) :
          /\ Is(q[k], s.pending[at[k]])
          /\ \A t \in TrackTypes : q[k].tracks[t] # NoHandle =>
               q[k].tracks[t] = s.pending[at[k]].tracks[t]
    BY <1>3, <1>4, <2>1
  <2> QED BY <1>4, <1>7, <2>1, <2>2 DEF Thins
<1>9. Base(r) /\ Shrinks(s, r)
  BY <1>6, <1>7, <1>8, ThinOK
<1>10. KeepsWires(s, r)
  BY <1>7 DEF KeepsWires, Wires
<1> QED BY <1>7, <1>9, <1>10

\* The manager's event of a slot: one track may go, one may come.
LEMMA SlotChangedOK ==
  ASSUME NEW s, Settled(s), NEW e, EventOK(e), e.kind = "slot",
         e.track # NoHandle => ~InUse(s, e.track), NEW r, r = SlotChanged(s, e)
  PROVE  /\ Settled(r)
         /\ \A h \in Handle : InUse(r, h) => InUse(s, h) \/ h = e.track
<1> DEFINE a == Accepted(s, e, FALSE, "slot")
           at == [generation |-> e.generation, revision |-> e.revision]
           admitted == [a EXCEPT !.position[e.type][e.uuid] = at]
           closed == IF e.type = "audio" THEN AudioClosed(admitted, e, e.retired)
                     ELSE VideoClosed(admitted, e, e.type, e.retired)
           dropped == Undeferred(closed, e, e.type, e.retired)
           tracked == OnTrackAndMark(admitted, e, e.type, e.track)
           adopted == Adopted(dropped)
<1>1. /\ e \in Told /\ PeerIs(e) /\ e.sequence \in Nat /\ e.type \in TrackTypes
      /\ e.track \in Handles /\ e.retired \in Handles /\ e.revision \in Nat
      /\ e.track = NoHandle => e.retired \in Handle
      /\ e.track # NoHandle => e.track \in Handle /\ (e.type # "video" => e.track.playable)
  BY DEF EventOK, Told, PeerIs, Handles
<1>2. CASE r = s
  BY <1>2
<1>3. CASE r # s
  <2>1. Accepts(s, e, "slot")
        /\ r = IF e.track # NoHandle THEN Published(CallbacksCleared(tracked, e.retired))
               ELSE AfterAdoption(dropped, CallbacksCleared(adopted, e.retired))
    BY <1>3 DEF SlotChanged
  <2>2. Settled(a) /\ Shrinks(s, a) /\ Live(a, e)
    BY <1>1, <2>1, AcceptedOK DEF Accepts
  <2> HIDE DEF a
  <2>3. Settled(admitted) /\ Shrinks(s, admitted) /\ Live(admitted, e)
    <3> DEFINE position == [a.position EXCEPT ![e.type][e.uuid] = at]
    <3>1. a \in Sources /\ ShownOK(a)
      BY <2>2 DEF Settled, Base
    <3>2. admitted = [a EXCEPT !.position = position]
      BY <3>1 DEF Sources
    <3>3. at \in [generation : Nat, revision : Nat]
      BY <1>1 DEF PeerIs
    <3> HIDE DEF at
    <3>4. position \in Positions
      BY <3>1, <3>3 DEF Sources, Positions
    <3> HIDE DEF position, admitted
    <3>5. admitted \in Sources /\ SameMedia(a, admitted) /\ KeepsNotes(a, admitted)
      BY <3>1, <3>2, <3>4 DEF Sources, SameMedia, KeepsNotes
    <3>6. ShownOK(admitted)
      BY <2>2, <3>1, <3>5, SameMediaKeeps DEF Settled
    <3>7. Settled(admitted) /\ Shrinks(a, admitted)
      BY <2>2, <3>5, <3>6, SettledSame
    <3> QED BY <2>2, <3>5, <3>7 DEF Shrinks, SameMedia, Live
  <2> HIDE DEF admitted
  <2>4. /\ admitted \in Sources /\ Base(admitted) /\ WiresOK(admitted)
        /\ Awaits(admitted)
        /\ AllLive(admitted) /\ NoHandle \in Handles
    BY <2>3 DEF Settled, Base, Handles
  <2>w. Wires(admitted, NoHandle)
    BY <2>4, WiresAre
  <2>5. CASE e.track # NoHandle
    <3> DEFINE cleared == CallbacksCleared(tracked, e.retired)
    <3>1. r = Published(cleared)
      BY <2>1, <2>5
    <3>2. ~InUse(admitted, e.track)
      BY <1>1, <2>3, <2>5 DEF Shrinks
    <3>3. /\ Base(tracked) /\ tracked.seen = admitted.seen
          /\ KeepsWires(admitted, tracked)
          /\ Grows(admitted, tracked, e, e.track) /\ Awaits(tracked)
      BY <1>1, <2>4, <2>5, <3>2, OnTrackAndMarkOK
    <3> HIDE DEF tracked
    <3>4. /\ Base(cleared) /\ Shrinks(tracked, cleared)
          /\ KeepsWires(tracked, cleared)
          /\ KeepsNotes(tracked, cleared)
          /\ cleared.slots = tracked.slots /\ cleared.pending = tracked.pending
      BY <1>1, <3>3, ClearedOK
    <3> HIDE DEF cleared
    <3>5. r \in Sources /\ SameMedia(cleared, r) /\ ShownOK(r)
      BY <3>1, <3>4, PublishedOK
    <3>6. Base(r) /\ Shrinks(cleared, r) /\ KeepsWires(cleared, r)
      BY <3>4, <3>5, SameMediaKeeps
    <3>7. WiresOK(r)
      <4>1. Wires(r, NoHandle)
        BY <2>4, <2>w, <3>3, <3>4, <3>6 DEF KeepsWires
      <4> QED BY <3>5, <4>1, WiresAre
    <3>8. Awaits(r)
      BY <3>3, <3>4, <3>5 DEF Awaits, SameMedia, HasOwner, Occupied
    <3>9. AllLive(r)
      <4>1. r.seen = admitted.seen
        BY <3>3, <3>4, <3>5 DEF SameMedia, KeepsNotes
      <4>2. \A x \in PeerIds : Known(r, x) => Known(admitted, x) \/ Is(x, e)
        BY <3>3, <3>4, <3>6 DEF Shrinks, Grows
      <4>3. \A x \in PeerIds : Known(r, x) => Live(r, x)
        BY <2>3, <2>4, <4>1, <4>2, AllLiveIs DEF Live, Is
      <4> QED BY <3>5, <4>3, AllLiveIs
    <3>10. \A h \in Handle : InUse(r, h) => InUse(s, h) \/ h = e.track
      BY <2>3, <3>3, <3>4, <3>6 DEF Shrinks, Grows
    <3> QED BY <3>5, <3>6, <3>7, <3>8, <3>9, <3>10 DEF Settled
  <2>6. CASE e.track = NoHandle
    <3> DEFINE h == e.retired
               cleared == CallbacksCleared(adopted, h)
    <3>1. r = AfterAdoption(dropped, cleared) /\ h \in Handle /\ h \in Handles
      BY <1>1, <2>1, <2>6 DEF Handles
    <3>2. /\ Base(closed) /\ Shrinks(admitted, closed)
          /\ closed.seen = admitted.seen
          /\ WiresOK(closed) \/ (Wires(closed, h) /\ ~InUse(closed, h))
      BY <1>1, <2>4, <3>1, VideoClosedOK
    <3> HIDE DEF closed
    <3>3. Base(dropped) /\ Shrinks(closed, dropped) /\ KeepsWires(closed, dropped)
          /\ dropped.seen = closed.seen
      BY <1>1, <3>1, <3>2, UndeferredOK
    <3> HIDE DEF dropped
    <3>4. /\ Base(adopted) /\ KeepsNotes(dropped, adopted)
          /\ Shrinks(dropped, adopted)
          /\ KeepsWires(dropped, adopted) /\ Awaits(adopted)
      BY <3>3, AdoptedOK
    <3> HIDE DEF adopted
    <3>5. /\ Base(cleared) /\ Shrinks(adopted, cleared)
          /\ KeepsWires(adopted, cleared)
          /\ KeepsNotes(adopted, cleared)
          /\ cleared.slots = adopted.slots /\ cleared.pending = adopted.pending
          /\ Wires(adopted, h) /\ ~InUse(adopted, h) => WiresOK(cleared)
      BY <3>1, <3>4, ClearedOK
    <3> HIDE DEF cleared
    <3>6. WiresOK(cleared)
      <4>1. CASE WiresOK(closed)
        <5>1. Wires(closed, NoHandle)
          BY <3>2, <4>1, WiresAre DEF Base
        <5>2. Wires(cleared, NoHandle)
          BY <2>4, <3>3, <3>4, <3>5, <5>1 DEF KeepsWires
        <5> QED BY <3>5, <5>2, WiresAre DEF Base
      <4>2. CASE Wires(closed, h) /\ ~InUse(closed, h)
        <5>1. Wires(adopted, h)
          BY <3>1, <3>3, <3>4, <4>2 DEF KeepsWires
        <5>2. ~InUse(adopted, h)
          BY <3>1, <3>3, <3>4, <4>2 DEF Shrinks
        <5> QED BY <3>5, <5>1, <5>2
      <4> QED BY <3>2, <4>1, <4>2
    <3>7. r \in Sources /\ SameMedia(cleared, r) /\ ShownOK(r)
      BY <3>1, <3>5, AfterAdoptionOK
    <3>8. Base(r) /\ Shrinks(cleared, r)
      BY <3>5, <3>7, SameMediaKeeps
    <3>9. WiresOK(r)
      BY <3>6, <3>7 DEF SameMedia, WiresOK, Occupied
    <3>10. Awaits(r)
      BY <3>4, <3>5, <3>7 DEF Awaits, SameMedia, HasOwner, Occupied
    <3>11. Shrinks(admitted, r)
      BY <3>2, <3>3, <3>4, <3>5, <3>8 DEF Shrinks
    <3>12. AllLive(r)
      <4>1. r.seen = admitted.seen
        BY <3>2, <3>3, <3>4, <3>5, <3>7 DEF SameMedia, KeepsNotes
      <4>2. \A x \in PeerIds : Known(r, x) => Live(r, x)
        BY <2>4, <3>11, <4>1, AllLiveIs DEF Live, Shrinks
      <4> QED BY <3>7, <4>2, AllLiveIs
    <3>13. \A g \in Handle : InUse(r, g) => InUse(s, g)
      BY <2>3, <3>11 DEF Shrinks
    <3> QED BY <3>7, <3>8, <3>9, <3>10, <3>12, <3>13 DEF Settled
  <2> QED BY <2>5, <2>6
<1> QED BY <1>2, <1>3

\* Whatever the event, the source is settled after its handler.
LEMMA HandledOK ==
  ASSUME NEW s, Settled(s), ManagerOK, NEW e, EventOK(e), Arrives(e) => ~InUse(s, e.track),
         NEW r, r = Handled(s, e)
  PROVE  /\ Settled(r)
         /\ \A h \in Handle :
              InUse(r, h) => InUse(s, h) \/ (Arrives(e) /\ h = e.track)
<1>1. e \in Told /\ PeerIs(e) /\ e.sequence \in Nat
      /\ e.kind \in {"connected", "disconnected", "cleanup", "bye", "open", "slot", "control"}
  BY DEF EventOK, Told, PeerIs
<1>2. CASE e.kind = "slot"
  <2>1. r = SlotChanged(s, e)
    BY <1>2 DEF Handled
  <2>2. /\ Settled(r)
        /\ \A h \in Handle : InUse(r, h) => InUse(s, h) \/ h = e.track
    BY <1>2, <2>1, SlotChangedOK DEF Arrives
  <2>3. \A h \in Handle : h # NoHandle
    BY DEF Handle, NoHandle
  <2> QED BY <1>2, <2>2, <2>3 DEF Arrives
<1>3. CASE e.kind # "slot"
  <2>1. \/ r = PeerEnded(s, e) \/ r = PeerCameUp(s, e)
        \/ r = ChannelOpened(s, e) \/ r = ControlReceived(s, e)
    BY <1>1, <1>3 DEF Handled
  <2>2. Settled(r) /\ Shrinks(s, r)
    BY <1>1, <2>1, PeerEndedOK, PeerCameUpOK, ControlReceivedOK
  <2> QED BY <2>2 DEF Shrinks
<1> QED BY <1>2, <1>3

\* The state of the retries.
LEMMA RetriesTyped ==
  ASSUME NEW q \in RetryState
  PROVE  /\ \A reset \in BOOLEAN : Requested(q, reset) \in RetryState
         /\ \A alert \in Alerts : Alerted(q, alert) \in RetryState
         /\ RequestTimedOut(q) \in RetryState /\ RetryTaken(q) \in RetryState
         /\ Elapsed(q) \subseteq RetryState /\ NoRetry \in RetryState
<1>1. /\ q.awaiting \in BOOLEAN /\ q.due \in {"none", "waiting", "ripe"}
      /\ q.recent \in BOOLEAN
      /\ q.asked \in BOOLEAN /\ q.suppressed \in BOOLEAN
  BY DEF RetryState
<1>2. \A reset \in BOOLEAN : Requested(q, reset) \in RetryState
  BY DEF RetryState, Requested
<1>3. \A alert \in Alerts : Alerted(q, alert) \in RetryState
  BY DEF RetryState, Alerted, Alerts, RetryScheduled
<1>4. /\ RequestTimedOut(q) \in RetryState /\ RetryTaken(q) \in RetryState
      /\ NoRetry \in RetryState
  BY DEF RetryState, RequestTimedOut, RetryTaken, NoRetry
<1>5. Elapsed(q) \subseteq RetryState
  BY DEF RetryState, Elapsed
<1> QED BY <1>2, <1>3, <1>4, <1>5

\* Another session begins with nothing.
LEMMA FreshOK ==
  ASSUME NEW connected \in BOOLEAN, NEW retry \in RetryState,
         NEW r, r = FreshSource(connected, retry)
  PROVE  Settled(r) /\ \A h \in Handle : ~InUse(r, h)
<1>0. MaxGenerations \in Nat
  BY SourceTracksAssumption
<1>1. /\ r.slots = [t \in TrackTypes |-> EmptySlot] /\ r.pending = <<>>
      /\ r.wired = {}
      /\ Len(r.pending) = 0
  BY DEF FreshSource
<1>2. r \in Sources
  <2> DEFINE slots == [t \in TrackTypes |-> EmptySlot]
             seen == [p \in Publishers |-> [generation |-> 0, terminal |-> FALSE,
                                            message |-> 0, open |-> 0]]
             position == [t \in TrackTypes |->
                            [p \in Publishers |-> [generation |-> 0, revision |-> 0]]]
             mutes == [p \in Publishers |-> [g \in 1..MaxGenerations |-> Unmuted]]
  <2>1. slots \in [TrackTypes -> SlotOrEmpty]
    BY DEF SlotOrEmpty
  <2>2. seen \in [Publishers -> Seen]
    BY <1>0 DEF Seen
  <2>3. position \in Positions
    BY DEF Positions
  <2>4. /\ mutes \in [Publishers -> [1..MaxGenerations -> Mutes]]
        /\ Unmuted \in Mutes
    BY DEF Unmuted, Mutes
  <2>5. r = [slots |-> slots, pending |-> <<>>, seen |-> seen, position |-> position,
             mutes |-> mutes, shown |-> Unmuted, audible |-> FALSE, wired |-> {},
             output |-> FALSE, connected |-> connected, retry |-> retry]
    BY DEF FreshSource
  <2>6. <<>> \in Seq(Bundle)
    OBVIOUS
  <2> HIDE DEF slots, seen, position, mutes
  <2> QED BY <2>1, <2>2, <2>3, <2>4, <2>5, <2>6 DEF Sources
<1>3. \A t \in TrackTypes : r.slots[t] = EmptySlot
  BY <1>1
<1>4. ~HasOwner(r) /\ EmptySlot.track = NoHandle /\ \A h \in Handle : h # NoHandle
  <2>1. ~HasOwner(r)
    BY <1>3 DEF HasOwner, Occupied
  <2>2. EmptySlot.track = NoHandle
    BY DEF EmptySlot
  <2>3. \A h \in Handle : h # NoHandle
    BY DEF Handle, NoHandle
  <2> QED BY <2>1, <2>2, <2>3
<1>5. Base(r)
  BY <1>1, <1>2, <1>3, <1>4 DEF Base, OneOwner, Apart, BundlesOK
<1>6. WiresOK(r) /\ AllLive(r) /\ Awaits(r) /\ ShownOK(r)
  BY <1>1, <1>3, <1>4 DEF WiresOK, AllLive, Awaits, ShownOK, Occupied
<1>7. \A h \in Handle : ~InUse(r, h)
  BY <1>1, <1>3, <1>4 DEF InUse
<1> QED BY <1>5, <1>6, <1>7 DEF Settled

\* A retry changes nothing else.
LEMMA RetryOK ==
  ASSUME NEW s, Settled(s), NEW q \in RetryState, NEW r, r = [s EXCEPT !.retry = q]
  PROVE  Settled(r) /\ Shrinks(s, r)
<1>1. s \in Sources /\ Base(s) /\ ShownOK(s)
  BY DEF Settled, Base
<1>2. r \in Sources /\ SameMedia(s, r) /\ KeepsNotes(s, r)
  BY <1>1 DEF Sources, SameMedia, KeepsNotes
<1>3. ShownOK(r)
  BY <1>1, <1>2, SameMediaKeeps
<1> QED BY <1>2, <1>3, SettledSame

\* Handlers add no track but the one that came.
LEMMA WireShrinks ==
  ASSUME WireOK, wire' \subseteq wire, created' = created, Settled(source), Settled(source'),
         \A h \in Handle : InUse(source', h) =>
           \/ InUse(source, h)
           \/ \E e \in wire : Arrives(e) /\ h = e.track /\ e \notin wire'
  PROVE  WireOK'
<1>1. \A e \in wire' : EventOK(e)
  BY DEF WireOK
<1>2. ASSUME NEW e \in wire', Arrives(e)
      PROVE  e.track.n <= created' /\ ~InUse(source', e.track)
  <2>1. /\ e \in wire /\ e.track \in Handle /\ e.track.n <= created
        /\ ~InUse(source, e.track)
    BY <1>2 DEF WireOK, EventOK, Told, Arrives, Handles
  <2> QED BY <1>2, <2>1 DEF WireOK
<1>3. \A e, f \in wire' :
        Arrives(e) /\ Arrives(f) /\ e.track = f.track => e = f
  BY DEF WireOK
<1>4. \A h \in Handle : InUse(source', h) => h.n <= created'
  BY DEF WireOK
<1> QED BY <1>1, <1>2, <1>3, <1>4 DEF WireOK

\* A new event brings a track nobody has seen.
LEMMA WireGrows ==
  ASSUME WireOK, created \in Nat, UNCHANGED source,
         NEW e, EventOK(e), wire' \subseteq wire \cup {e},
         created' \in {created, created + 1},
         Arrives(e) => e.track.n = created + 1 /\ created' = created + 1
  PROVE  WireOK'
<1>1. \A f \in wire' : EventOK(f)
  BY DEF WireOK
<1>2. \A f \in wire : Arrives(f) => f.track \in Handle /\ f.track.n \in Nat
  BY DEF WireOK, EventOK, Told, Arrives, Handles, Handle
<1>3. Arrives(e) => e.track \in Handle
  BY DEF EventOK, Told, Arrives, Handles
<1>4. \A h \in Handle : h.n \in Nat
  BY DEF Handle
<1>5. ASSUME NEW f \in wire', Arrives(f)
      PROVE  f.track.n <= created' /\ ~InUse(source', f.track)
  <2>1. CASE f \in wire
    BY <1>2, <1>5, <2>1 DEF WireOK
  <2>2. CASE f = e
    <3>1. f.track \in Handle /\ f.track.n = created + 1 /\ created' = created + 1
      BY <1>3, <1>5, <2>2
    <3>2. ~InUse(source, f.track)
      BY <1>4, <3>1 DEF WireOK
    <3> QED BY <3>1, <3>2
  <2> QED BY <1>5, <2>1, <2>2
<1>6. ASSUME NEW f \in wire', NEW g \in wire', Arrives(f), Arrives(g), f.track = g.track
      PROVE  f = g
  <2>1. \A x \in wire : Arrives(x) => x.track.n <= created
    BY DEF WireOK
  <2>2. CASE f \in wire /\ g \in wire
    BY <1>6, <2>2 DEF WireOK
  <2>3. CASE f = e /\ g \in wire
    BY <1>2, <1>6, <2>1, <2>3
  <2>4. CASE f \in wire /\ g = e
    BY <1>2, <1>6, <2>1, <2>4
  <2> QED BY <2>2, <2>3, <2>4
<1>7. \A h \in Handle : InUse(source', h) => h.n <= created'
  BY <1>4 DEF WireOK
<1> QED BY <1>1, <1>5, <1>6, <1>7 DEF WireOK

\* An event is delivered to its handler.
LEMMA DeliverKeeps ==
  ASSUME TracksInv, NEW e \in wire, Deliver(e)
  PROVE  TracksInv'
<1>1. /\ Settled(source) /\ WireOK /\ ManagerOK /\ EventOK(e) /\ e \in Told
      /\ Arrives(e) => ~InUse(source, e.track)
  BY DEF TracksInv, WireOK, EventOK
<1>2. /\ wire' = wire \ {e} /\ source' = Handled(source, e)
      /\ UNCHANGED <<control, sig, left, created>>
  BY DEF Deliver
<1>3. /\ Settled(source')
      /\ \A h \in Handle : InUse(source', h) =>
           InUse(source, h) \/ (Arrives(e) /\ h = e.track)
  BY <1>1, <1>2, HandledOK
<1>4. WireOK'
  <2>1. wire' \subseteq wire /\ e \in wire /\ e \notin wire'
    BY <1>2
  <2>2. \A h \in Handle : InUse(source', h) =>
          \/ InUse(source, h)
          \/ \E f \in wire : Arrives(f) /\ h = f.track /\ f \notin wire'
    BY <1>3, <2>1
  <2> QED BY <1>1, <1>2, <1>3, <2>1, <2>2, WireShrinks
<1>5. ManagerOK'
  <2>1. manager \in [Publishers -> KnownPeers]
        /\ \A p \in Publishers :
             manager[p].state # "absent" => manager[p].generation # 0
    BY <1>1 DEF ManagerOK
  <2>2. \/ manager' = [manager EXCEPT ![e.uuid].state = "absent"]
        \/ /\ e.target \in Publishers
           /\ manager' = [manager EXCEPT ![e.target].sequence = manager[e.target].sequence + 1]
        \/ manager' = manager
    <3>1. e.target # NoPublisher => e.target \in Publishers
      BY <1>1 DEF Told
    <3> QED BY <3>1 DEF Deliver
  <2>3. ASSUME NEW p \in Publishers, NEW k \in KnownPeers,
               k.generation = manager[p].generation,
               k.state \in {"absent", manager[p].state},
               manager' = [manager EXCEPT ![p] = k]
        PROVE  ManagerOK'
    <3>1. manager' \in [Publishers -> KnownPeers]
      BY <2>1, <2>3
    <3>2. \A q \in Publishers : manager'[q] = IF q = p THEN k ELSE manager[q]
      BY <2>1, <2>3
    <3> QED BY <2>1, <2>3, <3>1, <3>2 DEF ManagerOK
  <2>4. CASE manager' = [manager EXCEPT ![e.uuid].state = "absent"]
    <3> DEFINE k == [manager[e.uuid] EXCEPT !.state = "absent"]
    <3>1. e.uuid \in Publishers /\ manager[e.uuid] \in KnownPeers
      BY <1>1, <2>1 DEF Told
    <3>2. /\ k \in KnownPeers /\ k.generation = manager[e.uuid].generation
          /\ k.state = "absent"
      BY <3>1 DEF KnownPeers
    <3>3. manager' = [manager EXCEPT ![e.uuid] = k]
      BY <2>4
    <3> HIDE DEF k
    <3> QED BY <2>3, <3>1, <3>2, <3>3
  <2>5. CASE /\ e.target \in Publishers
             /\ manager' = [manager EXCEPT ![e.target].sequence = manager[e.target].sequence + 1]
    <3> DEFINE k == [manager[e.target] EXCEPT !.sequence = manager[e.target].sequence + 1]
    <3>1. manager[e.target] \in KnownPeers
      BY <2>1, <2>5
    <3>2. k \in KnownPeers /\ k.generation = manager[e.target].generation
          /\ k.state = manager[e.target].state
      BY <3>1 DEF KnownPeers
    <3>3. manager' = [manager EXCEPT ![e.target] = k]
      BY <2>5
    <3> HIDE DEF k
    <3> QED BY <2>3, <2>5, <3>2, <3>3
  <2>6. CASE manager' = manager
    BY <1>1, <2>6 DEF ManagerOK
  <2> QED BY <2>2, <2>4, <2>5, <2>6
<1> QED BY <1>2, <1>3, <1>4, <1>5 DEF TracksInv

\* What a step of the manager does to one peer, and the event it may send.
LEMMA ManagerStep ==
  ASSUME TracksInv, NEW p \in Publishers, NEW k \in KnownPeers,
         k.state # "absent" => k.generation # 0,
         manager' = [manager EXCEPT ![p] = k],
         NEW e, EventOK(e), wire' \subseteq wire \cup {e}, UNCHANGED <<source, control, sig>>,
         created' \in {created, created + 1},
         Arrives(e) => e.track.n = created + 1 /\ created' = created + 1
  PROVE  TracksInv'
<1>1. WireOK' /\ created' \in Nat
  BY WireGrows DEF TracksInv
<1>2. ManagerOK'
  <2>1. manager' \in [Publishers -> KnownPeers]
    BY DEF TracksInv, ManagerOK
  <2>2. \A q \in Publishers : manager'[q] = IF q = p THEN k ELSE manager[q]
    BY DEF TracksInv, ManagerOK
  <2> QED BY <2>1, <2>2 DEF TracksInv, ManagerOK
<1> QED BY <1>1, <1>2 DEF TracksInv

\* The event that the manager sends of a peer.
LEMMA EventFits ==
  ASSUME TracksInv, NEW p \in Publishers, manager[p].state # "absent",
         NEW kind \in {"connected", "disconnected", "cleanup", "bye", "open", "slot", "control"}
  PROVE  Event(kind, p) \in Told /\ Event(kind, p).kind = kind
<1>1. manager[p] \in KnownPeers /\ manager[p].generation # 0
  BY DEF TracksInv, ManagerOK
<1>2. /\ manager[p].generation \in 1..MaxGenerations
      /\ manager[p].sequence + 1 \in Nat
  BY <1>1 DEF KnownPeers
<1> QED BY <1>2 DEF Event, Told, Handles, TrackTypes

\* The manager changes a slot,
LEMMA SetSlotKeeps ==
  ASSUME TracksInv, NEW p \in Publishers, NEW type \in TrackTypes, NEW track \in Handles,
         SetSlot(p, type, track), UNCHANGED <<source, control, sig>>,
         created' \in {created, created + 1},
         track # NoHandle => /\ track.n = created + 1 /\ created' = created + 1
                             /\ type # "video" => track.playable
  PROVE  TracksInv'
<1> DEFINE old == manager[p].slots[type]
           slot == [track |-> track, revision |-> old.revision + 1]
           k == [manager[p] EXCEPT !.slots = [manager[p].slots EXCEPT ![type] = slot]]
           base == Event("slot", p)
           e == [base EXCEPT !.type = type, !.revision = old.revision + 1,
                             !.track = track, !.retired = old.track]
<1>1. manager[p] \in KnownPeers /\ manager[p].state # "absent" /\ manager[p].generation # 0
      /\ manager[p].slots \in ManagerSlots /\ manager \in [Publishers -> KnownPeers]
  BY DEF TracksInv, ManagerOK, SetSlot, KnownPeers
<1>2. old.track \in Handles /\ old.revision \in Nat /\ old.track # track
  BY <1>1 DEF ManagerSlots, SetSlot
<1>3. manager' = [manager EXCEPT ![p] = k] /\ wire' \subseteq wire \cup {e}
  <2>1. manager' = [manager EXCEPT ![p].slots[type] = slot]
    BY DEF SetSlot
  <2>2. manager' = [manager EXCEPT ![p] = k]
    BY <1>1, <2>1 DEF KnownPeers
  <2>3. wire' \subseteq wire \cup {e}
    BY DEF SetSlot, Emit
  <2> QED BY <2>2, <2>3
<1>4. k \in KnownPeers /\ k.generation = manager[p].generation
  <2>1. slot \in [track : Handles, revision : Nat]
    BY <1>2
  <2> HIDE DEF slot
  <2>2. [manager[p].slots EXCEPT ![type] = slot] \in ManagerSlots
    BY <1>1, <2>1 DEF ManagerSlots
  <2> QED BY <1>1, <2>2 DEF KnownPeers
<1>5. base \in Told /\ base.kind = "slot"
  BY <1>1, EventFits
<1> HIDE DEF base, old, k
<1>6. /\ e \in Told /\ e.kind = "slot" /\ e.track = track
      /\ e.retired = old.track /\ e.type = type
  <2> DEFINE e1 == [base EXCEPT !.type = type, !.revision = old.revision + 1]
             e2 == [e1 EXCEPT !.track = track]
  <2>1. old.revision + 1 \in Nat
    BY <1>2
  <2>2. e1 \in Told /\ e1.kind = "slot" /\ e1.type = type
    BY <1>5, <2>1 DEF Told
  <2>e. e = [e1 EXCEPT !.track = track, !.retired = old.track]
    BY <1>5 DEF Told
  <2> HIDE DEF e1
  <2>3. e2 \in Told /\ e2.kind = "slot" /\ e2.type = type /\ e2.track = track
    BY <2>2 DEF Told
  <2>f. e = [e2 EXCEPT !.retired = old.track]
    BY <2>2, <2>e DEF Told
  <2> HIDE DEF e2, e
  <2> QED BY <1>2, <2>3, <2>f DEF Told
<1> HIDE DEF e
<1>7. EventOK(e)
  BY <1>2, <1>6 DEF EventOK
<1>8. Arrives(e) => e.track.n = created + 1 /\ created' = created + 1
  BY <1>6 DEF Arrives
<1> QED BY <1>1, <1>3, <1>4, <1>7, <1>8, ManagerStep

\* because a track arrives
LEMMA TrackArrivesKeeps ==
  ASSUME TracksInv, NEW p \in Publishers, NEW type \in TrackTypes, TrackArrives(p, type)
  PROVE  TracksInv'
<1>1. PICK track \in NewHandles(type) : SetSlot(p, type, track)
  BY DEF TrackArrives
<1>2. /\ created' = created + 1 /\ UNCHANGED <<source, control, sig>>
      /\ created \in Nat
  BY DEF TrackArrives, TracksInv
<1>3. /\ track \in Handle /\ track.n = created + 1
      /\ (type # "video" => track.playable)
  <2>0. \/ track = [n |-> created + 1, mid |-> type, playable |-> TRUE]
        \/ track = [n |-> created + 1, mid |-> "video", playable |-> TRUE]
        \/ type = "video" /\ track = [n |-> created + 1, mid |-> "video", playable |-> FALSE]
    BY <1>1 DEF NewHandles
  <2>1. created + 1 \in Nat \ {0} /\ type \in {"video", "alpha", "audio"}
    BY <1>2 DEF TrackTypes
  <2>2. track \in Handle
    <3>1. \A m \in Nat \ {0}, mid \in {"video", "alpha", "audio"}, playable \in BOOLEAN :
            [n |-> m, mid |-> mid, playable |-> playable] \in Handle
      BY DEF Handle
    <3> QED BY <2>0, <2>1, <3>1
  <2>3. track.n = created + 1
    BY <2>0
  <2>4. type # "video" => track.playable
    BY <2>0
  <2> QED BY <2>2, <2>3, <2>4
<1> QED BY <1>1, <1>2, <1>3, SetSlotKeeps DEF Handles

\* or ends.
LEMMA TrackEndsKeeps ==
  ASSUME TracksInv, NEW p \in Publishers, NEW type \in TrackTypes, TrackEnds(p, type)
  PROVE  TracksInv'
<1>1. SetSlot(p, type, NoHandle) /\ UNCHANGED <<source, control, sig, created>>
      /\ NoHandle \in Handles
  BY DEF TrackEnds, Handles
<1> QED BY <1>1, SetSlotKeeps

\* Any other event of a peer.
LEMMA PeerSpeaks ==
  ASSUME TracksInv, NEW p \in Publishers, NEW e \in Told, e.kind # "slot", Speaks(p, e)
  PROVE  TracksInv'
<1> DEFINE k == [manager[p] EXCEPT !.sequence = manager[p].sequence + 1]
<1>1. /\ manager[p] \in KnownPeers /\ manager[p].state # "absent"
      /\ manager[p].generation # 0
  BY DEF TracksInv, ManagerOK, Speaks
<1>2. k \in KnownPeers /\ k.generation = manager[p].generation
  BY <1>1 DEF KnownPeers
<1>3. manager' = [manager EXCEPT ![p] = k] /\ wire' \subseteq wire \cup {e}
      /\ UNCHANGED <<source, control, sig, created>>
  BY DEF Speaks, Emit
<1> HIDE DEF k
<1>4. EventOK(e) /\ ~Arrives(e)
  BY DEF EventOK, Arrives
<1> QED BY <1>1, <1>2, <1>3, <1>4, ManagerStep

\* Each step of a peer.
LEMMA PeerKeeps ==
  ASSUME TracksInv, NEW p \in Publishers, PeerNext(p)
  PROVE  TracksInv'
<1>0. manager[p] \in KnownPeers /\ manager \in [Publishers -> KnownPeers]
      /\ (manager[p].state # "absent" => manager[p].generation # 0)
      /\ MaxGenerations \in Nat
  BY SourceTracksAssumption DEF TracksInv, ManagerOK
<1>1. CASE StartPeer(p)
  <2> DEFINE k == [generation |-> manager[p].generation + 1, state |-> "connecting",
                   sequence |-> 0, slots |-> [t \in TrackTypes |-> NoManagerSlot]]
  <2>1. /\ manager[p].generation \in 0..MaxGenerations
        /\ manager[p].generation < MaxGenerations
    BY <1>0, <1>1 DEF StartPeer, KnownPeers
  <2>2. [t \in TrackTypes |-> NoManagerSlot] \in ManagerSlots
    BY DEF NoManagerSlot, ManagerSlots, Handles
  <2>3. k \in KnownPeers /\ k.generation # 0
    BY <1>0, <2>1, <2>2 DEF KnownPeers
  <2>4. /\ manager' = [manager EXCEPT ![p] = k]
        /\ UNCHANGED <<wire, source, control, sig, created>>
    BY <1>1 DEF StartPeer
  <2> HIDE DEF k
  <2>5. ManagerOK'
    <3>1. manager' \in [Publishers -> KnownPeers]
      BY <1>0, <2>3, <2>4
    <3>2. \A q \in Publishers : manager'[q] = IF q = p THEN k ELSE manager[q]
      BY <1>0, <2>4
    <3> QED BY <2>3, <3>1, <3>2 DEF TracksInv, ManagerOK
  <2>6. WireOK'
    BY <2>4 DEF TracksInv, WireOK
  <2> QED BY <2>4, <2>5, <2>6 DEF TracksInv
<1>2. CASE PeerUp(p) \/ PeerDown(p)
  <2>1. PICK kind \in {"connected", "disconnected"}, state \in {"connected", "absent"} :
          /\ manager[p].state # "absent"
          /\ manager' = [manager EXCEPT ![p].state = state]
          /\ wire' \subseteq wire \cup {Event(kind, p)}
          /\ UNCHANGED <<source, control, sig, created>>
    BY <1>2 DEF PeerUp, PeerDown, Emit
  <2> DEFINE k == [manager[p] EXCEPT !.state = state]
             e == Event(kind, p)
  <2>2. k \in KnownPeers /\ k.generation = manager[p].generation /\ k.state = state
    BY <1>0, <2>1 DEF KnownPeers
  <2>3. manager' = [manager EXCEPT ![p] = k]
    BY <2>1
  <2> HIDE DEF k
  <2>4. e \in Told /\ e.kind = kind
    BY <2>1, EventFits
  <2>5. wire' \subseteq wire \cup {e}
    BY <2>1
  <2> HIDE DEF e
  <2>6. EventOK(e) /\ ~Arrives(e)
    BY <2>1, <2>4 DEF EventOK, Arrives
  <2> QED BY <1>0, <2>1, <2>2, <2>3, <2>5, <2>6, ManagerStep
<1>3. ASSUME NEW type \in TrackTypes, TrackArrives(p, type) \/ TrackEnds(p, type)
      PROVE  TracksInv'
  BY <1>3, TrackArrivesKeeps, TrackEndsKeeps
<1>4. ASSUME NEW what \in {"audio", "video"}, NEW value \in BOOLEAN,
             NEW target \in (Publishers \ {p}) \cup {NoPublisher},
             SendControl(p, what, value, target)
      PROVE  TracksInv'
  <2> DEFINE base == Event("control", p)
             e == [base EXCEPT !.what = what, !.value = value, !.target = target]
  <2>1. Speaks(p, e) /\ manager[p].state # "absent"
    BY <1>4 DEF SendControl, Speaks
  <2>2. base \in Told /\ base.kind = "control"
    BY <2>1, EventFits
  <2> HIDE DEF base
  <2>3. e \in Told /\ e.kind = "control"
    BY <2>2 DEF Told
  <2> HIDE DEF e
  <2> QED BY <2>1, <2>3, PeerSpeaks
<1>5. CASE SendBye(p) \/ OpenChannel(p) \/ ServerRemoves(p)
  <2>1. PICK kind \in {"bye", "open", "cleanup"} : Speaks(p, Event(kind, p))
    BY <1>5 DEF SendBye, OpenChannel, ServerRemoves
  <2>2. Event(kind, p) \in Told /\ Event(kind, p).kind # "slot"
    BY <2>1, EventFits DEF Speaks
  <2> QED BY <2>1, <2>2, PeerSpeaks
<1> QED BY <1>1, <1>2, <1>3, <1>4, <1>5 DEF PeerNext

\* A step of the source's own threads: what it leaves of the source and the
\* places of the threads.
LEMMA SourceStep ==
  ASSUME TracksInv, UNCHANGED <<manager, wire, created>>, Settled(source'),
         \A h \in Handle : InUse(source', h) => InUse(source, h),
         control' \in Control, sig' \in {"off", "opening", "up"}
  PROVE  TracksInv'
<1>1. WireOK'
  <2>1. wire' \subseteq wire /\ WireOK /\ Settled(source)
    BY DEF TracksInv
  <2> QED BY <2>1, WireShrinks
<1>2. ManagerOK'
  BY DEF TracksInv, ManagerOK
<1> QED BY <1>1, <1>2 DEF TracksInv

\* The threads of the source, the service and the user.
LEMMA ThreadsKeep ==
  ASSUME TracksInv, \/ Connect \/ InstallCallbacks \/ ThreadConnects \/ ThreadConnected
                    \/ ThreadGivesUp \/ ThreadEnds \/ ServerAccepts \/ ServerGoes
                    \/ StreamAdded \/ (\E alert \in Alerts : Alert(alert))
                    \/ ServiceTimeout \/ ServiceTakes \/ ServiceRequests \/ TimePasses
                    \/ Disconnect \/ CloseSignaling \/ RemoveCallbacks \/ ResetNativeState
  PROVE  TracksInv'
<1>1. /\ Settled(source) /\ source \in Sources /\ source.retry \in RetryState
      /\ source.connected \in BOOLEAN /\ control \in Control
      /\ sig \in {"off", "opening", "up"}
  BY DEF TracksInv, Settled, Base, Sources
<1> DEFINE Places == control' \in Control /\ sig' \in {"off", "opening", "up"}
                     /\ UNCHANGED <<manager, wire, created>>
           Kept == Settled(source') /\ \A h \in Handle : InUse(source', h) => InUse(source, h)
<1>2. ASSUME NEW q \in RetryState, source' = [source EXCEPT !.retry = q]
      PROVE  Kept
  BY <1>1, <1>2, RetryOK DEF Shrinks
<1>3. ASSUME source' = source PROVE Kept
  BY <1>1, <1>3
<1>4. ASSUME NEW c \in BOOLEAN, NEW q \in RetryState,
             source' = FreshSource(c, q)
      PROVE  Kept
  BY <1>4, FreshOK
<1>5. /\ \A reset \in BOOLEAN : Requested(source.retry, reset) \in RetryState
      /\ \A alert \in Alerts : Alerted(source.retry, alert) \in RetryState
      /\ RequestTimedOut(source.retry) \in RetryState
      /\ RetryTaken(source.retry) \in RetryState
      /\ \A q \in Elapsed(source.retry) : q \in RetryState
      /\ NoRetry \in RetryState
  BY <1>1, RetriesTyped
<1>6. CASE InstallCallbacks \/ ThreadConnects \/ ThreadConnected \/ ThreadGivesUp
           \/ ThreadEnds \/ ServerGoes \/ CloseSignaling \/ RemoveCallbacks
  <2>1. Places /\ source' = source
    BY <1>1, <1>6
    DEF InstallCallbacks, ThreadConnects, ThreadConnected, ThreadGivesUp,
         ThreadEnds, ServerGoes, CloseSignaling, RemoveCallbacks, Control
  <2> QED BY <1>3, <2>1, SourceStep
<1>7. CASE Connect \/ ResetNativeState
  <2>1. Places /\ \E q \in RetryState : source' = FreshSource(source.connected, q)
    BY <1>1, <1>5, <1>7 DEF Connect, ResetNativeState, Control
  <2> QED BY <1>1, <1>4, <2>1, SourceStep
<1>8. CASE ServerAccepts \/ StreamAdded \/ (\E alert \in Alerts : Alert(alert))
           \/ ServiceTimeout \/ ServiceTakes \/ ServiceRequests \/ TimePasses
  <2>1. Places
    BY <1>1, <1>8
    DEF ServerAccepts, StreamAdded, Alert, ServiceTimeout, ServiceTakes,
         ServiceRequests, TimePasses, Control
  <2>2. source' = source \/ \E q \in RetryState : source' = [source EXCEPT !.retry = q]
    BY <1>5, <1>8
    DEF ServerAccepts, StreamAdded, Alert, ServiceTimeout, ServiceTakes,
         ServiceRequests, TimePasses
  <2>3. Kept
    BY <1>2, <1>3, <2>2
  <2> QED BY <2>1, <2>3, SourceStep
<1>9. CASE Disconnect
  <2>1. Places
    BY <1>1, <1>9 DEF Disconnect, Control
  <2>2. source' = [source EXCEPT !.connected = FALSE, !.audible = FALSE, !.retry = NoRetry]
    BY <1>9 DEF Disconnect
  <2>3. /\ source' \in Sources /\ SameMedia(source, source')
        /\ source'.audible = FALSE
        /\ source'.shown = source.shown /\ source'.mutes = source.mutes
    BY <1>1, <1>5, <2>2 DEF Sources, SameMedia
  <2>4. ShownOK(source')
    BY <1>1, <2>3
    DEF Settled, ShownOK, SameMedia, HasOwner, Occupied, OwnerSlot
  <2>5. Kept
    BY <1>1, <2>3, <2>4, SettledSame DEF Shrinks
  <2> QED BY <2>1, <2>5, SourceStep
<1> QED BY <1>6, <1>7, <1>8, <1>9

\* Before the first session.
LEMMA TracksStart ==
  ASSUME TrackInit
  PROVE  TracksInv
<1>1. /\ manager = [p \in Publishers |->
           [generation |-> 0, state |-> "absent", sequence |-> 0,
            slots |-> [t \in TrackTypes |-> NoManagerSlot]]]
      /\ wire = {} /\ source = FreshSource(FALSE, NoRetry) /\ created = 0
      /\ sig = "off"
      /\ control = [thread |-> "none", caller |-> "idle", running |-> FALSE,
                    hooked |-> FALSE, taken |-> FALSE]
  BY DEF TrackInit
<1>2. Settled(source) /\ \A h \in Handle : ~InUse(source, h)
  <2>1. NoRetry \in RetryState
    BY DEF NoRetry, RetryState
  <2> QED BY <1>1, <2>1, FreshOK
<1>3. WireOK
  BY <1>1, <1>2 DEF WireOK
<1>4. ManagerOK
  <2>1. [t \in TrackTypes |-> NoManagerSlot] \in ManagerSlots
    BY DEF NoManagerSlot, ManagerSlots, Handles
  <2>2. MaxGenerations \in Nat
    BY SourceTracksAssumption
  <2> DEFINE none == [t \in TrackTypes |-> NoManagerSlot]
             k == [generation |-> 0, state |-> "absent", sequence |-> 0, slots |-> none]
  <2>3. manager = [p \in Publishers |-> k] /\ none \in ManagerSlots
    BY <1>1, <2>1
  <2> HIDE DEF none
  <2>4. k \in KnownPeers /\ k.state = "absent"
    BY <2>2, <2>3 DEF KnownPeers
  <2> HIDE DEF k
  <2> QED BY <2>3, <2>4 DEF ManagerOK
<1> QED BY <1>1, <1>2, <1>3, <1>4 DEF TracksInv, Control

\* Every step keeps the invariant.
LEMMA TracksStep ==
  ASSUME TracksInv, [TrackNext]_trackVars
  PROVE  TracksInv'
<1>1. CASE UNCHANGED trackVars
  BY <1>1 DEF trackVars, TracksInv, WireOK, ManagerOK
<1>2. CASE TrackNext
  BY <1>2, DeliverKeeps, PeerKeeps, ThreadsKeep DEF TrackNext
<1> QED BY <1>1, <1>2

\* Every variable of the source's tracks has its type.
THEOREM TracksTyped == TrackSpec => []TracksTypeOK
<1>1. TracksInv => TracksTypeOK
  BY DEF TracksInv, Settled, Base, Sources, ManagerOK, KnownPeers,
     TracksTypeOK
<1> QED BY <1>1, TracksStart, TracksStep, PTL DEF TrackSpec

\* All slots belong to one generation of one publisher that has not ended, and
\* a bundle waits only behind an owner; for any publishers, generations and
\* budgets, with events in any order.
THEOREM OneOwnerOnly == TrackSpec => []OneLiveOwner
<1>1. TracksInv => OneLiveOwner
  <2> SUFFICES ASSUME TracksInv PROVE OneLiveOwner
    OBVIOUS
  <2>1. OneOwner(source) /\ AllLive(source) /\ Awaits(source)
    BY DEF TracksInv, Settled, Base
  <2>2. \A t \in Occupied(source) :
          t \in TrackTypes /\ source.slots[t] # EmptySlot
    BY DEF Occupied
  <2> QED BY <2>1, <2>2 DEF OneOwner, AllLive, Live, Awaits, OneLiveOwner
<1> QED BY <1>1, TracksStart, TracksStep, PTL DEF TrackSpec

\* The mute state that is shown is the owner's.
THEOREM OwnerIsShown == TrackSpec => []ShownFollowsOwner
<1>1. TracksInv => ShownFollowsOwner
  BY DEF TracksInv, Settled, ShownOK, ShownFollowsOwner
<1> QED BY <1>1, TracksStart, TracksStep, PTL DEF TrackSpec

\* Callbacks are set on the tracks of the slots, and on no other.
THEOREM PlayedAreWired == TrackSpec => []PlayedTracksAreWired
<1>1. TracksInv => PlayedTracksAreWired
  BY DEF TracksInv, Settled, WiresOK, PlayedTracksAreWired
<1> QED BY <1>1, TracksStart, TracksStep, PTL DEF TrackSpec

------------------------------------------------------------------------------
(***************************************************************************)
(* Its pictures (SourceMedia, AlphaSync).                                  *)
(***************************************************************************)
\* The records that the pipeline passes on.
Times == Timestamp \cup {None}
Pieces == [ts : Times, from : SUBSET Nat]
Frames == [ts : Times, epoch : Nat, from : SUBSET Nat]
Queues == [Sides -> Seq(Frames)]
Syncs == [waiting : Queues, newest : Times, last : Times, generation : Nat]
MediaPairs == [primary : Frames, alpha : Frames, generation : Nat]

\* A frame that was decoded in an epoch is made of packets of that epoch.
Own(f) == f.from = {f.epoch}

\* The queues keep their bound and hold such frames.
SyncOK(s) ==
  /\ s \in Syncs
  /\ \A side \in Sides : /\ Len(s.waiting[side]) <= MaxFrames
                         /\ \A i \in 1..Len(s.waiting[side]) :
                              Own(s.waiting[side][i])

\* A pair is of one time and one epoch.
PairOK(pair) ==
  /\ pair \in MediaPairs /\ Own(pair.primary) /\ Own(pair.alpha)
  /\ pair.primary.ts = pair.alpha.ts /\ pair.primary.epoch = pair.alpha.epoch

\* Removing frames from the queues leaves them sound.
LEMMA SiftedSyncOK ==
  ASSUME NEW s, SyncOK(s), NEW q, NEW keep,
         q = [side \in Sides |-> Sifted(s.waiting[side], keep[side])]
  PROVE  /\ q \in Queues
         /\ \A side \in Sides : /\ Len(q[side]) <= MaxFrames
                                /\ \A i \in 1..Len(q[side]) : Own(q[side][i])
<1> SUFFICES ASSUME NEW side \in Sides
             PROVE  /\ q[side] \in Seq(Frames) /\ Len(q[side]) <= MaxFrames
                    /\ \A i \in 1..Len(q[side]) : Own(q[side][i])
  BY DEF Queues
<1>1. s.waiting[side] \in Seq(Frames) /\ Len(s.waiting[side]) <= MaxFrames
      /\ \A i \in 1..Len(s.waiting[side]) : Own(s.waiting[side][i])
  BY DEF SyncOK, Syncs, Queues
<1>2. PICK w : w = s.waiting[side]
  OBVIOUS
<1>3. PICK r : r = Sifted(w, keep[side])
  OBVIOUS
<1>4. q[side] = r
  BY <1>2, <1>3
<1>a. w \in Seq(Frames)
  BY <1>1, <1>2
<1>b. r \in Seq(Frames) /\ SiftedFrom(w, keep[side], r)
  BY <1>3, <1>a, SiftedKeeps
<1>5. r \in Seq(Frames) /\ Len(r) <= Len(w) /\ w \in Seq(Frames)
  BY <1>a, <1>b DEF SiftedFrom
<1>6. PICK at \in [1..Len(r) -> 1..Len(w)] :
        /\ \A k \in 1..Len(r) : r[k] = w[at[k]]
        /\ \A k, l \in 1..Len(r) : k # l => at[k] # at[l]
  BY <1>b DEF SiftedFrom
<1>7. Len(r) \in Nat /\ Len(w) \in Nat /\ MaxFrames \in Nat
  BY <1>5, AlphaSyncAssumption
<1>8. \A k \in 1..Len(r) : Own(r[k])
  BY <1>1, <1>2, <1>6
<1> QED BY <1>1, <1>2, <1>4, <1>5, <1>7, <1>8

\* The newest time.
LEMMA ObservedOK ==
  ASSUME NEW s, SyncOK(s), NEW ts \in Times, NEW r, r = Observed(s, ts)
  PROVE  SyncOK(r) /\ r.generation = s.generation
<1> DEFINE newest == IF s.newest = None \/ Before(s.newest, ts) THEN ts ELSE s.newest
           keep == [side \in Sides |-> {f \in Range(s.waiting[side]) : ~TooOld(f.ts, newest)}]
           q == [side \in Sides |-> Sifted(s.waiting[side], keep[side])]
<1>1. r = [s EXCEPT !.newest = newest, !.waiting = q]
  BY DEF Observed
<1>2. newest \in Times
  BY DEF SyncOK, Syncs
<1>3. PICK k : k = keep
  OBVIOUS
<1>4. q = [side \in Sides |-> Sifted(s.waiting[side], k[side])]
  BY <1>3
<1> HIDE DEF newest, keep, q
<1>5. /\ q \in Queues
      /\ \A side \in Sides : /\ Len(q[side]) <= MaxFrames
                             /\ \A i \in 1..Len(q[side]) : Own(q[side][i])
  BY <1>4, SiftedSyncOK
<1>6. r \in Syncs /\ r.waiting = q /\ r.generation = s.generation
  BY <1>1, <1>2, <1>5 DEF SyncOK, Syncs
<1> QED BY <1>5, <1>6 DEF SyncOK

\* A pair leaves the queues.
LEMMA PairedAtOK ==
  ASSUME NEW s, SyncOK(s), NEW ts \in Times, NEW r, r = PairedAt(s, ts)
  PROVE  SyncOK(r)
<1> DEFINE keep == [side \in Sides |-> {f \in Range(s.waiting[side]) : ~Emitted(f.ts, ts)}]
           q == [side \in Sides |-> Sifted(s.waiting[side], keep[side])]
<1>1. r = [s EXCEPT !.last = ts, !.waiting = q]
  BY DEF PairedAt
<1>2. PICK k : k = keep
  OBVIOUS
<1>3. q = [side \in Sides |-> Sifted(s.waiting[side], k[side])]
  BY <1>2
<1> HIDE DEF keep, q
<1>4. /\ q \in Queues
      /\ \A side \in Sides : /\ Len(q[side]) <= MaxFrames
                             /\ \A i \in 1..Len(q[side]) : Own(q[side][i])
  BY <1>3, SiftedSyncOK
<1>5. r \in Syncs /\ r.waiting = q
  BY <1>1, <1>4 DEF SyncOK, Syncs
<1> QED BY <1>4, <1>5 DEF SyncOK

\* A frame is queued, if need be in the place of the oldest.
LEMMA QueuedOK ==
  ASSUME NEW s, SyncOK(s), NEW side \in Sides, NEW frame \in Frames, Own(frame),
         NEW r, r = Queued(s, side, frame)
  PROVE  SyncOK(r)
<1> DEFINE queue == s.waiting[side]
           again == {i \in 1..Len(queue) : queue[i].ts = frame.ts}
           added == Append(queue, frame)
           other == [i \in 1..Len(queue) |-> IF i \in again THEN frame ELSE queue[i]]
           new == IF again # {} THEN other
                  ELSE IF Len(added) > MaxFrames THEN Tail(added) ELSE added
<1>1. r = [s EXCEPT !.waiting = [s.waiting EXCEPT ![side] = new]]
  BY DEF Queued, SyncOK, Syncs
<1>2. s \in Syncs /\ queue \in Seq(Frames) /\ Len(queue) <= MaxFrames /\ Len(queue) \in Nat
      /\ MaxFrames \in Nat \ {0} /\ \A i \in 1..Len(queue) : Own(queue[i])
  BY AlphaSyncAssumption DEF SyncOK, Syncs, Queues
<1> HIDE DEF queue, again
<1>3. /\ other \in Seq(Frames) /\ Len(other) = Len(queue)
      /\ \A i \in 1..Len(other) : Own(other[i])
  <2>1. other \in [1..Len(queue) -> Frames]
    BY <1>2
  <2> QED BY <1>2, <2>1
<1>4. /\ added \in Seq(Frames) /\ Len(added) = Len(queue) + 1
      /\ \A i \in 1..Len(added) : Own(added[i])
  BY <1>2
<1> HIDE DEF other, added
<1>5. Len(added) > MaxFrames =>
        /\ Tail(added) \in Seq(Frames) /\ Len(Tail(added)) = Len(queue)
        /\ \A i \in 1..Len(Tail(added)) : Own(Tail(added)[i])
  BY <1>2, <1>4
<1>6. /\ new \in Seq(Frames) /\ Len(new) <= MaxFrames
      /\ \A i \in 1..Len(new) : Own(new[i])
  BY <1>2, <1>3, <1>4, <1>5
<1> HIDE DEF new
<1>7. r \in Syncs /\ r.waiting[side] = new
      /\ \A o \in Sides : o # side => r.waiting[o] = s.waiting[o]
  BY <1>1, <1>2, <1>6 DEF Syncs, Queues
<1> QED BY <1>6, <1>7 DEF SyncOK

\* A frame that comes in finds a partner of its own time and epoch, or waits.
LEMMA PushedOK ==
  ASSUME NEW s, SyncOK(s), NEW side \in Sides, NEW frame \in Frames, Own(frame),
         NEW r, r = Pushed(s, side, frame)
  PROVE  SyncOK(r.sync) /\ \A pair \in r.pairs : PairOK(pair)
<1>1. CASE Rejected(s, frame.ts)
  BY <1>1 DEF Pushed
<1>2. CASE ~Rejected(s, frame.ts)
  <2>1. PICK seen : seen = Observed(s, frame.ts)
    OBVIOUS
  <2>2. SyncOK(seen) /\ seen.generation = s.generation /\ frame.ts \in Times
    BY <2>1, ObservedOK DEF Frames
  <2>3. PICK found : found = Matches(seen, side, frame)
    OBVIOUS
  <2>4. CASE found = {}
    <3>1. r = [sync |-> Queued(seen, side, frame), pairs |-> {}]
      BY <1>2, <2>1, <2>3, <2>4 DEF Pushed
    <3> QED BY <2>2, <3>1, QueuedOK
  <2>5. CASE found # {}
    <3> DEFINE k == CHOOSE i \in found : \A j \in found : i <= j
               partner == seen.waiting[OtherSide(side)][k]
               pair == [primary |-> IF side = "primary" THEN frame ELSE partner,
                        alpha |-> IF side = "alpha" THEN frame ELSE partner,
                        generation |-> s.generation]
    <3>1. r = [sync |-> PairedAt(seen, frame.ts), pairs |-> {pair}]
      BY <1>2, <2>1, <2>3, <2>5 DEF Pushed
    <3>2. /\ found \in SUBSET (1..Len(seen.waiting[OtherSide(side)]))
          /\ found \in SUBSET Nat
      BY <2>3 DEF Matches
    <3>3. k \in found
      <4>1. \E i \in found : \A j \in found : i <= j
        BY <2>5, <3>2, NatLeast
      <4> QED BY <4>1
    <3>4. partner.ts = frame.ts /\ partner.epoch = frame.epoch
      <4> HIDE DEF k
      <4>1. \A i \in found : /\ seen.waiting[OtherSide(side)][i].ts = frame.ts
                              /\ seen.waiting[OtherSide(side)][i].epoch = frame.epoch
        BY <2>3 DEF Matches
      <4> QED BY <3>3, <4>1
    <3>5. partner \in Frames /\ Own(partner) /\ OtherSide(side) \in Sides
      <4> DEFINE other == OtherSide(side)
                 queue == seen.waiting[other]
      <4>1. other \in Sides
        BY DEF OtherSide, Sides
      <4> HIDE DEF other
      <4>2. queue \in Seq(Frames) /\ \A i \in 1..Len(queue) : Own(queue[i])
        BY <2>2, <4>1 DEF SyncOK, Syncs, Queues
      <4>3. k \in 1..Len(queue)
        BY <3>2, <3>3 DEF other
      <4> HIDE DEF queue
      <4>4. queue[k] \in Frames /\ Own(queue[k])
        BY <4>2, <4>3
      <4> QED BY <4>1, <4>4 DEF queue, other
    <3> HIDE DEF partner, k
    <3>6. PairOK(pair)
      <4>1. s.generation \in Nat
        BY DEF SyncOK, Syncs
      <4> QED BY <3>4, <3>5, <4>1 DEF PairOK, MediaPairs, Sides
    <3> QED BY <2>2, <3>1, <3>6, PairedAtOK
  <2> QED BY <2>4, <2>5
<1> QED BY <1>1, <1>2

\* The parts of the pipeline's state.
Assemblies == [active : BOOLEAN, ts : Times, from : SUBSET Nat]
Stages == {"idle", "assemble", "decode", "output", "bare", "pair", "paired"}
Jobs == [stage : Stages, epoch : Nat, ts : Times, part : PacketParts,
         todo : Seq(Pieces), out : Seq(Frames), pairs : SUBSET MediaPairs]
Codecs == {"h264", "vp9"}
Pipes == [epoch : Nat, outputEpoch : Nat, codec : Codecs, suppressed : BOOLEAN,
          track : [Sides -> BOOLEAN], alphaActive : BOOLEAN,
          assembly : [Sides -> Assemblies], decoder : [Sides -> Seq(Pieces)],
          sync : Syncs, mapped : Times]
Pictures == [shown : BOOLEAN, ts : Times, from : SUBSET Nat, alphaTs : Times]
Handlers == [stage : {"idle", "transition", "clearing"}, enable : BOOLEAN]
Alloweds == [video : Int, alpha : Int, frames : Nat, parts : SUBSET PacketParts,
             reorder : BOOLEAN, codecs : SUBSET Codecs, changes : Int, mutes : Int,
             failures : Int, sent : [Sides -> Int]]

\* What a thread carries comes from packets of the epoch it captured.
PiecesFrom(pieces, epoch) == \A i \in 1..Len(pieces) : pieces[i].from = {epoch}
JobOK(job) ==
  /\ job \in Jobs
  /\ PiecesFrom(job.todo, job.epoch)
  /\ \A i \in 1..Len(job.out) : Own(job.out[i]) /\ job.out[i].epoch = job.epoch
  /\ \A pair \in job.pairs : PairOK(pair)
  /\ job.stage = "decode" => job.todo # <<>>
  /\ job.stage \in {"output", "bare", "pair", "paired"} => job.out # <<>>

\* What the pipeline holds comes from packets of its own epoch.
PipeOK(p) ==
  /\ p \in Pipes /\ p.epoch # 0 /\ p.outputEpoch \in {0, p.epoch}
  /\ p.alphaActive = p.track["alpha"]
  /\ SyncOK(p.sync)
  /\ \A side \in Sides : /\ p.assembly[side].from \subseteq {p.epoch}
                         /\ PiecesFrom(p.decoder[side], p.epoch)

\* A thread without a packet.
LEMMA IdleJobOK == JobOK(IdleJob) /\ IdleJob.epoch = 0
<1>1. IdleJob \in Jobs
  BY DEF IdleJob, Jobs, Stages, Times, PacketParts
<1> QED BY <1>1 DEF JobOK, IdleJob, PiecesFrom

\* The next frame of a job, or its end.
LEMMA RestOK ==
  ASSUME NEW job, JobOK(job), NEW r, r = Rest(job)
  PROVE  JobOK(r) /\ r.epoch \in {0, job.epoch}
<1>1. CASE Len(job.out) > 1
  <2>1. r = [job EXCEPT !.stage = "output", !.out = Tail(job.out), !.pairs = {}]
    BY <1>1 DEF Rest
  <2>2. job \in Jobs /\ job.out \in Seq(Frames) /\ Len(job.out) \in Nat
    BY DEF JobOK, Jobs
  <2>3. Tail(job.out) \in Seq(Frames) /\ Tail(job.out) # <<>>
        /\ \A i \in 1..Len(Tail(job.out)) :
             Own(Tail(job.out)[i]) /\ Tail(job.out)[i].epoch = job.epoch
    <3>1. Len(Tail(job.out)) = Len(job.out) - 1 /\ Tail(job.out) \in Seq(Frames)
          /\ \A i \in 1..Len(Tail(job.out)) :
               Tail(job.out)[i] = job.out[i + 1]
      BY <1>1, <2>2
    <3>2. \A i \in 1..Len(Tail(job.out)) : i + 1 \in 1..Len(job.out)
      BY <2>2, <3>1
    <3>3. Tail(job.out) # <<>>
      <4>1. PICK t : t = Tail(job.out)
        OBVIOUS
      <4>2. Len(t) > 0
        BY <1>1, <2>2, <3>1, <4>1
      <4>3. Len(<<>>) = 0
        OBVIOUS
      <4>4. t # <<>>
        BY <4>2, <4>3
      <4> QED BY <4>1, <4>4
    <3> QED BY <3>1, <3>2, <3>3 DEF JobOK
  <2>4. /\ r \in Jobs /\ r.out = Tail(job.out) /\ r.stage = "output" /\ r.pairs = {}
        /\ r.todo = job.todo /\ r.epoch = job.epoch
    BY <2>1, <2>2, <2>3 DEF Jobs, Stages
  <2> QED BY <2>3, <2>4 DEF JobOK
<1>2. CASE ~(Len(job.out) > 1) /\ job.todo # <<>>
  <2>1. r = [job EXCEPT !.stage = "decode", !.out = <<>>, !.pairs = {}]
    BY <1>2 DEF Rest
  <2>2. /\ r \in Jobs /\ r.out = <<>> /\ r.stage = "decode" /\ r.pairs = {}
        /\ r.todo = job.todo /\ r.epoch = job.epoch
    <3>1. job \in Jobs /\ <<>> \in Seq(Frames) /\ {} \in SUBSET MediaPairs
      BY DEF JobOK
    <3> QED BY <2>1, <3>1 DEF Jobs, Stages
  <2> QED BY <1>2, <2>2 DEF JobOK
<1>3. CASE ~(Len(job.out) > 1) /\ job.todo = <<>>
  <2>1. r = IdleJob
    BY <1>3 DEF Rest
  <2> QED BY <2>1, IdleJobOK
<1> QED BY <1>1, <1>2, <1>3

\* What is assembled, and what it is assembled from, is of one epoch.
LEMMA AssembledOK ==
  ASSUME NEW a \in Assemblies, NEW ts \in Times, NEW part \in PacketParts, NEW epoch \in Nat,
         a.from \subseteq {epoch}, NEW r,
         r = AssembledH264(a, ts, part, epoch) \/ r = AssembledVP9(a, ts, part, epoch)
  PROVE  /\ r.assembly \in Assemblies /\ r.assembly.from \subseteq {epoch}
         /\ r.done \in Seq(Pieces) /\ PiecesFrom(r.done, epoch)
<1>1. \A f : f \in Pieces => <<f>> \in Seq(Pieces)
  OBVIOUS
<1>2. CASE r = AssembledH264(a, ts, part, epoch)
  <2> DEFINE turns == a.active /\ a.ts # ts
             kept == IF a.active /\ ~turns THEN a.from ELSE {}
             before == IF turns /\ a.from # {} THEN <<FrameOf(a)>> ELSE <<>>
             now == [active |-> TRUE, ts |-> ts, from |-> kept \cup {epoch}]
  <2>1. r = IF part = "odd"
            THEN [assembly |-> [active |-> TRUE, ts |-> ts, from |-> kept], done |-> <<>>]
            ELSE IF Ends(part)
            THEN [assembly |-> [EmptyAssembly EXCEPT !.ts = ts],
                  done |-> Append(before, FrameOf(now))]
            ELSE [assembly |-> now, done |-> before]
    BY <1>2 DEF AssembledH264
  <2>2. kept \in SUBSET {epoch} /\ kept \in SUBSET Nat
    BY DEF Assemblies
  <2>3. before \in Seq(Pieces) /\ PiecesFrom(before, epoch) /\ Len(before) \in {0, 1}
    <3>1. a.from # {} => FrameOf(a) \in Pieces /\ FrameOf(a).from = {epoch}
      BY DEF FrameOf, Pieces, Assemblies
    <3> QED BY <3>1 DEF PiecesFrom
  <2>4. now \in Assemblies /\ now.from = {epoch}
    BY <2>2 DEF Assemblies
  <2>5. FrameOf(now) \in Pieces /\ FrameOf(now).from = {epoch}
    BY <2>4 DEF FrameOf, Pieces, Assemblies
  <2> HIDE DEF kept, before, now
  <2>6. /\ Append(before, FrameOf(now)) \in Seq(Pieces)
        /\ PiecesFrom(Append(before, FrameOf(now)), epoch)
    BY <2>3, <2>5 DEF PiecesFrom
  <2>7. /\ [active |-> TRUE, ts |-> ts, from |-> kept] \in Assemblies
        /\ [EmptyAssembly EXCEPT !.ts = ts] \in Assemblies
        /\ [EmptyAssembly EXCEPT !.ts = ts].from = {}
    BY <2>2 DEF Assemblies, EmptyAssembly
  <2>8. <<>> \in Seq(Pieces) /\ PiecesFrom(<<>>, epoch)
    BY DEF PiecesFrom
  <2> QED BY <2>1, <2>2, <2>3, <2>4, <2>6, <2>7, <2>8
<1>3. CASE r = AssembledVP9(a, ts, part, epoch)
  <2> DEFINE begun == IF Begins(part) THEN [active |-> TRUE, ts |-> ts, from |-> {}] ELSE a
             now == [begun EXCEPT !.from = begun.from \cup {epoch}]
             empty == [EmptyAssembly EXCEPT !.ts = begun.ts]
  <2>1. r = IF part = "odd" \/ ~begun.active THEN [assembly |-> a, done |-> <<>>]
            ELSE IF Ends(part) THEN [assembly |-> empty, done |-> <<FrameOf(now)>>]
            ELSE [assembly |-> now, done |-> <<>>]
    BY <1>3 DEF AssembledVP9
  <2>2. begun \in Assemblies /\ begun.from \in SUBSET {epoch}
    BY DEF Assemblies
  <2> HIDE DEF begun
  <2>3. now \in Assemblies /\ now.from = {epoch}
    BY <2>2 DEF Assemblies
  <2>4. empty \in Assemblies /\ empty.from = {}
    BY <2>2 DEF Assemblies, EmptyAssembly
  <2> HIDE DEF now, empty
  <2>5. FrameOf(now) \in Pieces /\ FrameOf(now).from = {epoch}
    BY <2>3 DEF FrameOf, Pieces, Assemblies
  <2>6. /\ <<FrameOf(now)>> \in Seq(Pieces)
        /\ PiecesFrom(<<FrameOf(now)>>, epoch)
    BY <1>1, <2>5 DEF PiecesFrom
  <2>7. <<>> \in Seq(Pieces) /\ PiecesFrom(<<>>, epoch)
    BY DEF PiecesFrom
  <2> QED BY <2>1, <2>3, <2>4, <2>6, <2>7
<1> QED BY <1>2, <1>3

\* The threads' jobs.
JobsOK == jobs \in [Threads -> Jobs] /\ \A t \in Threads : JobOK(jobs[t])

\* What is shown comes from the current epoch, unless a transition is under
\* way, which output waits for.
PictureOK ==
  /\ picture \in Pictures /\ handler \in Handlers
  /\ handler.stage = "transition" => pipe.outputEpoch = 0
  /\ ShownIsCurrent /\ AlphaMatches
  /\ picture.shown /\ pipe.mapped # None => pipe.mapped = picture.ts

\* The inductive invariant.
MediaInv == PipeOK(pipe) /\ JobsOK /\ PictureOK /\ allowed \in Alloweds

\* A thread's own step.
LEMMA SetOK ==
  ASSUME JobsOK, NEW t \in Threads, NEW job, JobOK(job), Set(t, job)
  PROVE  JobsOK'
<1>1. job \in Jobs
  BY DEF JobOK
<1>2. jobs' = [jobs EXCEPT ![t] = job]
  BY DEF Set
<1>3. jobs' \in [Threads -> Jobs]
  BY <1>1, <1>2 DEF JobsOK
<1>4. ASSUME NEW u \in Threads PROVE JobOK(jobs'[u])
  BY <1>2 DEF JobsOK
<1> QED BY <1>3, <1>4 DEF JobsOK

\* A thread that is done.
LEMMA FinishOK ==
  ASSUME JobsOK, NEW t \in Threads, Finish(t)
  PROVE  JobsOK'
  BY IdleJobOK, SetOK DEF Finish

\* Empty queues.
LEMMA FreshSyncOK ==
  ASSUME NEW g \in Nat
  PROVE  SyncOK(FreshSync(g))
<1> DEFINE w == [side \in Sides |-> <<>>]
<1>1. w \in Queues /\ \A side \in Sides : w[side] = <<>> /\ Len(w[side]) = 0
  BY DEF Queues
<1>2. FreshSync(g) = [waiting |-> w, newest |-> None, last |-> None, generation |-> g]
  BY DEF FreshSync
<1> HIDE DEF w
<1>3. FreshSync(g) \in Syncs /\ FreshSync(g).waiting = w
  BY <1>1, <1>2 DEF Syncs, Times
<1> QED BY <1>1, <1>3, AlphaSyncAssumption DEF SyncOK

\* What the properties of the picture are about stays as it was.
Unseen ==
  /\ picture' = picture /\ handler' = handler
  /\ pipe'.epoch = pipe.epoch /\ pipe'.outputEpoch = pipe.outputEpoch
  /\ pipe'.suppressed = pipe.suppressed /\ pipe'.alphaActive = pipe.alphaActive
  /\ pipe'.mapped \in {pipe.mapped, None}

\* Such a step keeps what is shown current.
LEMMA UnseenKeeps ==
  ASSUME PictureOK, Unseen
  PROVE  PictureOK'
  BY DEF PictureOK, Unseen, ShownIsCurrent, AlphaMatches, HandlerIdle

\* A budget is spent.
LEMMA AllowKeeps ==
  ASSUME allowed \in Alloweds, NEW what \in {"changes", "mutes", "failures"}, Allow(what)
  PROVE  allowed' \in Alloweds
  BY DEF Allow, Alloweds

\* Timestamps wrap.
LEMMA TimestampTyped ==
  ASSUME NEW n \in Int
  PROVE  TimestampOf(n) \in Timestamp
<1>1. Timestamps \in Nat /\ Timestamps > 0 /\ FirstTimestamp \in Int
  BY AlphaSyncAssumption, SourceMediaAssumption DEF Timestamp
<1>2. FirstTimestamp + n \in Int
  BY <1>1
<1> QED BY <1>1, <1>2 DEF TimestampOf, Timestamp

\* A packet comes in under the epoch that is read with it.
LEMMA ReceiveKeeps ==
  ASSUME MediaInv, NEW t \in Threads, Receive(t)
  PROVE  MediaInv'
<1> DEFINE side == RoleOfThread(t)
           budget == IF side = "primary" THEN "video" ELSE "alpha"
<1>1. side \in Sides /\ allowed \in Alloweds
  BY DEF RoleOfThread, Sides, MediaInv
<1>2. PICK n \in 1..allowed.frames, part \in allowed.parts :
        /\ Set(t, [IdleJob EXCEPT !.stage = "assemble", !.epoch = pipe.epoch,
                                  !.ts = TimestampOf(n), !.part = part])
        /\ allowed' = [allowed EXCEPT ![budget] = @ - 1, !.sent[side] = n]
  BY DEF Receive
<1>3. pipe' = pipe /\ picture' = picture /\ handler' = handler
  BY DEF Receive
<1>4. /\ n \in Int /\ TimestampOf(n) \in Times /\ part \in PacketParts
      /\ pipe.epoch \in Nat
  BY <1>1, TimestampTyped DEF Alloweds, Times, MediaInv, PipeOK, Pipes
<1>5. PICK job : job = [IdleJob EXCEPT !.stage = "assemble", !.epoch = pipe.epoch,
                                       !.ts = TimestampOf(n), !.part = part]
  OBVIOUS
<1>6. JobOK(job)
  <2>1. IdleJob \in Jobs
    BY IdleJobOK DEF JobOK
  <2>2. /\ job \in Jobs /\ job.todo = <<>> /\ job.out = <<>> /\ job.pairs = {}
        /\ job.stage = "assemble"
    BY <1>4, <1>5, <2>1 DEF Jobs, Stages, IdleJob
  <2> QED BY <2>2 DEF JobOK, PiecesFrom
<1>7. JobsOK'
  BY <1>2, <1>5, <1>6, SetOK DEF MediaInv
<1>8. allowed' \in Alloweds
  <2>1. allowed.sent \in [Sides -> Int]
    BY <1>1 DEF Alloweds
  <2> DEFINE sent == [allowed.sent EXCEPT ![side] = n]
  <2>2. sent \in [Sides -> Int]
    BY <1>1, <1>4, <2>1
  <2>3. budget \in {"video", "alpha"}
    OBVIOUS
  <2>4. allowed' = [[allowed EXCEPT ![budget] = @ - 1] EXCEPT !.sent = sent]
    BY <1>1, <1>2, <2>3 DEF Alloweds
  <2>5. PICK m : m = [allowed EXCEPT ![budget] = @ - 1]
    OBVIOUS
  <2> HIDE DEF sent, budget
  <2>6. m \in Alloweds
    BY <1>1, <2>3, <2>5 DEF Alloweds
  <2>7. allowed' = [m EXCEPT !.sent = sent]
    BY <2>4, <2>5
  <2> QED BY <2>2, <2>6, <2>7 DEF Alloweds
<1>9. PictureOK'
  BY <1>3, UnseenKeeps DEF Unseen, MediaInv
<1> QED BY <1>3, <1>7, <1>8, <1>9 DEF MediaInv

\* It is assembled if that epoch is still the pipeline's.
LEMMA AssembleKeeps ==
  ASSUME MediaInv, NEW t \in Threads, Assemble(t)
  PROVE  MediaInv'
<1> DEFINE job == jobs[t]
           side == RoleOfThread(t)
           a == pipe.assembly[side]
           result == IF side = "primary" /\ pipe.codec = "h264"
                     THEN AssembledH264(a, job.ts, job.part, job.epoch)
                     ELSE AssembledVP9(a, job.ts, job.part, job.epoch)
<1>1. /\ side \in Sides /\ PipeOK(pipe) /\ pipe \in Pipes /\ JobOK(job)
      /\ job \in Jobs /\ JobsOK
  BY DEF RoleOfThread, Sides, MediaInv, JobsOK, PipeOK
<1>2. picture' = picture /\ handler' = handler /\ allowed' = allowed
  BY DEF Assemble
<1>3. CASE ~IsCurrent(job.epoch)
  <2>1. pipe' = pipe /\ Finish(t)
    BY <1>3 DEF Assemble
  <2>2. JobsOK'
    BY <1>1, <2>1, FinishOK
  <2> QED BY <1>2, <2>1, <2>2, UnseenKeeps DEF MediaInv, Unseen
<1>4. CASE IsCurrent(job.epoch)
  <2>1. /\ pipe' = [pipe EXCEPT !.assembly[side] = result.assembly]
        /\ Set(t, IF result.done = <<>> THEN IdleJob
                  ELSE [job EXCEPT !.stage = "decode", !.todo = result.done])
        /\ job.stage = "assemble"
    BY <1>4 DEF Assemble
  <2>2. /\ a \in Assemblies /\ a.from \subseteq {job.epoch}
        /\ job.epoch = pipe.epoch
        /\ job.ts \in Times /\ job.part \in PacketParts /\ job.epoch \in Nat
    BY <1>1, <1>4 DEF PipeOK, Pipes, Jobs, IsCurrent
  <2>3. PICK r : r = result
    OBVIOUS
  <2>4. /\ r.assembly \in Assemblies /\ r.assembly.from \subseteq {job.epoch}
        /\ r.done \in Seq(Pieces) /\ PiecesFrom(r.done, job.epoch)
    <3>1. \/ r = AssembledH264(a, job.ts, job.part, job.epoch)
          \/ r = AssembledVP9(a, job.ts, job.part, job.epoch)
      BY <2>3
    <3> HIDE DEF a, job
    <3> QED BY <2>2, <3>1, AssembledOK
  <2> DEFINE now == [pipe.assembly EXCEPT ![side] = r.assembly]
  <2>5. pipe' = [pipe EXCEPT !.assembly = now]
    BY <1>1, <2>1, <2>3 DEF Pipes
  <2>6. /\ now \in [Sides -> Assemblies]
        /\ \A s \in Sides : now[s].from \subseteq {pipe.epoch}
    BY <1>1, <2>2, <2>4 DEF PipeOK, Pipes
  <2> HIDE DEF now
  <2>7. PipeOK(pipe') /\ Unseen
    <3>1. pipe' \in Pipes /\ pipe'.assembly = now
      BY <1>1, <2>5, <2>6 DEF Pipes
    <3>2. /\ pipe'.epoch = pipe.epoch /\ pipe'.outputEpoch = pipe.outputEpoch
          /\ pipe'.suppressed = pipe.suppressed
          /\ pipe'.alphaActive = pipe.alphaActive
          /\ pipe'.mapped = pipe.mapped /\ pipe'.track = pipe.track
          /\ pipe'.sync = pipe.sync /\ pipe'.decoder = pipe.decoder
      BY <1>1, <2>5 DEF Pipes
    <3> QED BY <1>1, <1>2, <2>6, <3>1, <3>2 DEF PipeOK, Unseen
  <2>8. PICK new : new = IF r.done = <<>> THEN IdleJob
                         ELSE [job EXCEPT !.stage = "decode", !.todo = r.done]
    OBVIOUS
  <2>9. JobOK(new)
    <3>1. CASE r.done = <<>>
      BY <2>8, <3>1, IdleJobOK
    <3>2. CASE r.done # <<>>
      <4>1. /\ new \in Jobs /\ new.stage = "decode" /\ new.todo = r.done
            /\ new.epoch = job.epoch
            /\ new.out = job.out /\ new.pairs = job.pairs
        BY <1>1, <2>4, <2>8, <3>2 DEF Jobs, Stages
      <4> QED BY <1>1, <2>4, <3>2, <4>1 DEF JobOK
    <3> QED BY <3>1, <3>2
  <2>10. JobsOK'
    BY <1>1, <2>1, <2>3, <2>8, <2>9, SetOK
  <2> QED BY <1>2, <2>7, <2>10, UnseenKeeps DEF MediaInv
<1> QED BY <1>3, <1>4

\* What a decoder hands out carries the epoch of the job.
LEMMA DecodedOK ==
  ASSUME NEW job, JobOK(job), job.todo # <<>>, NEW held \in Seq(Pieces),
         PiecesFrom(held, job.epoch), NEW count \in 0..Len(held),
         NEW r, r = Decoded(job, held, count)
  PROVE  JobOK(r)
<1> DEFINE todo == Tail(job.todo)
<1>0. job \in Jobs /\ job.todo \in Seq(Pieces) /\ job.epoch \in Nat
  BY DEF JobOK, Jobs
<1>1. todo \in Seq(Pieces) /\ PiecesFrom(todo, job.epoch)
  <2>1. Len(job.todo) > 0
    BY <1>0, EmptySeq
  <2>2. todo \in Seq(Pieces) /\ Len(todo) = Len(job.todo) - 1
        /\ \A i \in 1..Len(todo) :
             todo[i] = job.todo[i + 1] /\ i + 1 \in 1..Len(job.todo)
    BY <1>0, <2>1
  <2> QED BY <2>2 DEF JobOK, PiecesFrom
<1> HIDE DEF todo
<1>2. CASE count > 0
  <2> DEFINE out == [i \in 1..count |-> Stamped(held[i], job.epoch)]
  <2>1. r = [job EXCEPT !.stage = "output", !.todo = todo, !.out = out]
    BY <1>2 DEF Decoded, todo
  <2>2. \A i \in 1..count : /\ Stamped(held[i], job.epoch) \in Frames
                            /\ Own(Stamped(held[i], job.epoch))
                            /\ Stamped(held[i], job.epoch).epoch = job.epoch
    <3> TAKE i \in 1..count
    <3>1. held[i] \in Pieces /\ held[i].from = {job.epoch}
      BY DEF PiecesFrom
    <3> QED BY <1>0, <3>1 DEF Stamped, Frames, Pieces, Own
  <2>3. /\ out \in Seq(Frames) /\ Len(out) = count
        /\ \A i \in 1..count : out[i] = Stamped(held[i], job.epoch)
    <3>1. out \in [1..count -> Frames] /\ count \in Nat
      BY <2>2
    <3> QED BY <3>1
  <2> HIDE DEF out
  <2>4. out # <<>>
    <3>1. Len(<<>>) = 0
      OBVIOUS
    <3> QED BY <1>2, <2>3, <3>1
  <2>5. /\ r \in Jobs /\ r.stage = "output" /\ r.todo = todo /\ r.out = out
        /\ r.epoch = job.epoch
        /\ r.pairs = job.pairs
    BY <1>0, <1>1, <2>1, <2>3 DEF Jobs, Stages
  <2> QED BY <1>1, <2>2, <2>3, <2>4, <2>5 DEF JobOK
<1>3. CASE count = 0
  <2>1. PICK m : m = [job EXCEPT !.todo = todo]
    OBVIOUS
  <2>2. r = Rest(m)
    BY <1>3, <2>1 DEF Decoded, todo
  <2>3. /\ m \in Jobs /\ m.stage = job.stage /\ m.todo = todo /\ m.out = job.out
        /\ m.epoch = job.epoch /\ m.pairs = job.pairs
    BY <1>0, <1>1, <2>1 DEF Jobs
  <2> DEFINE n == [m EXCEPT !.stage = "assemble"]
  <2>4. n \in Jobs /\ JobOK(n)
    <3>1. /\ n \in Jobs /\ n.stage = "assemble" /\ n.todo = todo /\ n.out = job.out
          /\ n.epoch = job.epoch /\ n.pairs = job.pairs
      BY <2>3 DEF Jobs, Stages
    <3> HIDE DEF n
    <3> QED BY <1>1, <3>1 DEF JobOK
  <2>5. Rest(m) = Rest(n)
    BY <2>3 DEF Rest, Jobs
  <2> HIDE DEF n
  <2> QED BY <2>2, <2>4, <2>5, RestOK
<1> QED BY <1>2, <1>3

\* What a decoder is given.
LEMMA FedOK ==
  ASSUME PipeOK(pipe), JobsOK, NEW t \in Threads, jobs[t].stage = "decode", IsCurrent(jobs[t].epoch)
  PROVE  /\ RoleOfThread(t) \in Sides /\ jobs[t].todo # <<>> /\ JobOK(jobs[t])
         /\ jobs[t].epoch = pipe.epoch
         /\ Fed(t) \in Seq(Pieces) /\ PiecesFrom(Fed(t), pipe.epoch)
         /\ Len(Fed(t)) \in Nat /\ Len(Fed(t)) > 0
<1> DEFINE side == RoleOfThread(t)
           d == pipe.decoder[side]
           h == Head(jobs[t].todo)
<1>1. /\ side \in Sides /\ JobOK(jobs[t]) /\ jobs[t] \in Jobs
      /\ jobs[t].epoch = pipe.epoch
  BY DEF RoleOfThread, Sides, JobsOK, IsCurrent
<1>2. d \in Seq(Pieces) /\ PiecesFrom(d, pipe.epoch)
  BY <1>1 DEF PipeOK, Pipes
<1>3. /\ jobs[t].todo # <<>> /\ jobs[t].todo \in Seq(Pieces)
      /\ PiecesFrom(jobs[t].todo, pipe.epoch)
  BY <1>1 DEF JobOK, Jobs
<1>4. h \in Pieces /\ h.from = {pipe.epoch}
  <2>1. h = jobs[t].todo[1] /\ 1 \in 1..Len(jobs[t].todo)
    BY <1>3, EmptySeq
  <2> QED BY <1>3, <2>1 DEF PiecesFrom
<1> HIDE DEF d, h
<1>5. /\ Append(d, h) \in Seq(Pieces) /\ PiecesFrom(Append(d, h), pipe.epoch)
      /\ Len(Append(d, h)) = Len(d) + 1
      /\ Len(d) \in Nat
  BY <1>2, <1>4 DEF PiecesFrom
<1>6. Fed(t) = Append(d, h)
  BY DEF Fed, d, h
<1> QED BY <1>1, <1>3, <1>5, <1>6

\* A decoder alone changes nothing that is shown.
LEMMA DecoderSetOK ==
  ASSUME PipeOK(pipe), NEW side \in Sides, NEW d \in Seq(Pieces), PiecesFrom(d, pipe.epoch),
         pipe' = [pipe EXCEPT !.decoder[side] = d], picture' = picture, handler' = handler
  PROVE  PipeOK(pipe') /\ Unseen
<1> DEFINE now == [pipe.decoder EXCEPT ![side] = d]
<1>1. pipe \in Pipes
  BY DEF PipeOK
<1>2. pipe' = [pipe EXCEPT !.decoder = now]
  BY <1>1 DEF Pipes
<1>3. /\ now \in [Sides -> Seq(Pieces)]
      /\ \A s \in Sides : PiecesFrom(now[s], pipe.epoch)
  BY <1>1 DEF Pipes, PipeOK
<1> HIDE DEF now
<1>4. pipe' \in Pipes /\ pipe'.decoder = now
  BY <1>1, <1>2, <1>3 DEF Pipes
<1>5. /\ pipe'.epoch = pipe.epoch /\ pipe'.outputEpoch = pipe.outputEpoch
      /\ pipe'.suppressed = pipe.suppressed /\ pipe'.alphaActive = pipe.alphaActive
      /\ pipe'.mapped = pipe.mapped /\ pipe'.track = pipe.track
      /\ pipe'.sync = pipe.sync /\ pipe'.assembly = pipe.assembly
  BY <1>1, <1>2 DEF Pipes
<1> QED BY <1>3, <1>4, <1>5 DEF PipeOK, Unseen

\* Nor does its reset, which forgets the time of the last picture.
LEMMA DecoderResetOK ==
  ASSUME PipeOK(pipe), NEW side \in Sides, pipe' = DecoderReset(pipe, side),
         picture' = picture, handler' = handler
  PROVE  PipeOK(pipe') /\ Unseen
<1> DEFINE now == [pipe.decoder EXCEPT ![side] = <<>>]
           sync == FreshSync(pipe.sync.generation + 1)
<1>1. pipe \in Pipes
  BY DEF PipeOK
<1>2. pipe' = [pipe EXCEPT !.decoder = now, !.sync = sync, !.mapped = None]
  BY <1>1 DEF Pipes, DecoderReset, SyncReset
<1>3. /\ now \in [Sides -> Seq(Pieces)]
      /\ \A s \in Sides : PiecesFrom(now[s], pipe.epoch)
  BY <1>1 DEF Pipes, PipeOK, PiecesFrom
<1>4. SyncOK(sync) /\ sync \in Syncs
  <2>1. pipe.sync.generation + 1 \in Nat
    BY <1>1 DEF Pipes, Syncs
  <2>2. SyncOK(sync)
    BY <2>1, FreshSyncOK
  <2> QED BY <2>2 DEF SyncOK
<1> HIDE DEF now, sync
<1>5. /\ pipe' \in Pipes /\ pipe'.decoder = now /\ pipe'.sync = sync
      /\ pipe'.mapped = None
  BY <1>1, <1>2, <1>3, <1>4 DEF Pipes, Times
<1>6. /\ pipe'.epoch = pipe.epoch /\ pipe'.outputEpoch = pipe.outputEpoch
      /\ pipe'.suppressed = pipe.suppressed /\ pipe'.alphaActive = pipe.alphaActive
      /\ pipe'.track = pipe.track /\ pipe'.assembly = pipe.assembly
  BY <1>1, <1>2 DEF Pipes
<1> QED BY <1>3, <1>4, <1>5, <1>6 DEF PipeOK, Unseen

\* Decoding, its failure, and decoding for an epoch that is over.
LEMMA DecodeKeeps ==
  ASSUME MediaInv, NEW t \in Threads, Decode(t) \/ DecodeFails(t) \/ DecodeTooLate(t)
  PROVE  MediaInv'
<1>1. PipeOK(pipe) /\ JobsOK /\ PictureOK /\ allowed \in Alloweds
  BY DEF MediaInv
<1>2. ASSUME Decode(t) PROVE MediaInv'
  <2>1. /\ RoleOfThread(t) \in Sides /\ jobs[t].todo # <<>> /\ JobOK(jobs[t])
        /\ jobs[t].epoch = pipe.epoch
        /\ Fed(t) \in Seq(Pieces) /\ PiecesFrom(Fed(t), pipe.epoch)
        /\ Len(Fed(t)) \in Nat /\ Len(Fed(t)) > 0
    BY <1>1, <1>2, FedOK DEF Decode
  <2>2. PICK count \in {Len(Fed(t)) - 1, Len(Fed(t))} :
          /\ pipe' = [pipe EXCEPT !.decoder[RoleOfThread(t)] =
                        SubSeq(Fed(t), count + 1, Len(Fed(t)))]
          /\ Set(t, Decoded(jobs[t], Fed(t), count))
    BY <1>2 DEF Decode
  <2>3. picture' = picture /\ handler' = handler /\ allowed' = allowed
    BY <1>2 DEF Decode
  <2>4. count \in 0..Len(Fed(t)) /\ count \in Nat
    BY <2>1
  <2>5. PICK d : d = SubSeq(Fed(t), count + 1, Len(Fed(t)))
    OBVIOUS
  <2>6. d \in Seq(Pieces) /\ PiecesFrom(d, pipe.epoch)
    <3>1. PICK f : f = Fed(t)
      OBVIOUS
    <3>2. d \in Seq(Pieces) /\ Len(d) = Len(f) - count
          /\ \A i \in 1..Len(d) :
               d[i] = f[count + i] /\ count + i \in 1..Len(f)
      BY <2>1, <2>4, <2>5, <3>1
    <3> QED BY <2>1, <3>1, <3>2 DEF PiecesFrom
  <2>7. PipeOK(pipe') /\ Unseen
    BY <1>1, <2>1, <2>2, <2>3, <2>5, <2>6, DecoderSetOK
  <2>8. PICK new : new = Decoded(jobs[t], Fed(t), count)
    OBVIOUS
  <2>9. JobOK(new)
    BY <2>1, <2>4, <2>8, DecodedOK
  <2>10. JobsOK'
    BY <1>1, <2>2, <2>8, <2>9, SetOK
  <2> QED BY <1>1, <2>3, <2>7, <2>10, UnseenKeeps DEF MediaInv
<1>3. ASSUME DecodeFails(t) PROVE MediaInv'
  <2>1. /\ RoleOfThread(t) \in Sides /\ jobs[t].todo # <<>> /\ JobOK(jobs[t])
        /\ jobs[t].epoch = pipe.epoch
        /\ Fed(t) \in Seq(Pieces) /\ PiecesFrom(Fed(t), pipe.epoch)
        /\ Len(Fed(t)) \in Nat /\ Len(Fed(t)) > 0
    BY <1>1, <1>3, FedOK DEF DecodeFails
  <2>2. picture' = picture /\ handler' = handler /\ allowed' \in Alloweds
    BY <1>1, <1>3, AllowKeeps DEF DecodeFails
  <2>3. CASE Refused(t)
    <3>1. PICK new : new = Decoded(jobs[t], <<>>, 0)
      OBVIOUS
    <3>2. /\ <<>> \in Seq(Pieces) /\ PiecesFrom(<<>>, jobs[t].epoch)
          /\ 0 \in 0..Len(<<>>)
      BY DEF PiecesFrom
    <3>3. JobOK(new)
      BY <2>1, <3>1, <3>2, DecodedOK
    <3>4. JobsOK' /\ pipe' = pipe
      BY <1>1, <2>3, <3>1, <3>3, SetOK DEF Refused
    <3> QED BY <1>1, <2>2, <3>4, UnseenKeeps DEF MediaInv, Unseen
  <2>4. ASSUME NEW count \in 0..(Len(Fed(t)) - 1), ResetAlone(t, count)
        PROVE  MediaInv'
    <3>1. PICK new : new = Decoded(jobs[t], Fed(t), count)
      OBVIOUS
    <3>2. count \in 0..Len(Fed(t))
      BY <2>1
    <3>3. JobOK(new)
      BY <2>1, <3>1, <3>2, DecodedOK
    <3>4. JobsOK'
      BY <1>1, <2>4, <3>1, <3>3, SetOK DEF ResetAlone
    <3>5. PipeOK(pipe') /\ Unseen
      BY <1>1, <2>1, <2>2, <2>4, DecoderResetOK DEF ResetAlone
    <3> QED BY <1>1, <2>2, <3>4, <3>5, UnseenKeeps DEF MediaInv
  <2>5. CASE OpenFails(t)
    <3>1. 0 \in 0..(Len(Fed(t)) - 1)
      BY <2>1
    <3> QED BY <2>4, <2>5, <3>1 DEF OpenFails
  <2> QED BY <1>3, <2>3, <2>4, <2>5 DEF DecodeFails
<1>4. ASSUME DecodeTooLate(t) PROVE MediaInv'
  <2>1. JobsOK' /\ UNCHANGED <<pipe, picture, handler, allowed>>
    BY <1>1, <1>4, FinishOK DEF DecodeTooLate
  <2> QED BY <1>1, <2>1, UnseenKeeps DEF MediaInv, Unseen
<1> QED BY <1>2, <1>3, <1>4

\* A job that goes on to another stage with the frames it has.
LEMMA StageOK ==
  ASSUME NEW job, JobOK(job), job.out # <<>>, NEW stage \in {"bare", "pair", "paired"},
         NEW pairs, \A pair \in pairs : PairOK(pair),
         NEW r, r = [job EXCEPT !.stage = stage, !.pairs = pairs]
  PROVE  JobOK(r)
<1>1. job \in Jobs /\ pairs \in SUBSET MediaPairs
  BY DEF JobOK, PairOK
<1>2. /\ r \in Jobs /\ r.stage = stage /\ r.pairs = pairs /\ r.out = job.out
      /\ r.todo = job.todo /\ r.epoch = job.epoch
  BY <1>1 DEF Jobs, Stages
<1> QED BY <1>2 DEF JobOK

\* A decoded frame is output bare or paired.
LEMMA ChooseKeeps ==
  ASSUME MediaInv, NEW t \in Threads, ChooseOutput(t)
  PROVE  MediaInv'
<1>1. PipeOK(pipe) /\ JobsOK /\ PictureOK /\ JobOK(jobs[t]) /\ jobs[t].out # <<>>
  <2>1. jobs[t].stage = "output"
    BY DEF ChooseOutput
  <2> QED BY <2>1 DEF MediaInv, JobsOK, JobOK
<1>2. UNCHANGED <<pipe, picture, handler, allowed>>
  BY DEF ChooseOutput
<1>3. PICK next : next = IF pipe.alphaActive THEN "pair" ELSE "bare"
  OBVIOUS
<1>4. PICK a : a = [jobs[t] EXCEPT !.stage = next]
  OBVIOUS
<1>5. JobOK(a)
  <2>1. /\ a \in Jobs /\ a.out = jobs[t].out /\ a.todo = jobs[t].todo
        /\ a.epoch = jobs[t].epoch
        /\ a.pairs = jobs[t].pairs /\ a.stage \in {"pair", "bare"}
    BY <1>1, <1>3, <1>4 DEF JobOK, Jobs, Stages
  <2> QED BY <1>1, <2>1 DEF JobOK
<1>6. PICK b : b = Rest(jobs[t])
  OBVIOUS
<1>7. JobOK(b)
  BY <1>1, <1>6, RestOK
<1>8. Set(t, a) \/ Set(t, b)
  BY <1>3, <1>4, <1>6 DEF ChooseOutput
<1>9. JobsOK'
  BY <1>1, <1>5, <1>7, <1>8, SetOK
<1> QED BY <1>1, <1>2, <1>9, UnseenKeeps DEF MediaInv, Unseen

\* A picture that is shown comes from the epoch that output is enabled for.
LEMMA ShowKeeps ==
  ASSUME MediaInv, NEW f \in Frames, Own(f), MayShow(f.epoch), NEW from, from = f.from,
         NEW alphaTs, alphaTs = IF pipe.alphaActive THEN f.ts ELSE None,
         Show(f.ts, from, alphaTs), handler' = handler
  PROVE  PipeOK(pipe') /\ PictureOK'
<1>1. PipeOK(pipe) /\ PictureOK /\ pipe \in Pipes
  BY DEF MediaInv, PipeOK
<1>2. CASE UNCHANGED <<pipe, picture>>
  BY <1>1, <1>2, UnseenKeeps DEF Unseen
<1>3. CASE pipe' = [pipe EXCEPT !.mapped = f.ts]
           /\ picture' = [shown |-> TRUE, ts |-> f.ts, from |-> from, alphaTs |-> alphaTs]
  <2>1. f.ts \in Times /\ f.epoch = pipe.epoch /\ from = {pipe.epoch} /\ pipe.outputEpoch # 0
        /\ ~pipe.suppressed /\ from \in SUBSET Nat
    BY <1>1 DEF Frames, Own, MayShow, Outputs, IsCurrent, Pipes
  <2>2. /\ pipe' \in Pipes /\ pipe'.mapped = f.ts
        /\ pipe'.epoch = pipe.epoch /\ pipe'.outputEpoch = pipe.outputEpoch
        /\ pipe'.suppressed = pipe.suppressed
        /\ pipe'.alphaActive = pipe.alphaActive
        /\ pipe'.track = pipe.track /\ pipe'.assembly = pipe.assembly
        /\ pipe'.decoder = pipe.decoder /\ pipe'.sync = pipe.sync
    BY <1>1, <1>3, <2>1 DEF Pipes
  <2>3. PipeOK(pipe')
    BY <1>1, <2>2 DEF PipeOK
  <2>4. handler.stage # "transition"
    BY <1>1, <2>1 DEF PictureOK
  <2>5. picture' \in Pictures
    BY <1>3, <2>1 DEF Pictures, Times
  <2>6. PictureOK'
    BY <1>1, <1>3, <2>1, <2>2, <2>4, <2>5
    DEF PictureOK, ShownIsCurrent, AlphaMatches
  <2> QED BY <2>3, <2>6
<1> QED BY <1>2, <1>3 DEF Show

\* A frame without an alpha mask.
LEMMA BareKeeps ==
  ASSUME MediaInv, NEW t \in Threads, OutputBare(t)
  PROVE  MediaInv'
<1>1. PipeOK(pipe) /\ JobsOK /\ PictureOK /\ JobOK(jobs[t]) /\ jobs[t].out # <<>>
  <2>1. jobs[t].stage = "bare"
    BY DEF OutputBare
  <2> QED BY <2>1 DEF MediaInv, JobsOK, JobOK
<1>2. PICK f : f = Head(jobs[t].out)
  OBVIOUS
<1>3. f \in Frames /\ Own(f) /\ f.epoch = jobs[t].epoch
  <2>1. jobs[t].out \in Seq(Frames)
    BY <1>1 DEF JobOK, Jobs
  <2>2. f = jobs[t].out[1] /\ 1 \in 1..Len(jobs[t].out) /\ f \in Frames
    BY <1>1, <1>2, <2>1, EmptySeq
  <2> QED BY <1>1, <2>2 DEF JobOK
<1>4. handler' = handler /\ allowed' = allowed
  BY DEF OutputBare
<1>5. PICK new : new = Rest(jobs[t])
  OBVIOUS
<1>6. JobsOK'
  <2>1. JobOK(new) /\ Set(t, new)
    BY <1>1, <1>5, RestOK DEF OutputBare
  <2> QED BY <1>1, <2>1, SetOK
<1>7. PipeOK(pipe') /\ PictureOK'
  <2>1. CASE MayShow(f.epoch) /\ ~pipe.alphaActive
    <3>1. Show(f.ts, f.from, None)
      BY <1>2, <1>3, <2>1 DEF OutputBare
    <3> QED BY <1>3, <1>4, <2>1, <3>1, ShowKeeps
  <2>2. CASE ~(MayShow(f.epoch) /\ ~pipe.alphaActive)
    <3>1. UNCHANGED <<pipe, picture>>
      BY <1>3, <2>2 DEF OutputBare
    <3> QED BY <1>1, <1>4, <3>1, UnseenKeeps DEF Unseen
  <2> QED BY <2>1, <2>2
<1> QED BY <1>4, <1>6, <1>7 DEF MediaInv

\* A frame with one.
LEMMA PairedKeeps ==
  ASSUME MediaInv, NEW t \in Threads, OutputPaired(t)
  PROVE  MediaInv'
<1>1. PipeOK(pipe) /\ JobsOK /\ PictureOK /\ JobOK(jobs[t])
  BY DEF MediaInv, JobsOK
<1>2. PICK pair \in jobs[t].pairs :
        IF /\ pair.generation = pipe.sync.generation
           /\ pipe.alphaActive /\ MayShow(pair.primary.epoch)
        THEN Show(pair.primary.ts, pair.primary.from \cup pair.alpha.from, pair.alpha.ts)
        ELSE UNCHANGED <<pipe, picture>>
  BY DEF OutputPaired
<1>3. /\ pair.primary \in Frames /\ Own(pair.primary)
      /\ pair.alpha.ts = pair.primary.ts
      /\ pair.primary.from \cup pair.alpha.from = pair.primary.from
  <2>1. PairOK(pair)
    BY <1>1 DEF JobOK
  <2> QED BY <2>1 DEF PairOK, MediaPairs, Own
<1>4. handler' = handler /\ allowed' = allowed
  BY DEF OutputPaired
<1>5. PICK new : new = Rest(jobs[t])
  OBVIOUS
<1>6. JobsOK'
  <2>1. JobOK(new) /\ Set(t, new)
    BY <1>1, <1>5, RestOK DEF OutputPaired
  <2> QED BY <1>1, <2>1, SetOK
<1>7. PipeOK(pipe') /\ PictureOK'
  <2>1. CASE pipe.alphaActive /\ MayShow(pair.primary.epoch)
             /\ Show(pair.primary.ts, pair.primary.from \cup pair.alpha.from, pair.alpha.ts)
    <3>1. PICK f, from, alphaTs : f = pair.primary /\ from = pair.primary.from \cup pair.alpha.from
                                  /\ alphaTs = pair.alpha.ts
      OBVIOUS
    <3>2. /\ f \in Frames /\ Own(f) /\ MayShow(f.epoch) /\ from = f.from
          /\ alphaTs = IF pipe.alphaActive THEN f.ts ELSE None
      BY <1>3, <2>1, <3>1
    <3>3. Show(f.ts, from, alphaTs)
      BY <2>1, <3>1
    <3> QED BY <1>4, <3>2, <3>3, ShowKeeps
  <2>2. CASE UNCHANGED <<pipe, picture>>
    BY <1>1, <1>4, <2>2, UnseenKeeps DEF Unseen
  <2> QED BY <1>2, <2>1, <2>2
<1> QED BY <1>4, <1>6, <1>7 DEF MediaInv

\* The frame synchronizer under its lock.
LEMMA PairKeeps ==
  ASSUME MediaInv, NEW t \in Threads, Pair(t)
  PROVE  MediaInv'
<1> DEFINE side == RoleOfThread(t)
           admitted == IF side = "alpha" THEN IsCurrent(jobs[t].epoch)
                       ELSE Outputs(jobs[t].epoch) /\ pipe.alphaActive
<1>1. /\ PipeOK(pipe) /\ JobsOK /\ PictureOK /\ JobOK(jobs[t]) /\ jobs[t].out # <<>>
      /\ pipe \in Pipes /\ side \in Sides
  <2>1. jobs[t].stage \in {"output", "pair"}
    BY DEF Pair
  <2> QED BY <2>1 DEF MediaInv, JobsOK, JobOK, PipeOK, RoleOfThread, Sides
<1>2. PICK f : f = Head(jobs[t].out)
  OBVIOUS
<1>3. f \in Frames /\ Own(f)
  <2>1. jobs[t].out \in Seq(Frames)
    BY <1>1 DEF JobOK, Jobs
  <2>2. f = jobs[t].out[1] /\ 1 \in 1..Len(jobs[t].out) /\ f \in Frames
    BY <1>1, <1>2, <2>1, EmptySeq
  <2> QED BY <1>1, <2>2 DEF JobOK
<1>4. PICK result : result = Pushed(pipe.sync, side, f)
  OBVIOUS
<1> HIDE DEF side
<1>5. SyncOK(result.sync) /\ \A pair \in result.pairs : PairOK(pair)
  <2>1. PICK s : s = pipe.sync
    OBVIOUS
  <2>2. SyncOK(s)
    BY <1>1, <2>1 DEF PipeOK
  <2> QED BY <1>1, <1>3, <1>4, <2>1, <2>2, PushedOK
<1>6. UNCHANGED <<picture, handler, allowed>>
  BY DEF Pair
<1>7. /\ IF admitted
         THEN /\ pipe' = [pipe EXCEPT !.sync = result.sync]
              /\ Set(t, IF result.pairs = {} THEN Rest(jobs[t])
                        ELSE [jobs[t] EXCEPT !.stage = "paired", !.pairs = result.pairs])
         ELSE UNCHANGED pipe /\ Set(t, Rest(jobs[t]))
  BY <1>2, <1>4 DEF Pair, side
<1> HIDE DEF admitted
<1>8. PICK a : a = Rest(jobs[t])
  OBVIOUS
<1>9. PICK b : b = [jobs[t] EXCEPT !.stage = "paired", !.pairs = result.pairs]
  OBVIOUS
<1>10. JobOK(a) /\ JobOK(b)
  BY <1>1, <1>5, <1>8, <1>9, RestOK, StageOK
<1>11. JobsOK'
  <2>1. Set(t, a) \/ Set(t, b)
    BY <1>7, <1>8, <1>9
  <2> QED BY <1>1, <1>10, <2>1, SetOK
<1>12. PipeOK(pipe') /\ Unseen
  <2>1. CASE pipe' = pipe
    BY <1>1, <1>6, <2>1 DEF Unseen
  <2>2. CASE pipe' = [pipe EXCEPT !.sync = result.sync]
    <3>1. /\ pipe' \in Pipes /\ pipe'.sync = result.sync
          /\ pipe'.mapped = pipe.mapped
          /\ pipe'.epoch = pipe.epoch /\ pipe'.outputEpoch = pipe.outputEpoch
          /\ pipe'.suppressed = pipe.suppressed
          /\ pipe'.alphaActive = pipe.alphaActive
          /\ pipe'.track = pipe.track /\ pipe'.assembly = pipe.assembly
          /\ pipe'.decoder = pipe.decoder
      BY <1>1, <1>5, <2>2 DEF Pipes, SyncOK
    <3> QED BY <1>1, <1>5, <1>6, <3>1 DEF PipeOK, Unseen
  <2> QED BY <1>7, <2>1, <2>2
<1> QED BY <1>1, <1>6, <1>11, <1>12, UnseenKeeps DEF MediaInv

\* A transition begins another epoch, for which nothing may be output yet.
LEMMA TransitionKeeps ==
  ASSUME MediaInv, NEW primary \in BOOLEAN, NEW alpha \in BOOLEAN, NEW enable \in BOOLEAN,
         NEW codec \in Codecs, NEW suppressed \in BOOLEAN,
         Transition(primary, alpha, enable, codec, suppressed)
  PROVE  MediaInv'
<1>1. PipeOK(pipe) /\ JobsOK /\ PictureOK /\ pipe \in Pipes /\ allowed \in Alloweds
  BY DEF MediaInv, PipeOK
<1> DEFINE track == [side \in Sides |-> IF side = "primary" THEN primary ELSE alpha]
           assembly == [side \in Sides |-> EmptyAssembly]
           decoder == [side \in Sides |-> <<>>]
           sync == FreshSync(pipe.sync.generation + 1)
<1>2. pipe' = [pipe EXCEPT !.outputEpoch = 0, !.epoch = pipe.epoch + 1, !.assembly = assembly,
                           !.decoder = decoder, !.sync = sync, !.mapped = None,
                           !.track = track, !.alphaActive = alpha, !.codec = codec,
                           !.suppressed = suppressed]
  BY <1>1 DEF Transition, PipelineReset, SyncReset, Pipes
<1>3. track \in [Sides -> BOOLEAN] /\ track["alpha"] = alpha
  BY DEF Sides
<1>4. /\ assembly \in [Sides -> Assemblies]
      /\ \A side \in Sides : assembly[side].from = {}
  BY DEF EmptyAssembly, Assemblies, Times
<1>5. decoder \in [Sides -> Seq(Pieces)]
      /\ \A side \in Sides, e \in Nat : PiecesFrom(decoder[side], e)
  BY DEF PiecesFrom
<1>6. SyncOK(sync) /\ sync \in Syncs
  <2>1. pipe.sync.generation + 1 \in Nat
    BY <1>1 DEF Pipes, Syncs
  <2>2. SyncOK(sync)
    BY <2>1, FreshSyncOK
  <2> QED BY <2>2 DEF SyncOK
<1>7. pipe.epoch + 1 \in Nat /\ pipe.epoch + 1 # 0
  BY <1>1 DEF Pipes
<1> HIDE DEF track, assembly, decoder, sync
<1>8. pipe' \in Pipes
  BY <1>1, <1>2, <1>3, <1>4, <1>5, <1>6, <1>7 DEF Pipes, Times
<1>9. /\ pipe'.epoch = pipe.epoch + 1 /\ pipe'.outputEpoch = 0
      /\ pipe'.assembly = assembly
      /\ pipe'.decoder = decoder /\ pipe'.sync = sync /\ pipe'.mapped = None
      /\ pipe'.track = track /\ pipe'.alphaActive = alpha
  BY <1>1, <1>2 DEF Pipes
<1>10. PipeOK(pipe')
  BY <1>3, <1>4, <1>5, <1>6, <1>7, <1>8, <1>9 DEF PipeOK
<1>11. allowed' \in Alloweds /\ UNCHANGED <<jobs, picture>>
       /\ handler' = [stage |-> "transition", enable |-> enable]
  BY <1>1, AllowKeeps DEF Transition
<1>12. JobsOK'
  BY <1>1, <1>11 DEF JobsOK
<1>13. PictureOK'
  BY <1>1, <1>9, <1>11
  DEF PictureOK, ShownIsCurrent, AlphaMatches, Handlers, HandlerIdle
<1> QED BY <1>10, <1>11, <1>12, <1>13 DEF MediaInv

\* The handlers that make one.
LEMMA HandlersKeep ==
  ASSUME MediaInv,
         \/ AttachVideo \/ AttachAlpha \/ CloseVideo \/ CloseAlpha \/ RetirePeer \/ ResetState
  PROVE  MediaInv'
<1>1. /\ pipe.track["primary"] \in BOOLEAN /\ pipe.track["alpha"] \in BOOLEAN
      /\ pipe.codec \in Codecs /\ pipe.suppressed \in BOOLEAN
      /\ allowed.codecs \in SUBSET Codecs
  BY DEF MediaInv, PipeOK, Pipes, Sides, Alloweds
<1>2. CASE AttachVideo
  BY <1>1, <1>2, TransitionKeeps DEF AttachVideo
<1>3. CASE AttachAlpha
  BY <1>1, <1>3, TransitionKeeps DEF AttachAlpha
<1>4. CASE CloseVideo
  BY <1>1, <1>4, TransitionKeeps DEF CloseVideo
<1>5. CASE CloseAlpha
  BY <1>1, <1>5, TransitionKeeps DEF CloseAlpha
<1>6. CASE RetirePeer
  BY <1>1, <1>6, TransitionKeeps DEF RetirePeer
<1>7. CASE ResetState
  BY <1>1, <1>7, TransitionKeeps DEF ResetState
<1> QED BY <1>2, <1>3, <1>4, <1>5, <1>6, <1>7

\* Nothing is shown.
LEMMA BlankOK == Blank \in Pictures /\ ~Blank.shown
  BY DEF Blank, Pictures, Times

\* The transition has cleared the picture and enables output.
LEMMA CompleteKeeps ==
  ASSUME MediaInv, CompleteTransition
  PROVE  MediaInv'
<1>1. PipeOK(pipe) /\ JobsOK /\ PictureOK /\ pipe \in Pipes /\ handler \in Handlers
  BY DEF MediaInv, PipeOK, PictureOK
<1>2. PICK e : e = IF handler.enable THEN pipe.epoch ELSE 0
  OBVIOUS
<1>3. /\ pipe' = [pipe EXCEPT !.outputEpoch = e] /\ e \in Nat
      /\ e \in {0, pipe.epoch}
      /\ picture' = Blank /\ handler' = HandlerIdle /\ UNCHANGED <<jobs, allowed>>
  BY <1>1, <1>2 DEF CompleteTransition, Pipes
<1>4. /\ pipe' \in Pipes /\ pipe'.outputEpoch = e /\ pipe'.mapped = pipe.mapped
      /\ pipe'.epoch = pipe.epoch /\ pipe'.alphaActive = pipe.alphaActive
      /\ pipe'.track = pipe.track /\ pipe'.assembly = pipe.assembly
      /\ pipe'.decoder = pipe.decoder /\ pipe'.sync = pipe.sync
  BY <1>1, <1>3 DEF Pipes
<1>5. PipeOK(pipe')
  BY <1>1, <1>3, <1>4 DEF PipeOK
<1>6. PictureOK'
  BY <1>3, BlankOK
  DEF PictureOK, ShownIsCurrent, AlphaMatches, Handlers, HandlerIdle
<1>7. JobsOK'
  BY <1>1, <1>3 DEF JobsOK
<1> QED BY <1>3, <1>5, <1>6, <1>7 DEF MediaInv

\* The publisher mutes or unmutes its video.
LEMMA SuppressKeeps ==
  ASSUME MediaInv, NEW value \in BOOLEAN, Suppress(value)
  PROVE  MediaInv'
<1>1. PipeOK(pipe) /\ JobsOK /\ PictureOK /\ pipe \in Pipes /\ allowed \in Alloweds
  BY DEF MediaInv, PipeOK
<1>2. /\ handler = HandlerIdle /\ UNCHANGED <<jobs, picture>>
      /\ pipe' = [pipe EXCEPT !.suppressed = value]
      /\ handler' = IF value THEN [HandlerIdle EXCEPT !.stage = "clearing"] ELSE HandlerIdle
      /\ allowed' \in Alloweds
  BY <1>1, AllowKeeps DEF Suppress
<1>3. /\ pipe' \in Pipes /\ pipe'.outputEpoch = pipe.outputEpoch
      /\ pipe'.mapped = pipe.mapped
      /\ pipe'.epoch = pipe.epoch /\ pipe'.alphaActive = pipe.alphaActive
      /\ pipe'.track = pipe.track /\ pipe'.assembly = pipe.assembly
      /\ pipe'.decoder = pipe.decoder /\ pipe'.sync = pipe.sync
      /\ pipe'.suppressed = value
  BY <1>1, <1>2 DEF Pipes
<1>4. PipeOK(pipe')
  BY <1>1, <1>3 DEF PipeOK
<1>5. /\ handler' \in Handlers /\ handler'.stage # "transition"
      /\ handler.stage # "transition"
      /\ (value => handler' # HandlerIdle)
  BY <1>2 DEF Handlers, HandlerIdle
<1>6. PictureOK'
  BY <1>1, <1>2, <1>3, <1>5 DEF PictureOK, ShownIsCurrent, AlphaMatches
<1>7. JobsOK'
  BY <1>1, <1>2 DEF JobsOK
<1> QED BY <1>2, <1>4, <1>6, <1>7 DEF MediaInv

\* The picture is cleared.
LEMMA ClearKeeps ==
  ASSUME MediaInv, ClearPicture \/ ClearStalled
  PROVE  MediaInv'
<1>1. PipeOK(pipe) /\ JobsOK /\ PictureOK
  BY DEF MediaInv
<1>2. /\ picture' = Blank /\ UNCHANGED <<pipe, jobs, allowed>>
      /\ handler' \in {handler, HandlerIdle}
  BY DEF ClearPicture, ClearStalled
<1>3. picture' \in Pictures /\ ~picture'.shown /\ pipe' = pipe
  BY <1>2, BlankOK
<1>4. handler' \in Handlers /\ (handler'.stage = "transition" => handler.stage = "transition")
  <2>1. HandlerIdle \in Handlers /\ HandlerIdle.stage # "transition"
    BY DEF Handlers, HandlerIdle
  <2>2. handler \in Handlers
    BY <1>1 DEF PictureOK
  <2>3. CASE handler' = handler
    BY <2>2, <2>3
  <2>4. CASE handler' = HandlerIdle
    BY <2>1, <2>4
  <2> QED BY <1>2, <2>3, <2>4
<1>5. PictureOK'
  BY <1>1, <1>3, <1>4 DEF PictureOK, ShownIsCurrent, AlphaMatches
<1> QED BY <1>1, <1>2, <1>5 DEF MediaInv, JobsOK

\* Every step keeps the invariant.
LEMMA MediaStep ==
  ASSUME MediaInv, [MediaNext]_mediaVars
  PROVE  MediaInv'
<1>1. ASSUME NEW t \in Threads,
             \/ Receive(t) \/ Assemble(t) \/ Decode(t) \/ DecodeFails(t)
             \/ DecodeTooLate(t) \/ ChooseOutput(t) \/ OutputBare(t) \/ Pair(t)
             \/ OutputPaired(t)
      PROVE  MediaInv'
  BY <1>1, ReceiveKeeps, AssembleKeeps, DecodeKeeps, ChooseKeeps, BareKeeps,
     PairKeeps, PairedKeeps
<1>2. CASE AttachVideo \/ AttachAlpha \/ CloseVideo \/ CloseAlpha \/ RetirePeer \/ ResetState
  BY <1>2, HandlersKeep
<1>3. CASE CompleteTransition
  BY <1>3, CompleteKeeps
<1>4. ASSUME NEW value \in BOOLEAN, Suppress(value) PROVE MediaInv'
  BY <1>4, SuppressKeeps
<1>5. CASE ClearPicture \/ ClearStalled
  BY <1>5, ClearKeeps
<1>6. CASE UNCHANGED mediaVars
  BY <1>6
  DEF mediaVars, MediaInv, JobsOK, PictureOK, ShownIsCurrent, AlphaMatches
<1> QED BY <1>1, <1>2, <1>3, <1>4, <1>5, <1>6 DEF MediaNext

\* Before the first packet.
LEMMA MediaStarts ==
  ASSUME MediaInit
  PROVE  MediaInv
<1> DEFINE track == [side \in Sides |-> FALSE]
           assembly == [side \in Sides |-> EmptyAssembly]
           decoder == [side \in Sides |-> <<>>]
<1>1. pipe = [epoch |-> 1, outputEpoch |-> 0, codec |-> "vp9", suppressed |-> FALSE,
              track |-> track, alphaActive |-> FALSE, assembly |-> assembly,
              decoder |-> decoder, sync |-> FreshSync(0), mapped |-> None]
  BY DEF MediaInit
<1>2. track \in [Sides -> BOOLEAN] /\ track["alpha"] = FALSE
  BY DEF Sides
<1>3. /\ assembly \in [Sides -> Assemblies]
      /\ \A side \in Sides : assembly[side].from = {}
  BY DEF EmptyAssembly, Assemblies, Times
<1>4. /\ decoder \in [Sides -> Seq(Pieces)]
      /\ \A side \in Sides : PiecesFrom(decoder[side], 1)
  BY DEF PiecesFrom
<1>5. SyncOK(FreshSync(0)) /\ FreshSync(0) \in Syncs
  BY FreshSyncOK DEF SyncOK
<1> HIDE DEF track, assembly, decoder
<1>6. PipeOK(pipe)
  <2>1. pipe \in Pipes
    BY <1>1, <1>2, <1>3, <1>4, <1>5 DEF Pipes, Codecs, Times
  <2>2. pipe.epoch = 1 /\ pipe.outputEpoch = 0 /\ pipe.track = track
    BY <1>1
  <2>3. /\ pipe.assembly = assembly /\ pipe.decoder = decoder
        /\ pipe.sync = FreshSync(0)
    BY <1>1
  <2>4. pipe.alphaActive = pipe.track["alpha"]
    BY <1>1, <1>2
  <2>5. pipe.epoch # 0 /\ pipe.outputEpoch \in {0, pipe.epoch}
    BY <2>2
  <2>6. \A side \in Sides : /\ pipe.assembly[side].from \subseteq {pipe.epoch}
                            /\ PiecesFrom(pipe.decoder[side], pipe.epoch)
    BY <1>3, <1>4, <2>2, <2>3
  <2>7. SyncOK(pipe.sync)
    BY <1>5, <2>3
  <2> QED BY <2>1, <2>4, <2>5, <2>6, <2>7 DEF PipeOK
<1>7. JobsOK
  BY IdleJobOK DEF MediaInit, JobsOK, JobOK
<1>8. PictureOK
  BY BlankOK
  DEF MediaInit, PictureOK, ShownIsCurrent, AlphaMatches, Handlers,
      HandlerIdle
<1>9. allowed \in Alloweds
  <2> DEFINE s == [side \in Sides |-> 1]
  <2>1. PICK b \in MediaBudgets : allowed = [x \in DOMAIN b \cup {"sent"} |->
                                             IF x = "sent" THEN s ELSE b[x]]
    BY DEF MediaInit
  <2>2. b \in MediaBudget
    BY SourceMediaAssumption
  <2>3. s \in [Sides -> Int]
    OBVIOUS
  <2> HIDE DEF s
  <2> DEFINE names == {"video", "alpha", "frames", "parts", "reorder", "codecs",
                       "changes", "mutes", "failures"}
  <2>a. /\ DOMAIN b = names
        /\ b.video \in Nat /\ b.alpha \in Nat /\ b.frames \in Nat
        /\ b.parts \in SUBSET PacketParts /\ b.reorder \in BOOLEAN
        /\ b.codecs \in SUBSET Codecs /\ b.changes \in Nat /\ b.mutes \in Nat
        /\ b.failures \in Nat
    BY <2>2 DEF MediaBudget, Codecs
  <2>b. allowed = [x \in names \cup {"sent"} |-> IF x = "sent" THEN s ELSE b[x]]
    BY <2>1, <2>a
  <2>4. /\ DOMAIN allowed = names \cup {"sent"}
        /\ allowed = [x \in DOMAIN allowed |-> allowed[x]]
        /\ allowed.video \in Nat /\ allowed.alpha \in Nat /\ allowed.frames \in Nat
        /\ allowed.parts \in SUBSET PacketParts /\ allowed.reorder \in BOOLEAN
        /\ allowed.codecs \in SUBSET Codecs /\ allowed.changes \in Nat
        /\ allowed.mutes \in Nat
        /\ allowed.failures \in Nat /\ allowed.sent = s
    BY <2>a, <2>b
  <2>5. allowed = [video |-> allowed.video, alpha |-> allowed.alpha, frames |-> allowed.frames,
                   parts |-> allowed.parts, reorder |-> allowed.reorder,
                   codecs |-> allowed.codecs, changes |-> allowed.changes,
                   mutes |-> allowed.mutes, failures |-> allowed.failures, sent |-> allowed.sent]
    BY <2>4
  <2> QED BY <2>3, <2>4, <2>5 DEF Alloweds
<1> QED BY <1>6, <1>7, <1>8, <1>9 DEF MediaInv

\* Every variable of the pipeline has its type.
THEOREM MediaTyped == MediaSpec => []MediaTypeOK
<1>1. MediaInv => MediaTypeOK
  <2> SUFFICES ASSUME MediaInv PROVE MediaTypeOK
    OBVIOUS
  <2>1. /\ PipeOK(pipe) /\ JobsOK /\ picture \in Pictures /\ handler \in Handlers
        /\ pipe \in Pipes
    BY DEF MediaInv, PictureOK, PipeOK
  <2>2. \A t \in Threads : jobs[t].part \in PacketParts
    BY <2>1 DEF JobsOK, Jobs
  <2>3. \A side \in Sides : Len(pipe.sync.waiting[side]) <= MaxFrames
    BY <2>1 DEF PipeOK, SyncOK
  <2> QED
    BY <2>1, <2>2, <2>3
    DEF MediaTypeOK, PipeOK, Pipes, Pictures, Handlers, Times
<1> QED BY <1>1, MediaStarts, MediaStep, PTL DEF MediaSpec

\* What is shown was decoded in the pipeline's epoch, and nothing is while video
\* is suppressed, unless a transition is about to clear it; for any threads,
\* timestamps, queue bounds and budgets.
THEOREM ShownAlwaysCurrent == MediaSpec => []ShownIsCurrent
<1>1. MediaInv => ShownIsCurrent
  BY DEF MediaInv, PictureOK
<1> QED BY <1>1, MediaStarts, MediaStep, PTL DEF MediaSpec

\* A picture is shown with the mask of its own time.
THEOREM AlphaAlwaysMatches == MediaSpec => []AlphaMatches
<1>1. MediaInv => AlphaMatches
  BY DEF MediaInv, PictureOK
<1> QED BY <1>1, MediaStarts, MediaStep, PTL DEF MediaSpec

\* Within an epoch, and between two resets of a decoder, pictures follow in the
\* order of their times.
THEOREM PicturesFollowTime == MediaSpec => PicturesAdvance
<1>1. ASSUME MediaInv, MediaNext, picture.shown, picture'.shown, picture' # picture,
             pipe.mapped # None
      PROVE  Before(picture.ts, picture'.ts)
  <2>1. pipe.mapped = picture.ts
    BY <1>1 DEF MediaInv, PictureOK
  <2>2. \/ \E t \in Threads : OutputBare(t) \/ OutputPaired(t)
        \/ CompleteTransition \/ ClearPicture \/ ClearStalled
    BY <1>1
    DEF MediaNext, Receive, Assemble, Decode, DecodeFails, DecodeTooLate,
        ChooseOutput,
                Pair, AttachVideo, AttachAlpha, CloseVideo, CloseAlpha,
                RetirePeer, ResetState,
                Transition, Suppress
  <2>3. \E ts, from, alphaTs : Show(ts, from, alphaTs)
    BY <1>1, <2>2, BlankOK
    DEF OutputBare, OutputPaired, CompleteTransition, ClearPicture,
        ClearStalled
  <2>4. PICK ts, from, alphaTs :
          Mappable(pipe.mapped, ts)
          /\ picture' = [shown |-> TRUE, ts |-> ts, from |-> from, alphaTs |-> alphaTs]
    BY <1>1, <2>3 DEF Show
  <2> QED BY <1>1, <2>1, <2>4 DEF Mappable
<1>2. MediaInv /\ [MediaNext]_mediaVars =>
        [(picture.shown /\ picture'.shown /\ picture' # picture /\ pipe.mapped # None)
           => Before(picture.ts, picture'.ts)]_mediaVars
  BY <1>1 DEF mediaVars
<1> QED BY <1>2, MediaStarts, MediaStep, PTL DEF MediaSpec, PicturesAdvance

------------------------------------------------------------------------------
(***************************************************************************)
(* Its sound (SourceAudio).                                                *)
(***************************************************************************)
\* The stages under audioDecodeMutex_, and the records.
Locked == {"decoding", "output", "telling", "playing"}
Clocks == [set : BOOLEAN, rtp : 0..(Wrap - 1), base : Int, last : Int]
Works == [stage : {"idle", "received"} \cup Locked, rtp : 0..(Wrap - 1), ns : Int]
Sounds == [track : Nat, muted : BOOLEAN, active : BOOLEAN, timing : Clocks, resets : Nat]
AudioTypes ==
  /\ sound \in Sounds
  /\ work \in [AudioThreads -> Works]
  /\ ui \in [tasks : Seq(BOOLEAN), active : BOOLEAN]
  /\ duty = NoDuty \/ (\E b \in BOOLEAN : duty = <<b>> \/ duty = <<b, "tell">>)
  /\ played \in [resets : Nat, ns : Int]
  /\ spent \in [packets : Nat, handlers : Nat]

\* One thread has the decoder.
OneDecodes == \A t, o \in AudioThreads :
           work[t].stage \in Locked /\ work[o].stage \in Locked => t = o

\* The decoder was not reset since the last frame that OBS got.
SameDecoder == played.resets = sound.resets

\* What the thread that decodes has mapped is later than what OBS got.
OrderKept ==
  /\ played.resets <= sound.resets
  /\ SameDecoder => played.ns <= sound.timing.last
  /\ SameDecoder /\ ~sound.timing.set => played.ns = 0
  /\ \A t \in AudioThreads : work[t].stage # "idle" => spent.packets >= 1
  /\ \A t \in AudioThreads : work[t].stage \in Locked =>
       /\ sound.timing.set /\ work[t].ns = sound.timing.last
       /\ SameDecoder => played.ns < work[t].ns

\* The inductive invariant.
AudioInv == AudioTypes /\ OneDecodes /\ OrderKept

\* What is mapped goes forward, whatever the timestamps.
LEMMA MappedForward ==
  ASSUME NEW timing \in Clocks, NEW rtp \in 0..(Wrap - 1), NEW now \in Nat,
         NEW m, m = Mapped(timing, rtp, now)
  PROVE  /\ m \in Clocks /\ m.set
         /\ timing.set => m.last > timing.last
         /\ ~timing.set => m.last = now
<1> USE AudioAssumption
<1>1. CASE ~timing.set
  BY <1>1 DEF Mapped, Clocks
<1>2. CASE timing.set
  <2> DEFINE to == timing.base + ((rtp - timing.rtp) % Wrap) * TickNs
  <2>1. to \in Int
    <3>1. rtp - timing.rtp \in Int /\ Wrap \in Nat \ {0}
      BY DEF Clocks
    <3>2. (rtp - timing.rtp) % Wrap \in Nat
      BY <3>1
    <3> QED BY <3>2 DEF Clocks, TickNs
  <2>2. m = [timing EXCEPT !.last = IF to <= timing.last THEN timing.last + 1 ELSE to]
    BY <1>2 DEF Mapped
  <2> HIDE DEF to
  <2> QED BY <1>2, <2>1, <2>2 DEF Clocks
<1> QED BY <1>1, <1>2 DEF Clocks

\* Before the first packet.
LEMMA AudioStarts == AudioInit => AudioInv
<1> SUFFICES ASSUME AudioInit PROVE AudioInv
  OBVIOUS
<1>1. AudioTypes
  BY AudioAssumption
  DEF AudioInit, AudioTypes, Sounds, IdleWork, NoTiming, NoDuty, Works,
      Clocks, Locked
<1>2. OneDecodes /\ OrderKept
  BY DEF AudioInit, OneDecodes, OrderKept, SameDecoder, IdleWork, NoTiming,
     Locked
<1> QED BY <1>1, <1>2 DEF AudioInv

\* Steps of a thread.
LEMMA ThreadKeeps ==
  ASSUME AudioInv, NEW t \in AudioThreads,
         ReceivePacket(t) \/ DecodePacket(t) \/ CheckMuted(t) \/ MarkActive(t)
           \/ TellActive(t) \/ Play(t)
  PROVE  AudioInv'
<1> USE DEF AudioInv
<1>0. /\ AudioTypes /\ work[t] \in Works /\ sound.timing \in Clocks
  BY DEF AudioTypes, Sounds
<1>1. CASE ReceivePacket(t)
  <2>0. PICK rtp \in 0..(Wrap - 1) :
          work' = [work EXCEPT ![t] = [stage |-> "received", rtp |-> rtp, ns |-> 0]]
    BY <1>1 DEF ReceivePacket, SetWork, IdleWork
  <2> DEFINE w == [stage |-> "received", rtp |-> rtp, ns |-> 0]
  <2>a. w \in Works /\ w.stage = "received"
    BY AudioAssumption DEF Works
  <2>b. work' = [work EXCEPT ![t] = w]
    BY <2>0
  <2> HIDE DEF w
  <2>c. /\ spent' = [spent EXCEPT !.packets = @ + 1] /\ sound' = sound
        /\ duty' = duty
        /\ ui' = ui /\ played' = played
    BY <1>1 DEF ReceivePacket
  <2>d. spent' \in [packets : Nat, handlers : Nat] /\ spent'.packets >= 1
    BY <1>0, <2>c DEF AudioTypes
  <2>1. AudioTypes'
    BY <1>0, <2>a, <2>b, <2>c, <2>d DEF AudioTypes, Sounds
  <2>2. \A o \in AudioThreads :
          work'[o] = work[o] \/ work'[o].stage = "received"
    BY <1>0, <2>a, <2>b DEF AudioTypes, Sounds
  <2>3. /\ sound' = sound /\ played' = played /\ spent'.packets >= 1
        /\ spent'.packets \in Nat
    BY <2>c, <2>d
  <2> QED BY <2>1, <2>2, <2>3 DEF OneDecodes, OrderKept, SameDecoder, Locked
<1>2. CASE DecodePacket(t)
  <2> DEFINE m == Mapped(sound.timing, work[t].rtp, spent.packets * TickNs)
  <2>1. spent.packets * TickNs \in Nat /\ spent.packets * TickNs > 0
    BY <1>0, <1>2 DEF DecodePacket, AudioTypes, Sounds, OrderKept, TickNs
  <2>0. sound.timing \in Clocks /\ work[t].rtp \in 0..(Wrap - 1)
    BY <1>0 DEF AudioTypes, Sounds, Works
  <2>2. /\ m \in Clocks /\ m.set /\ (sound.timing.set => m.last > sound.timing.last)
        /\ (~sound.timing.set => m.last = spent.packets * TickNs)
    BY <2>0, <2>1, MappedForward, SMTT(40)
  <2>3. /\ sound' = [sound EXCEPT !.timing = m]
        /\ work' = [work EXCEPT ![t] = [work[t] EXCEPT !.stage = "decoding", !.ns = m.last]]
        /\ duty' = duty /\ ui' = ui /\ played' = played /\ spent' = spent
        /\ DecoderFree
        /\ work[t].stage = "received"
    BY <1>2 DEF DecodePacket, SetWork
  <2> HIDE DEF m
  <2>4. /\ sound'.timing = m /\ sound'.resets = sound.resets
        /\ work'[t] = [work[t] EXCEPT !.stage = "decoding", !.ns = m.last]
        /\ \A o \in AudioThreads \ {t} : work'[o] = work[o]
    BY <1>0, <2>3 DEF AudioTypes, Sounds
  <2>5. work'[t].stage = "decoding" /\ work'[t].ns = m.last /\ work'[t] \in Works
    BY <1>0, <2>2, <2>4 DEF Works, Locked, Clocks
  <2>6. AudioTypes'
    BY <1>0, <2>2, <2>3, <2>5 DEF AudioTypes, Sounds
  <2>7. \A o \in AudioThreads : work[o].stage \notin Locked
    BY <2>3 DEF DecoderFree, Locked
  <2>8. OneDecodes'
    BY <2>4, <2>7 DEF OneDecodes
  <2>9. SameDecoder' = SameDecoder
    BY <2>3, <2>4 DEF SameDecoder
  <2>10. m.last \in Int /\ played.ns \in Int /\ sound.timing.last \in Int
    BY <1>0, <2>2 DEF Clocks, AudioTypes, Sounds
  <2>11. SameDecoder => played.ns < m.last
    BY <2>1, <2>2, <2>10 DEF OrderKept
  <2>12. spent.packets >= 1
    BY <2>3 DEF OrderKept
  <2>13. OrderKept'
    BY <2>2, <2>3, <2>4, <2>5, <2>7, <2>9, <2>10, <2>11, <2>12
    DEF OrderKept, Locked
  <2> QED BY <2>6, <2>8, <2>13
<1>3. CASE CheckMuted(t) \/ MarkActive(t) \/ TellActive(t)
  <2>1. /\ played' = played /\ spent' = spent /\ duty' = duty
        /\ sound'.timing = sound.timing /\ sound'.resets = sound.resets
        /\ sound' \in Sounds
        /\ work[t].stage \in Locked
        /\ \/ work' = [work EXCEPT ![t] = IdleWork]
           \/ \E s \in Locked : work' = [work EXCEPT ![t] = [work[t] EXCEPT !.stage = s]]
    BY <1>0, <1>3
    DEF CheckMuted, MarkActive, TellActive, SetWork, Exchanged, TaskQueued,
       AudioTypes, Sounds, Locked
  <2>2. ui' \in [tasks : Seq(BOOLEAN), active : BOOLEAN]
    <3>1. ui' = ui \/ ui' = [ui EXCEPT !.tasks = Append(@, TRUE)]
      BY <1>3 DEF CheckMuted, MarkActive, TellActive, TaskQueued
    <3>2. /\ ui \in [tasks : Seq(BOOLEAN), active : BOOLEAN]
          /\ Append(ui.tasks, TRUE) \in Seq(BOOLEAN)
      BY <1>0, AppendProperties DEF AudioTypes, Sounds
    <3> QED BY <3>1, <3>2
  <2>3. IdleWork \in Works /\ IdleWork.stage = "idle"
    BY AudioAssumption DEF IdleWork, Works
  <2>4. /\ \A o \in AudioThreads \ {t} : work'[o] = work[o]
        /\ work' \in [AudioThreads -> Works]
        /\ work'[t].stage \notin Locked \/ work'[t].ns = work[t].ns
    <3>1. CASE work' = [work EXCEPT ![t] = IdleWork]
      BY <1>0, <2>3, <3>1 DEF AudioTypes, Sounds, Locked
    <3>2. CASE \E s \in Locked : work' = [work EXCEPT ![t] = [work[t] EXCEPT !.stage = s]]
      <4>0. PICK s \in Locked : work' = [work EXCEPT ![t] = [work[t] EXCEPT !.stage = s]]
        BY <3>2 DEF Sounds
      <4>a. PICK w : w = [work[t] EXCEPT !.stage = s]
        OBVIOUS
      <4>1. w = [work[t] EXCEPT !.stage = s] /\ work' = [work EXCEPT ![t] = w]
        BY <4>0, <4>a
      <4>2. w \in Works /\ w.ns = work[t].ns
        BY <1>0, <4>1 DEF Works
      <4> QED BY <1>0, <4>1, <4>2 DEF AudioTypes, Sounds
    <3> QED BY <2>1, <3>1, <3>2
  <2>5. AudioTypes'
    BY <1>0, <2>1, <2>2, <2>4 DEF AudioTypes, Sounds
  <2>6. OneDecodes'
    BY <2>1, <2>4 DEF OneDecodes
  <2>7. work[t].stage # "idle"
    BY <2>1 DEF Locked
  <2>8. OrderKept'
    BY <2>1, <2>4, <2>7 DEF OrderKept, SameDecoder
  <2> QED BY <2>5, <2>6, <2>8
<1>4. CASE Play(t)
  <2>1. /\ played' = [resets |-> sound.resets, ns |-> work[t].ns] /\ sound' = sound
        /\ work' = [work EXCEPT ![t] = IdleWork] /\ ui' = ui /\ duty' = duty
        /\ spent' = spent
        /\ work[t].stage \in Locked
    BY <1>4 DEF Play, SetWork, Locked
  <2>2. IdleWork \in Works /\ IdleWork.stage = "idle"
    BY AudioAssumption DEF IdleWork, Works
  <2>3. AudioTypes'
    BY <1>0, <2>1, <2>2 DEF AudioTypes, Sounds, Works
  <2>4. \A o \in AudioThreads :
          /\ work'[o].stage \notin Locked
          /\ (work'[o] = work[o] \/ work'[o] = IdleWork)
    BY <1>0, <2>1, <2>2 DEF AudioTypes, Sounds, OneDecodes, Locked
  <2>5. OneDecodes'
    BY <2>4 DEF OneDecodes
  <2>6. OrderKept'
    BY <1>0, <2>1, <2>2, <2>4
    DEF OrderKept, SameDecoder, AudioTypes, Sounds, Clocks, Works
  <2> QED BY <2>3, <2>5, <2>6
<1> QED BY <1>1, <1>2, <1>3, <1>4

\* The handlers, and OBS: a reset waits for the decoder.
LEMMA ResetsWait ==
  ASSUME AudioInv,
         \/ AttachAudio \/ RetireAudio \/ (\E value \in BOOLEAN : MuteAudio(value))
         \/ HandlerMarks \/ HandlerTells \/ RunTask
  PROVE  AudioInv'
<1> USE DEF AudioInv
<1>0. NoTiming \in Clocks /\ ~NoTiming.set
  BY AudioAssumption DEF NoTiming, Clocks
<1>1. /\ work' = work /\ played' = played
      /\ spent' \in [packets : Nat, handlers : Nat]
      /\ spent'.packets = spent.packets
      /\ sound' \in Sounds
      /\ \/ sound'.timing = sound.timing /\ sound'.resets = sound.resets
         \/ sound'.timing = NoTiming /\ sound'.resets = sound.resets + 1 /\ DecoderFree
  <2>1. CASE AttachAudio
    <3>1. /\ work' = work /\ played' = played /\ DecoderFree
          /\ spent' = [spent EXCEPT !.handlers = @ + 1]
          /\ sound' = [sound EXCEPT !.track = spent.handlers + 1,
                 !.timing = IF sound.track # 0 THEN NoTiming ELSE sound.timing,
                 !.resets = IF sound.track # 0 THEN sound.resets + 1 ELSE sound.resets]
      BY <2>1 DEF AttachAudio, Serve
    <3>2. sound \in Sounds /\ spent \in [packets : Nat, handlers : Nat]
      BY DEF AudioTypes, Sounds
    <3>3. CASE sound.track # 0
      <4>1. sound' = [sound EXCEPT !.track = spent.handlers + 1, !.timing = NoTiming,
                        !.resets = sound.resets + 1]
        BY <3>1, <3>3 DEF Sounds
      <4>2. sound' \in Sounds
        <5>1. sound' = [track |-> spent.handlers + 1, muted |-> sound.muted,
                        active |-> sound.active, timing |-> NoTiming, resets |-> sound.resets + 1]
          BY <3>2, <4>1 DEF Sounds
        <5>2. spent.handlers + 1 \in Nat /\ sound.resets + 1 \in Nat /\ sound.muted \in BOOLEAN
              /\ sound.active \in BOOLEAN
          BY <3>2 DEF Sounds
        <5> QED BY <1>0, <5>1, <5>2 DEF Sounds
      <4> QED BY <3>1, <3>2, <4>1, <4>2 DEF Sounds
    <3>4. CASE sound.track = 0
      <4>1. sound' = [sound EXCEPT !.track = spent.handlers + 1, !.timing = sound.timing,
                        !.resets = sound.resets]
        BY <3>1, <3>4
      <4>2. sound' \in Sounds
        <5>1. sound' = [track |-> spent.handlers + 1, muted |-> sound.muted,
                        active |-> sound.active, timing |-> sound.timing, resets |-> sound.resets]
          BY <3>2, <4>1 DEF Sounds
        <5>2. spent.handlers + 1 \in Nat /\ sound.resets \in Nat /\ sound.muted \in BOOLEAN
              /\ sound.active \in BOOLEAN /\ sound.timing \in Clocks
          BY <3>2 DEF Sounds
        <5> QED BY <5>1, <5>2 DEF Sounds
      <4> QED BY <3>1, <3>2, <4>1, <4>2 DEF Sounds
    <3> QED BY <3>3, <3>4
  <2>2. CASE RetireAudio
    <3>1. PICK muted \in {sound.muted, FALSE} :
             sound' = [sound EXCEPT !.track = 0, !.timing = NoTiming,
                              !.resets = sound.resets + 1, !.muted = muted]
      BY <2>2 DEF RetireAudio
    <3>2. /\ work' = work /\ played' = played /\ DecoderFree
          /\ spent' = [spent EXCEPT !.handlers = @ + 1]
      BY <2>2 DEF RetireAudio, Serve
    <3>3. /\ sound \in Sounds /\ spent \in [packets : Nat, handlers : Nat]
          /\ muted \in BOOLEAN
      BY DEF AudioTypes, Sounds
    <3>4. sound' \in Sounds
      <4>1. sound' = [track |-> 0, muted |-> muted, active |-> sound.active, timing |-> NoTiming,
                      resets |-> sound.resets + 1]
        BY <3>1, <3>3 DEF Sounds
      <4>2. sound.resets + 1 \in Nat /\ sound.active \in BOOLEAN
        BY <3>3 DEF Sounds
      <4> QED BY <1>0, <3>3, <4>1, <4>2 DEF Sounds
    <3>5. sound'.timing = NoTiming /\ sound'.resets = sound.resets + 1
      BY <3>1, <3>3 DEF Sounds
    <3> QED BY <3>2, <3>3, <3>4, <3>5
  <2>3. CASE \E value \in BOOLEAN : MuteAudio(value)
    <3>1. PICK value \in BOOLEAN : MuteAudio(value)
      BY <2>3
    <3>2. /\ sound' = [sound EXCEPT !.muted = value]
          /\ spent' = [spent EXCEPT !.handlers = @ + 1]
          /\ work' = work /\ played' = played
      BY <3>1 DEF MuteAudio, Serve
    <3>3. sound \in Sounds /\ spent \in [packets : Nat, handlers : Nat]
      BY DEF AudioTypes, Sounds
    <3>4. /\ sound' \in Sounds /\ sound'.timing = sound.timing
          /\ sound'.resets = sound.resets
      BY <3>2, <3>3 DEF Sounds
    <3> QED BY <3>2, <3>3, <3>4
  <2>4. CASE HandlerMarks
    <3>1. duty[1] \in BOOLEAN
      BY <2>4 DEF HandlerMarks, AudioTypes
    <3> QED
      BY <1>0, <2>4, <3>1 DEF HandlerMarks, Exchanged, AudioTypes, Sounds
  <2>5. CASE HandlerTells \/ RunTask
    BY <1>0, <2>5 DEF HandlerTells, RunTask, AudioTypes, Sounds
  <2> QED BY <2>1, <2>2, <2>3, <2>4, <2>5
<1>2. duty' = NoDuty \/ (\E b \in BOOLEAN : duty' = <<b>> \/ duty' = <<b, "tell">>)
  <2>1. CASE AttachAudio \/ RetireAudio \/ (\E value \in BOOLEAN : MuteAudio(value))
    BY <2>1 DEF AttachAudio, RetireAudio, MuteAudio, AudioTypes, Sounds
  <2>2. CASE HandlerMarks
    <3>1. duty[1] \in BOOLEAN
      BY <2>2 DEF HandlerMarks, AudioTypes, Sounds
    <3> QED BY <2>2, <3>1 DEF HandlerMarks
  <2>3. CASE HandlerTells \/ RunTask
    BY <2>3 DEF HandlerTells, RunTask, AudioTypes, Sounds
  <2> QED BY <2>1, <2>2, <2>3
<1>3. ui' \in [tasks : Seq(BOOLEAN), active : BOOLEAN]
  <2>1. CASE HandlerTells
    <3>1. duty[1] \in BOOLEAN
      <4>1. duty # <<>>
        BY <2>1 DEF HandlerTells
      <4> QED BY <4>1 DEF AudioTypes, Sounds, NoDuty
    <3>2. /\ Append(ui.tasks, duty[1]) \in Seq(BOOLEAN)
          /\ ui \in [tasks : Seq(BOOLEAN), active : BOOLEAN]
      BY <3>1, AppendProperties DEF AudioTypes, Sounds
    <3>3. ui' = [ui EXCEPT !.tasks = Append(ui.tasks, duty[1])]
      BY <2>1 DEF HandlerTells, TaskQueued
    <3> QED BY <3>2, <3>3
  <2>2. CASE RunTask
    <3>1. Head(ui.tasks) \in BOOLEAN /\ Tail(ui.tasks) \in Seq(BOOLEAN)
      BY <2>2, HeadTailProperties DEF RunTask, AudioTypes, Sounds
    <3> QED BY <2>2, <3>1 DEF RunTask
  <2>3. CASE ~(HandlerTells \/ RunTask)
    BY <2>3
    DEF AttachAudio, RetireAudio, MuteAudio, HandlerMarks, AudioTypes, Sounds
  <2> QED BY <2>1, <2>2, <2>3
<1>4. AudioTypes' /\ OneDecodes'
  BY <1>1, <1>2, <1>3 DEF AudioTypes, Sounds, OneDecodes
<1>5. OrderKept'
  <2>1. CASE sound'.timing = sound.timing /\ sound'.resets = sound.resets
    BY <1>1, <2>1 DEF OrderKept, SameDecoder
  <2>2. CASE sound'.timing = NoTiming /\ sound'.resets = sound.resets + 1 /\ DecoderFree
    <3>1. played.resets < sound'.resets
      BY <2>2 DEF OrderKept, AudioTypes, Sounds
    <3> QED
      BY <1>1, <2>2, <3>1
      DEF OrderKept, SameDecoder, DecoderFree, Locked, AudioTypes, Sounds
  <2> QED BY <1>1, <2>1, <2>2
<1> QED BY <1>4, <1>5

\* Every step keeps the invariant.
LEMMA AudioStep == AudioInv /\ [AudioNext]_audioVars => AudioInv'
<1> SUFFICES ASSUME AudioInv, [AudioNext]_audioVars PROVE AudioInv'
  OBVIOUS
<1>1. CASE UNCHANGED audioVars
  BY <1>1
  DEF audioVars, AudioInv, AudioTypes, Sounds, OneDecodes, OrderKept,
      SameDecoder
<1>2. CASE AudioNext
  BY <1>2, ThreadKeeps, ResetsWait DEF AudioNext
<1> QED BY <1>1, <1>2

\* So it always holds.
LEMMA AudioInductive == AudioSpec => []AudioInv
  BY AudioStarts, AudioStep, PTL DEF AudioSpec

\* Every variable of the sound has its type.
THEOREM AudioTyped == AudioSpec => []AudioTypeOK
<1>1. AudioInv => AudioTypeOK
  BY DEF AudioInv, AudioTypes, Sounds, AudioTypeOK, Works
<1> QED BY <1>1, AudioInductive, PTL

\* While the decoder is not reset OBS gets sound in the order of its own clock,
\* for any threads and any timestamps.
THEOREM SoundFollowsTime == AudioSpec => SoundAdvances
<1> DEFINE Advances ==
      (\E t \in AudioThreads : work[t].stage = "playing" /\ work'[t] = IdleWork)
        => (played'.resets = played.resets => played'.ns > played.ns)
<1>1. AudioInv /\ [AudioNext]_audioVars => [Advances]_audioVars
  <2> SUFFICES ASSUME AudioInv, AudioNext, NEW t \in AudioThreads,
                      work[t].stage = "playing", work'[t] = IdleWork,
                      played'.resets = played.resets
               PROVE  played'.ns > played.ns
    OBVIOUS
  <2>0. IdleWork.stage = "idle"
    BY DEF IdleWork
  <2>1. work[t] # work'[t]
    BY <2>0
  <2>2. PICK o \in AudioThreads :
          ReceivePacket(o) \/ DecodePacket(o) \/ CheckMuted(o) \/ MarkActive(o)
            \/ TellActive(o) \/ Play(o)
    BY <2>1
    DEF AudioNext, AttachAudio, RetireAudio, MuteAudio, HandlerMarks,
        HandlerTells,
       RunTask
  <2>3. o = t
    <3> SUFFICES ASSUME o # t PROVE work'[t] = work[t]
      BY <2>1
    <3> QED
      BY <2>2
      DEF ReceivePacket, DecodePacket, CheckMuted, MarkActive, TellActive,
          Play,
               SetWork, AudioInv, AudioTypes, Sounds
  <2>4. Play(t)
    BY <2>2, <2>3, <2>0
    DEF ReceivePacket, DecodePacket, CheckMuted, MarkActive, TellActive
  <2>5. played' = [resets |-> sound.resets, ns |-> work[t].ns]
    BY <2>4 DEF Play
  <2>6. SameDecoder
    BY <2>5 DEF SameDecoder
  <2>7. played.ns < work[t].ns /\ work[t].ns \in Int /\ played.ns \in Int
    BY <2>6 DEF AudioInv, OrderKept, Locked, AudioTypes, Sounds, Works
  <2> QED BY <2>5, <2>7
<1>2. AudioSpec => [][Advances]_audioVars
  BY <1>1, AudioInductive, PTL DEF AudioSpec
<1> QED BY <1>2 DEF SoundAdvances

------------------------------------------------------------------------------
(***************************************************************************)
(* The wrapper and its children (SourceShell).                             *)
(***************************************************************************)
\* The settings there can be, and the records they are part of.
AnySettings == Settings \cup {NoSettings}
Wrappers == [settings : AnySettings, showing : BOOLEAN, active : BOOLEAN,
             mirrored : [Uses -> BOOLEAN]]
Child == [live : BOOLEAN, configured : AnySettings, refs : [Uses -> Int], pending : BOOLEAN]
Inners == [settings : AnySettings, active : BOOLEAN, running : BOOLEAN, session : Streams \cup {""}]
States == [w : Wrappers, c : [Kinds -> Child], i : Inners]
UserTypes == user \in [settings : AnySettings, showing : BOOLEAN, active : BOOLEAN]

\* The references that a mirrored use stands for.
One(b) == IF b THEN 1 ELSE 0

\* The internal source runs while it is active, on the stream it was told.
InnerOK(i) == i.running => i.active /\ i.session = i.settings.stream
\* What holds of the children whatever settings the wrapper has just taken over.
Mirrors(st) ==
  /\ st \in States
  /\ \A k \in Kinds : ~st.c[k].live => st.c[k] = NoChild
  /\ \A k \in Kinds, u \in Uses : st.c[k].live => st.c[k].refs[u] = One(st.w.mirrored[u])
  /\ (\A k \in Kinds : ~st.c[k].live) => \A u \in Uses : ~st.w.mirrored[u]
  /\ ~st.c["native"].live => st.i = NoInner
  /\ InnerOK(st.i)

\* No two children live, the one that lives is what the settings ask for and was
\* told of them, and it is shown as the wrapper is.
OnlyOne(st) == ~(st.c["browser"].live /\ st.c["native"].live)
Fits(st) ==
  \A k \in Kinds : st.c[k].live =>
    k = KindOf(st.w.settings) /\ st.w.settings.stream # "" /\ st.c[k].configured = st.w.settings
Shows(st) ==
  \A u \in Uses : st.w[u] => \A k \in Kinds : st.c[k].live => st.w.mirrored[u]

\* No child, and no internal source.
LEMMA NoneIs == NoChild \in Child /\ NoInner \in Inners /\ ~NoChild.live /\ ~NoInner.running
                /\ NoInner.active = FALSE
  BY DEF NoChild, NoInner, Child, Inners, AnySettings, NoSettings, Uses

\* What synchronizing child k changes.
SyncedFrom(st, k, r) ==
  /\ r \in States /\ r.i = st.i
  /\ r.w.settings = st.w.settings /\ \A u \in Uses : r.w[u] = st.w[u]
  /\ \A u \in Uses : (r.w.mirrored[u] <=> st.w[u] \/ user[u])
  /\ \A o \in Kinds : o # k => r.c[o] = st.c[o]
  /\ r.c[k].live = st.c[k].live /\ r.c[k].configured = st.c[k].configured
  /\ \A u \in Uses : r.c[k].refs[u] =
       st.c[k].refs[u] + One(r.w.mirrored[u]) - One(st.w.mirrored[u])

\* It does that.
LEMMA SyncedDoes ==
  ASSUME NEW st \in States, NEW k \in Kinds, UserTypes, st.c[k].live,
         NEW r, r = Synced(st, k)
  PROVE  SyncedFrom(st, k, r)
<1> DEFINE wants == [u \in Uses |-> st.w[u] \/ user[u]]
           refs == [u \in Uses |-> st.c[k].refs[u] + (One(wants[u]) - One(st.w.mirrored[u]))]
<1>1. \A u \in Uses : st.w[u] \in BOOLEAN /\ user[u] \in BOOLEAN
  BY DEF States, Wrappers, UserTypes, Uses
<1>2. /\ wants \in [Uses -> BOOLEAN]
      /\ \A u \in Uses : wants[u] = (st.w[u] \/ user[u])
  BY <1>1
<1>3. /\ refs \in [Uses -> Int]
      /\ \A u \in Uses : refs[u] = st.c[k].refs[u] + (One(wants[u]) - One(st.w.mirrored[u]))
  BY DEF One, States, Wrappers, Child
<1>4. r = [st EXCEPT !.w.mirrored = wants, !.c[k].refs = refs]
  BY DEF Synced, One
<1> HIDE DEF wants, refs
<1>5. /\ r.w = [st.w EXCEPT !.mirrored = wants]
      /\ r.c = [st.c EXCEPT ![k].refs = refs]
      /\ r.i = st.i /\ r = [w |-> r.w, c |-> r.c, i |-> r.i]
  BY <1>4 DEF States
<1>6. r.w \in Wrappers /\ r.w.mirrored = wants /\ r.w.settings = st.w.settings
      /\ \A u \in Uses : r.w[u] = st.w[u]
  BY <1>2, <1>5 DEF States, Wrappers, Uses
<1>7. /\ r.c \in [Kinds -> Child] /\ \A o \in Kinds : o # k => r.c[o] = st.c[o]
      /\ r.c[k].live = st.c[k].live /\ r.c[k].configured = st.c[k].configured
      /\ r.c[k].refs = refs
  <2>1. st.c \in [Kinds -> Child] /\ st.c[k] \in Child
    BY DEF States
  <2> DEFINE d == [st.c[k] EXCEPT !.refs = refs]
  <2>2. /\ d \in Child /\ d.live = st.c[k].live /\ d.configured = st.c[k].configured
        /\ d.refs = refs
    BY <1>3, <2>1 DEF Child
  <2>3. r.c = [st.c EXCEPT ![k] = d]
    BY <1>5
  <2> HIDE DEF d
  <2> QED BY <2>1, <2>2, <2>3
<1>8. r \in States
  BY <1>5, <1>6, <1>7 DEF States
<1>9. \A u \in Uses :
        refs[u] = st.c[k].refs[u] + One(r.w.mirrored[u]) - One(st.w.mirrored[u])
  BY <1>2, <1>3, <1>6 DEF One, States, Child
<1> QED BY <1>2, <1>5, <1>6, <1>7, <1>8, <1>9 DEF SyncedFrom

\* Child k is the only one, and says that it is shown as the wrapper does.
OnlyChild(k, r) ==
  Mirrors(r) /\ Shows(r) /\ r.c[k].live /\ \A o \in Kinds : o # k => ~r.c[o].live

\* States that say what a child is for do so after it was synchronized.
LEMMA SyncedKeeps ==
  ASSUME UserTypes, NEW st, NEW k \in Kinds, Mirrors(st), st.c[k].live,
         \A o \in Kinds : o # k => ~st.c[o].live,
         NEW r, r = Synced(st, k)
  PROVE  OnlyChild(k, r) /\ r.w.settings = st.w.settings
         /\ r.c[k].configured = st.c[k].configured
<1>0. st \in States
  BY DEF Mirrors
<1>a. SyncedFrom(st, k, r)
  BY <1>0, SyncedDoes
<1>1. /\ r \in States /\ r.i = st.i
      /\ r.w.settings = st.w.settings /\ \A u \in Uses : r.w[u] = st.w[u]
      /\ \A u \in Uses : (r.w.mirrored[u] <=> st.w[u] \/ user[u])
      /\ \A o \in Kinds : o # k => r.c[o] = st.c[o]
      /\ r.c[k].live = st.c[k].live /\ r.c[k].configured = st.c[k].configured
      /\ \A u \in Uses : r.c[k].refs[u] =
           st.c[k].refs[u] + One(r.w.mirrored[u]) - One(st.w.mirrored[u])
  BY <1>0, <1>a DEF SyncedFrom
<1>2. \A u \in Uses : r.c[k].refs[u] = One(r.w.mirrored[u])
  <2> TAKE u \in Uses
  <2>1. st.c[k].refs[u] = One(st.w.mirrored[u])
    BY DEF Mirrors
  <2>2. One(st.w.mirrored[u]) \in Int /\ One(r.w.mirrored[u]) \in Int
    BY DEF One
  <2> QED BY <1>1, <2>1, <2>2
<1>3. ~r.c["native"].live => k # "native" /\ r.i = NoInner
  BY <1>1 DEF Mirrors, Kinds
<1>4. Mirrors(r)
  <2>1. \A o \in Kinds : ~r.c[o].live => r.c[o] = NoChild
    BY <1>1 DEF Mirrors
  <2>2. \A o \in Kinds, u \in Uses :
          r.c[o].live => r.c[o].refs[u] = One(r.w.mirrored[u])
    BY <1>1, <1>2
  <2>3. r.c[k].live /\ InnerOK(r.i)
    BY <1>1 DEF Mirrors
  <2> QED BY <1>1, <1>3, <2>1, <2>2, <2>3 DEF Mirrors
<1>5. Shows(r)
  BY <1>1 DEF Shows
<1> QED BY <1>1, <1>4, <1>5 DEF OnlyChild

\* What it gives back, field by field.
LEMMA ReleasedDoes ==
  ASSUME NEW st \in States, NEW k \in Kinds, st.c[k].live, NEW r, r = Released(st, k)
  PROVE  /\ r \in States /\ r.w.settings = st.w.settings
         /\ \A u \in Uses : r.w[u] = st.w[u] /\ ~r.w.mirrored[u]
         /\ r.c[k] = NoChild /\ \A o \in Kinds : o # k => r.c[o] = st.c[o]
         /\ r.i = IF k = "native" THEN NoInner ELSE st.i
<1> DEFINE off == [u \in Uses |-> FALSE]
           i == IF k = "native" THEN NoInner ELSE st.i
<1>1. off \in [Uses -> BOOLEAN] /\ \A u \in Uses : ~off[u]
  OBVIOUS
<1>2. r = [st EXCEPT !.w.mirrored = off, !.c[k] = NoChild, !.i = i]
  BY DEF Released
<1> HIDE DEF off
<1>3. /\ r.w = [st.w EXCEPT !.mirrored = off] /\ r.c = [st.c EXCEPT ![k] = NoChild]
      /\ r.i = i /\ r = [w |-> r.w, c |-> r.c, i |-> r.i]
  BY <1>2 DEF States
<1>4. r.w \in Wrappers /\ r.w.mirrored = off /\ r.w.settings = st.w.settings
      /\ \A u \in Uses : r.w[u] = st.w[u]
  BY <1>1, <1>3 DEF States, Wrappers, Uses
<1>5. /\ r.c \in [Kinds -> Child] /\ r.c[k] = NoChild
      /\ \A o \in Kinds : o # k => r.c[o] = st.c[o]
  BY <1>3, NoneIs DEF States
<1>6. r \in States
  BY <1>3, <1>4, <1>5, NoneIs DEF States
<1> QED BY <1>1, <1>3, <1>4, <1>5, <1>6

\* A released child leaves the other one as it was.
LEMMA ReleasedKeeps ==
  ASSUME NEW st, NEW k \in Kinds, Mirrors(st), OnlyOne(st),
         NEW r, r = Released(st, k)
  PROVE  /\ Mirrors(r) /\ OnlyOne(r) /\ r.w.settings = st.w.settings
         /\ ~r.c[k].live /\ \A u \in Uses : r.w[u] = st.w[u]
         /\ (\A o \in Kinds : o # k => r.c[o] = st.c[o])
<1>1. CASE ~st.c[k].live
  BY <1>1 DEF Released
<1>2. CASE st.c[k].live
  <2>0. st \in States
    BY DEF Mirrors
  <2>1. /\ r \in States /\ r.w.settings = st.w.settings
        /\ \A u \in Uses : r.w[u] = st.w[u] /\ ~r.w.mirrored[u]
        /\ r.c[k] = NoChild /\ \A o \in Kinds : o # k => r.c[o] = st.c[o]
        /\ r.i = IF k = "native" THEN NoInner ELSE st.i
    BY <1>2, <2>0, ReleasedDoes
  <2>2. \A o \in Kinds : ~r.c[o].live
    BY <1>2, <2>1, NoneIs DEF OnlyOne, Kinds
  <2>3. InnerOK(r.i)
    BY <2>1, NoneIs DEF InnerOK, Mirrors
  <2>4. r.i = NoInner
    BY <1>2, <2>1 DEF Mirrors, OnlyOne, Kinds
  <2>5. \A o \in Kinds : r.c[o] = NoChild
    BY <1>2, <2>1 DEF Mirrors, OnlyOne, Kinds
  <2>6. Mirrors(r)
    BY <2>1, <2>2, <2>3, <2>4, <2>5 DEF Mirrors
  <2> QED BY <2>1, <2>2, <2>6 DEF OnlyOne, Kinds
<1> QED BY <1>1, <1>2

\* The same, by name.
Alone(k, st) == Mirrors(st) /\ st.c[k].live /\ \A o \in Kinds : o # k => ~st.c[o].live
SyncedAs(k, st, r) == /\ OnlyChild(k, r) /\ r.w.settings = st.w.settings
                      /\ r.c[k].configured = st.c[k].configured

LEMMA SyncedAlone ==
  ASSUME UserTypes, NEW st, NEW k \in Kinds, Alone(k, st), NEW r, r = Synced(st, k)
  PROVE  SyncedAs(k, st, r)
BY SyncedKeeps DEF Alone, SyncedAs

\* Nothing but child k, which may still be told of the wrapper's settings.
SoleChild(k, st, r) ==
  /\ Mirrors(r) /\ r.w.settings = st.w.settings
  /\ \A o \in Kinds : o # k => ~r.c[o].live

\* A child is created where there is none.
LEMMA EnsuredKeeps ==
  ASSUME UserTypes, NEW st, NEW k \in Kinds, NEW creates, Mirrors(st),
         \A o \in Kinds : o # k => ~st.c[o].live,
         ~st.c[k].live, k = KindOf(st.w.settings), st.w.settings.stream # "",
         NEW r, r = Ensured(st, k, creates)
  PROVE  SoleChild(k, st, r)
<1> DEFINE new == [NoChild EXCEPT !.live = TRUE, !.configured = st.w.settings]
           i == IF k = "native" THEN [NoInner EXCEPT !.settings = st.w.settings] ELSE st.i
           m == [st EXCEPT !.c[k] = new, !.i = i]
<1>0. st \in States /\ st.w.settings \in AnySettings
  BY DEF Mirrors, States, Wrappers
<1>1. /\ new \in Child /\ new.live /\ new.configured = st.w.settings
      /\ \A u \in Uses : new.refs[u] = 0
  <2>1. NoChild \in Child /\ \A u \in Uses : NoChild.refs[u] = 0
    BY NoneIs DEF NoChild
  <2> QED BY <1>0, <2>1 DEF Child
<1>2. i \in Inners /\ InnerOK(i) /\ (k # "native" => i = st.i)
  BY <1>0
  DEF States, NoInner, Inners, AnySettings, NoSettings, InnerOK, Mirrors
<1> HIDE DEF new, i
<1>3. /\ m.w = st.w /\ m.c = [st.c EXCEPT ![k] = new] /\ m.i = i
      /\ m = [w |-> m.w, c |-> m.c, i |-> m.i]
  <2>1. st = [w |-> st.w, c |-> st.c, i |-> st.i] /\ st.c \in [Kinds -> Child]
    BY <1>0 DEF States
  <2> DEFINE c == [st.c EXCEPT ![k] = new]
  <2>2. m = [st EXCEPT !.c = c, !.i = i]
    BY <2>1
  <2> HIDE DEF c, m
  <2>3. m.w = st.w /\ m.c = c /\ m.i = i /\ m = [w |-> m.w, c |-> m.c, i |-> m.i]
    BY <2>1, <2>2
  <2> QED BY <2>3 DEF c
<1> HIDE DEF m
<1>4. m \in States /\ m.c[k] = new /\ \A o \in Kinds : o # k => m.c[o] = st.c[o]
  BY <1>0, <1>1, <1>2, <1>3 DEF States
<1>5. \A u \in Uses : ~st.w.mirrored[u]
  BY DEF Mirrors
<1>6. Mirrors(m)
  <2>1. \A u \in Uses : m.c[k].refs[u] = One(m.w.mirrored[u])
    BY <1>1, <1>3, <1>4, <1>5 DEF One
  <2>2. ~m.c["native"].live => m.i = NoInner
    BY <1>1, <1>2, <1>3, <1>4 DEF Mirrors, Kinds
  <2>3. \A o \in Kinds : ~m.c[o].live => m.c[o] = NoChild
    BY <1>1, <1>4 DEF Mirrors
  <2>4. \A o \in Kinds, u \in Uses :
          m.c[o].live => m.c[o].refs[u] = One(m.w.mirrored[u])
    <3> TAKE o \in Kinds, u \in Uses
    <3>1. o # k => ~m.c[o].live
      BY <1>4
    <3> QED BY <2>1, <3>1
  <2>5. ~ \A o \in Kinds : ~m.c[o].live
    BY <1>1, <1>4
  <2>6. m \in States /\ InnerOK(m.i)
    BY <1>2, <1>3, <1>4
  <2> QED BY <2>2, <2>3, <2>4, <2>5, <2>6 DEF Mirrors
<1>8. m.c[k].live /\ \A o \in Kinds : o # k => ~m.c[o].live
  BY <1>1, <1>4
<1>9. CASE creates
  <2>1. r = Synced(m, k)
    BY <1>9 DEF Ensured, m, new, i
  <2>2. Alone(k, m)
    BY <1>6, <1>8 DEF Alone
  <2>3. SyncedAs(k, m, r)
    BY <2>1, <2>2, SyncedAlone
  <2> QED BY <2>3, <1>3 DEF OnlyChild, SoleChild, SyncedAs
<1>10. CASE ~creates
  BY <1>10 DEF Ensured, SoleChild
<1> QED BY <1>9, <1>10

\* A wrapper between two calls of OBS.
Good(st) == Mirrors(st) /\ OnlyOne(st) /\ Fits(st) /\ Shows(st)

\* Updating a child of the kind that is asked for, creating it where it may.
LEMMA UpdatedKeeps ==
  ASSUME UserTypes, NEW st, NEW k \in Kinds, NEW creates, Mirrors(st), OnlyOne(st),
         \A o \in Kinds : o # k => ~st.c[o].live,
         k = KindOf(st.w.settings), NEW r, r = Updated(st, k, creates)
  PROVE  Good(r)
<1>1. CASE st.w.settings.stream = ""
  <2>1. r = Released(st, k)
    BY <1>1 DEF Updated
  <2>2. Mirrors(r) /\ OnlyOne(r) /\ \A o \in Kinds : ~r.c[o].live
    BY <2>1, ReleasedKeeps
  <2> QED BY <2>2 DEF Good, Fits, Shows
<1>2. CASE st.w.settings.stream # ""
  <2> DEFINE there == Ensured(st, k, creates)
  <2>1. /\ Mirrors(there) /\ there.w.settings = st.w.settings
        /\ \A o \in Kinds : o # k => ~there.c[o].live
    <3>1. CASE st.c[k].live
      BY <3>1 DEF Ensured
    <3>2. CASE ~st.c[k].live
      <4>1. PICK new : new = there
        OBVIOUS
      <4>2. SoleChild(k, st, new)
        BY <1>2, <3>2, <4>1, EnsuredKeeps
      <4> QED BY <4>1, <4>2 DEF SoleChild
    <3> QED BY <3>1, <3>2
  <2>2. r = IF ~there.c[k].live THEN there
            ELSE IF there.c[k].configured = st.w.settings THEN Synced(there, k)
            ELSE Synced([there EXCEPT !.c[k].configured = st.w.settings,
                                      !.c[k].pending = TRUE], k)
    BY <1>2 DEF Updated
  <2> HIDE DEF there
  <2>3. there \in States /\ there = [w |-> there.w, c |-> there.c, i |-> there.i]
        /\ st.w.settings \in AnySettings
    BY <2>1 DEF Mirrors, States, Wrappers
  <2>4. ASSUME NEW m, Mirrors(m), m.w.settings = st.w.settings, m.c[k].live,
               \A o \in Kinds : o # k => ~m.c[o].live,
               m.c[k].configured = st.w.settings, r = Synced(m, k)
        PROVE  Good(r)
    <3>1. /\ OnlyChild(k, r) /\ r.w.settings = m.w.settings
          /\ r.c[k].configured = m.c[k].configured
      BY <2>4, SyncedKeeps
    <3>2. Fits(r)
      BY <1>2, <2>4, <3>1 DEF Fits, OnlyChild
    <3> QED BY <3>1, <3>2 DEF Good, OnlyChild, OnlyOne, Kinds
  <2>5. CASE ~there.c[k].live
    <3>1. r = there /\ \A o \in Kinds : ~there.c[o].live
      BY <2>1, <2>2, <2>5
    <3> QED BY <2>1, <3>1 DEF Good, OnlyOne, Fits, Shows, Kinds
  <2>6. CASE there.c[k].live /\ there.c[k].configured = st.w.settings
    BY <2>1, <2>2, <2>4, <2>6
  <2>7. CASE there.c[k].live /\ there.c[k].configured # st.w.settings
    <3> DEFINE d == [there.c[k] EXCEPT !.configured = st.w.settings, !.pending = TRUE]
               m == [there EXCEPT !.c[k].configured = st.w.settings, !.c[k].pending = TRUE]
    <3>1. /\ d \in Child /\ d.live = there.c[k].live /\ d.refs = there.c[k].refs
          /\ d.configured = st.w.settings
      BY <2>3 DEF States, Child
    <3>2. m = [there EXCEPT !.c = [there.c EXCEPT ![k] = d]]
      BY <2>3 DEF States
    <3>3. r = Synced(m, k)
      BY <2>2, <2>7
    <3> HIDE DEF d, m
    <3>4. /\ m.w = there.w /\ m.i = there.i /\ m.c = [there.c EXCEPT ![k] = d]
          /\ m = [w |-> m.w, c |-> m.c, i |-> m.i]
      BY <2>3, <3>2
    <3>5. m.c[k] = d /\ \A o \in Kinds : o # k => m.c[o] = there.c[o]
      BY <2>3, <3>4 DEF States
    <3>6. m \in States
      BY <2>3, <3>1, <3>4 DEF States
    <3>7. Mirrors(m)
      <4>1. \A o \in Kinds : m.c[o].live = there.c[o].live /\ m.c[o].refs = there.c[o].refs
                             /\ (~m.c[o].live => m.c[o] = there.c[o])
        BY <2>7, <3>1, <3>5
      <4> QED BY <2>1, <3>4, <3>6, <4>1 DEF Mirrors, Kinds
    <3>8. m.c[k].live /\ m.c[k].configured = st.w.settings /\ m.w.settings = st.w.settings
          /\ \A o \in Kinds : o # k => ~m.c[o].live
      BY <2>1, <2>7, <3>1, <3>4, <3>5
    <3> QED BY <2>4, <3>3, <3>7, <3>8
  <2> QED BY <2>5, <2>6, <2>7
<1> QED BY <1>1, <1>2

\* Whatever the settings now say, the other kind is released first.
LEMMA ChildUpdatedGood ==
  ASSUME UserTypes, NEW st, NEW creates, Mirrors(st), OnlyOne(st),
         NEW r, r = ChildUpdated(st, creates)
  PROVE  Good(r)
<1> DEFINE k == KindOf(st.w.settings)
           other == CHOOSE o \in Kinds : o # k
           m == Released(st, other)
<1>1. /\ k \in Kinds /\ other \in Kinds /\ other # k
      /\ \A o \in Kinds : o # k => o = other
  BY DEF KindOf, Kinds
<1>2. r = Updated(m, k, creates)
  BY DEF ChildUpdated
<1> HIDE DEF other, m
<1>3. PICK new : new = m
  OBVIOUS
<1>4. /\ Mirrors(new) /\ OnlyOne(new) /\ new.w.settings = st.w.settings
      /\ ~new.c[other].live
  BY <1>1, <1>3, ReleasedKeeps DEF m
<1>5. k = KindOf(new.w.settings)
  BY <1>4
<1> HIDE DEF k
<1> QED BY <1>1, <1>2, <1>3, <1>4, <1>5, UpdatedKeeps

\* Synchronizing whichever child lives.
LEMMA ActiveChildGood ==
  ASSUME UserTypes, NEW st, Mirrors(st), OnlyOne(st), Fits(st),
         NEW r, r = ActiveChildSynced(st)
  PROVE  Good(r)
<1> DEFINE k == KindOf(st.w.settings)
<1>1. k \in Kinds
  BY DEF KindOf, Kinds
<1>2. CASE ~st.c[k].live
  <2>1. r = st /\ \A o \in Kinds : ~st.c[o].live
    BY <1>2 DEF ActiveChildSynced, Fits
  <2> QED BY <2>1 DEF Good, Shows
<1>3. CASE st.c[k].live
  <2>1. r = Synced(st, k) /\ \A o \in Kinds : o # k => ~st.c[o].live
    BY <1>3 DEF ActiveChildSynced, Fits
  <2>2. /\ OnlyChild(k, r) /\ r.w.settings = st.w.settings
        /\ r.c[k].configured = st.c[k].configured
    BY <1>1, <1>3, <2>1, SyncedKeeps
  <2>3. Fits(r)
    BY <1>1, <1>3, <2>2 DEF Fits, OnlyChild
  <2> QED BY <1>1, <2>2, <2>3 DEF Good, OnlyChild, OnlyOne, Kinds
<1> QED BY <1>2, <1>3

\* The inductive invariant.
ShellInv == UserTypes /\ Good(Now)

\* The three variables as one record.
LEMMA NowIs ==
  ASSUME Now \in States
  PROVE  /\ wrapper \in Wrappers /\ child \in [Kinds -> Child] /\ inner \in Inners
         /\ Now.w = wrapper /\ Now.c = child /\ Now.i = inner
  BY DEF States, Now

\* Only the wrapper's settings and its own two flags may differ.
LEMMA RetoldMirrors ==
  ASSUME NEW st, Mirrors(st), NEW w \in Wrappers, w.mirrored = st.w.mirrored,
         NEW r, r = [st EXCEPT !.w = w]
  PROVE  Mirrors(r) /\ r.w = w /\ r.c = st.c /\ (OnlyOne(st) => OnlyOne(r))
<1>1. st \in States /\ st = [w |-> st.w, c |-> st.c, i |-> st.i]
  BY DEF Mirrors, States
<1>2. r \in States /\ r.w = w /\ r.c = st.c /\ r.i = st.i
  BY <1>1 DEF States
<1> QED BY <1>2 DEF Mirrors, OnlyOne

\* A step that takes over such a record.
LEMMA BecomesGood ==
  ASSUME NEW r, Good(r), wrapper' = r.w, child' = r.c, inner' = r.i
  PROVE  Good(Now')
<1>1. r = [w |-> r.w, c |-> r.c, i |-> r.i]
  BY DEF Good, Mirrors, States
<1>2. Now' = r
  BY <1>1 DEF Now
<1> QED BY <1>2

\* OBS updates the settings.
LEMMA UpdateGood ==
  ASSUME ShellInv, NEW creates, Update(creates)
  PROVE  Good(Now')
<1> DEFINE w == [wrapper EXCEPT !.settings = user.settings]
           st == [Now EXCEPT !.w.settings = user.settings]
<1>1. Mirrors(Now) /\ OnlyOne(Now) /\ Now \in States
  BY DEF ShellInv, Good, Mirrors
<1>2. w \in Wrappers /\ w.mirrored = Now.w.mirrored /\ st = [Now EXCEPT !.w = w]
  BY <1>1, NowIs DEF ShellInv, UserTypes, Wrappers, Now
<1> HIDE DEF w
<1>3. PICK new : new = st
  OBVIOUS
<1>4. Mirrors(new) /\ OnlyOne(new)
  BY <1>1, <1>2, <1>3, RetoldMirrors
<1>5. PICK r : r = ChildUpdated(st, creates)
  OBVIOUS
<1>6. wrapper' = r.w /\ child' = r.c /\ inner' = r.i
  BY <1>5 DEF Update, Becomes
<1> HIDE DEF st
<1>7. UserTypes
  BY DEF ShellInv
<1>8. Good(r)
  BY <1>3, <1>4, <1>5, <1>7, ChildUpdatedGood
<1> QED BY <1>6, <1>8, BecomesGood

\* OBS shows or activates the wrapper,
LEMMA BeginGood ==
  ASSUME ShellInv, NEW u \in Uses, NEW creates, Begin(u, creates)
  PROVE  Good(Now')
<1> DEFINE w == [wrapper EXCEPT ![u] = TRUE]
           st == [Now EXCEPT !.w[u] = TRUE]
<1>1. Mirrors(Now) /\ OnlyOne(Now) /\ Now \in States
  BY DEF ShellInv, Good, Mirrors
<1>2. w \in Wrappers /\ w.mirrored = Now.w.mirrored /\ st = [Now EXCEPT !.w = w]
  BY <1>1, NowIs DEF Wrappers, Now, Uses
<1> HIDE DEF w
<1>3. PICK new : new = st
  OBVIOUS
<1>4. Mirrors(new) /\ OnlyOne(new)
  BY <1>1, <1>2, <1>3, RetoldMirrors
<1>5. PICK m : m = ChildUpdated(st, creates)
  OBVIOUS
<1>6. PICK r : r = ActiveChildSynced(m)
  OBVIOUS
<1>7. wrapper' = r.w /\ child' = r.c /\ inner' = r.i
  BY <1>5, <1>6 DEF Begin, Becomes
<1> HIDE DEF st
<1>8. UserTypes
  BY DEF ShellInv
<1>9. Good(m)
  BY <1>3, <1>4, <1>5, <1>8, ChildUpdatedGood
<1>10. Good(r)
  BY <1>6, <1>8, <1>9, ActiveChildGood DEF Good
<1> QED BY <1>7, <1>10, BecomesGood

\* hides or deactivates it,
LEMMA EndGood ==
  ASSUME ShellInv, NEW u \in Uses, End(u)
  PROVE  Good(Now')
<1> DEFINE w == [wrapper EXCEPT ![u] = FALSE]
           st == [Now EXCEPT !.w[u] = FALSE]
<1>1. Mirrors(Now) /\ OnlyOne(Now) /\ Now \in States /\ Fits(Now)
  BY DEF ShellInv, Good, Mirrors
<1>a. PICK now : now = Now
  OBVIOUS
<1>2. w \in Wrappers /\ w.mirrored = now.w.mirrored /\ st = [now EXCEPT !.w = w]
      /\ w.settings = now.w.settings
  BY <1>1, <1>a, NowIs DEF Wrappers, Now, Uses
<1> HIDE DEF w
<1>3. PICK new : new = st
  OBVIOUS
<1>4. Mirrors(new) /\ OnlyOne(new)
  BY <1>a, <1>1, <1>2, <1>3, RetoldMirrors
<1>b. new.w = w /\ new.c = now.c
  BY <1>a, <1>1, <1>2, <1>3 DEF States
<1>5. Fits(new)
  BY <1>a, <1>1, <1>2, <1>b DEF Fits
<1>6. PICK r : r = ActiveChildSynced(st)
  OBVIOUS
<1>7. wrapper' = r.w /\ child' = r.c /\ inner' = r.i
  BY <1>6 DEF End, Becomes
<1> HIDE DEF st
<1>8. UserTypes
  BY DEF ShellInv
<1>9. Good(r)
  BY <1>3, <1>4, <1>5, <1>6, <1>8, ActiveChildGood
<1> QED BY <1>7, <1>9, BecomesGood

\* and destroys it.
LEMMA DestroyGood ==
  ASSUME ShellInv, Destroy
  PROVE  Good(Now')
<1>1. Mirrors(Now) /\ OnlyOne(Now)
  BY DEF ShellInv, Good
<1>2. PICK now : now = Now
  OBVIOUS
<1>3. PICK a : a = Released(now, "browser")
  OBVIOUS
<1>4. Mirrors(a) /\ OnlyOne(a) /\ ~a.c["browser"].live
  BY <1>1, <1>2, <1>3, ReleasedKeeps DEF Kinds
<1>5. PICK b : b = Released(a, "native")
  OBVIOUS
<1>6. Mirrors(b) /\ OnlyOne(b) /\ \A k \in Kinds : ~b.c[k].live
  BY <1>4, <1>5, ReleasedKeeps DEF Kinds
<1> DEFINE w == [b.w EXCEPT !.settings = NoSettings]
<1>7. b \in States
  BY <1>6 DEF Mirrors
<1>8. w \in Wrappers /\ w.mirrored = b.w.mirrored
  BY <1>7 DEF States, Wrappers, AnySettings
<1>9. PICK r : r = [b EXCEPT !.w = w]
  OBVIOUS
<1>10. r = [b EXCEPT !.w.settings = NoSettings]
  BY <1>9
<1> HIDE DEF w
<1>11. Mirrors(r) /\ OnlyOne(r) /\ r.c = b.c
  BY <1>6, <1>8, <1>9, RetoldMirrors
<1>12. Good(r)
  BY <1>6, <1>11 DEF Good, Fits, Shows
<1>13. wrapper' = r.w /\ child' = r.c /\ inner' = r.i
  BY <1>2, <1>3, <1>5, <1>10 DEF Destroy, Becomes
<1> QED BY <1>12, <1>13, BecomesGood

\* The internal source plays while it is active, and what it was told.
LEMMA ConnectedOK ==
  ASSUME NEW i \in Inners, InnerOK(i), i.active, NEW r, r = Connected(i)
  PROVE  r \in Inners /\ InnerOK(r)
<1>1. i.settings.stream \in Streams \cup {""}
  <2>1. i.settings \in AnySettings
    BY DEF Inners
  <2>2. CASE i.settings \in Settings
    BY <2>2 DEF Settings
  <2>3. CASE i.settings = NoSettings
    <3>1. NoSettings.stream = ""
      BY DEF NoSettings
    <3> QED BY <2>3, <3>1
  <2> QED BY <2>1, <2>2, <2>3 DEF AnySettings
<1>2. CASE i.settings.stream = ""
  BY <1>2 DEF Connected
<1>3. CASE i.settings.stream # ""
  BY <1>1, <1>3 DEF Connected, Inners, InnerOK
<1> QED BY <1>2, <1>3

\* It stops, and stays active.
LEMMA DisconnectedOK ==
  ASSUME NEW i \in Inners, NEW r, r = Disconnected(i)
  PROVE  r \in Inners /\ InnerOK(r) /\ ~r.running /\ r.active = i.active
  BY DEF Disconnected, Inners, InnerOK

\* It takes other settings over, and starts again where they differ.
LEMMA InnerUpdatedOK ==
  ASSUME NEW i \in Inners, InnerOK(i), NEW settings \in AnySettings,
         NEW r, r = InnerUpdated(i, settings)
  PROVE  r \in Inners /\ InnerOK(r)
<1>1. PICK loaded : loaded = [i EXCEPT !.settings = settings]
  OBVIOUS
<1>2. /\ loaded \in Inners /\ loaded.active = i.active /\ loaded.running = i.running
      /\ loaded.session = i.session /\ loaded.settings = settings
  BY <1>1 DEF Inners
<1>3. ~i.running \/ ~ConnectionChanged(i, settings) => InnerOK(loaded)
  BY <1>2 DEF InnerOK, ConnectionChanged
<1>4. PICK ended : ended = Disconnected(loaded)
  OBVIOUS
<1>5. /\ ended \in Inners /\ InnerOK(ended) /\ ~ended.running
      /\ ended.active = loaded.active
  BY <1>2, <1>4, DisconnectedOK
<1>6. r = IF ~i.active
          THEN IF i.running /\ ConnectionChanged(i, settings) THEN ended ELSE loaded
          ELSE IF ConnectionChanged(i, settings) THEN Connected(ended)
          ELSE IF ~i.running THEN Connected(loaded)
          ELSE loaded
  BY <1>1, <1>4 DEF InnerUpdated
<1>7. CASE r = ended
  BY <1>5, <1>7
<1>8. CASE r = loaded /\ (~i.running \/ ~ConnectionChanged(i, settings))
  BY <1>2, <1>3, <1>8
<1>9. CASE r = Connected(ended) /\ i.active
  BY <1>2, <1>5, <1>9, ConnectedOK
<1>10. CASE r = Connected(loaded) /\ i.active /\ ~i.running
  BY <1>2, <1>3, <1>10, ConnectedOK
<1> QED BY <1>6, <1>7, <1>8, <1>9, <1>10

\* The internal source's own steps.
LEMMA InnerGood ==
  ASSUME ShellInv, InnerUpdate \/ InnerActivate \/ InnerDeactivate \/ ConnectionFails
  PROVE  Good(Now')
<1>1. Good(Now) /\ Mirrors(Now) /\ Now \in States /\ inner \in Inners /\ InnerOK(inner)
      /\ child \in [Kinds -> Child]
  BY NowIs DEF ShellInv, Good, Mirrors, Now
<1>2. ASSUME InnerUpdate
      PROVE  /\ inner' \in Inners /\ InnerOK(inner') /\ wrapper' = wrapper
             /\ child' \in [Kinds -> Child] /\ child'["native"].live
             /\ \A k \in Kinds : child'[k].live = child[k].live
                  /\ child'[k].configured = child[k].configured
                  /\ child'[k].refs = child[k].refs
                  /\ (~child[k].live => child'[k] = child[k])
  <2>1. /\ child["native"] \in Child /\ child["native"].live
        /\ child["native"].configured \in AnySettings
    BY <1>1, <1>2 DEF InnerUpdate, Kinds, Child
  <2> DEFINE d == [child["native"] EXCEPT !.pending = FALSE]
  <2>2. /\ d \in Child /\ d.live /\ d.configured = child["native"].configured
        /\ d.refs = child["native"].refs
    BY <2>1 DEF Child
  <2>3. child' = [child EXCEPT !["native"] = d]
    BY <1>2 DEF InnerUpdate
  <2> HIDE DEF d
  <2>4. inner' \in Inners /\ InnerOK(inner') /\ wrapper' = wrapper
    BY <1>1, <1>2, <2>1, InnerUpdatedOK DEF InnerUpdate
  <2> QED BY <1>1, <2>1, <2>2, <2>3, <2>4 DEF Kinds
<1>3. ASSUME InnerActivate \/ InnerDeactivate \/ ConnectionFails
      PROVE  /\ inner' \in Inners /\ InnerOK(inner') /\ wrapper' = wrapper
             /\ child' = child
             /\ (~child["native"].live => inner' = inner)
  <2>1. ~child["native"].live => child["native"].refs["active"] = 0 /\ inner = NoInner
    BY <1>1 DEF Mirrors, Now, Kinds, NoChild, Uses
  <2>2. CASE InnerActivate
    <3>1. /\ inner' = Connected([inner EXCEPT !.active = TRUE])
          /\ child["native"].live
      BY <2>1, <2>2 DEF InnerActivate
    <3>2. PICK i : i = [inner EXCEPT !.active = TRUE]
      OBVIOUS
    <3>3. i \in Inners /\ InnerOK(i) /\ i.active
      BY <1>1, <3>2 DEF Inners, InnerOK
    <3> QED BY <2>2, <3>1, <3>2, <3>3, ConnectedOK DEF InnerActivate
  <2>3. CASE InnerDeactivate
    <3>1. PICK i : i = [inner EXCEPT !.active = FALSE]
      OBVIOUS
    <3>2. i \in Inners /\ inner' = Disconnected(i)
      BY <1>1, <2>3, <3>1 DEF Inners, InnerDeactivate
    <3>3. inner' \in Inners /\ InnerOK(inner')
      BY <3>2, DisconnectedOK
    <3>4. child["native"].live
      BY <2>1, <2>3, NoneIs DEF InnerDeactivate
    <3> QED BY <2>3, <3>3, <3>4 DEF InnerDeactivate
  <2>4. CASE ConnectionFails
    <3>1. child["native"].live
      BY <2>1, <2>4, NoneIs DEF ConnectionFails
    <3> QED BY <1>1, <2>4, <3>1 DEF ConnectionFails, Inners, InnerOK
  <2> QED BY <1>3, <2>2, <2>3, <2>4
<1>4. CASE InnerUpdate
  <2>1. PICK r : r = Now'
    OBVIOUS
  <2>2. r.w = wrapper /\ r.c = child' /\ r.i = inner' /\ r \in States
    BY <1>1, <1>2, <1>4, <2>1, NowIs DEF Now, States
  <2>3. Mirrors(r)
    BY <1>1, <1>2, <1>4, <2>2 DEF Mirrors, Now, Kinds
  <2>4. OnlyOne(r) /\ Fits(r) /\ Shows(r)
    BY <1>1, <1>2, <1>4, <2>2 DEF Good, OnlyOne, Fits, Shows, Now, Kinds
  <2> QED BY <2>1, <2>3, <2>4 DEF Good
<1>5. CASE InnerActivate \/ InnerDeactivate \/ ConnectionFails
  <2>1. PICK r : r = Now'
    OBVIOUS
  <2>2. r.w = wrapper /\ r.c = child /\ r.i = inner' /\ r \in States
    BY <1>1, <1>3, <1>5, <2>1, NowIs DEF Now, States
  <2>3. Mirrors(r)
    BY <1>1, <1>3, <1>5, <2>2 DEF Mirrors, Now, Kinds
  <2>4. OnlyOne(r) /\ Fits(r) /\ Shows(r)
    BY <1>1, <1>3, <1>5, <2>2 DEF Good, OnlyOne, Fits, Shows, Now, Kinds
  <2> QED BY <2>1, <2>3, <2>4 DEF Good
<1> QED BY <1>4, <1>5

\* What the user asked for has its type.
LEMMA UserKeeps ==
  ASSUME UserTypes, [ShellNext]_shellVars
  PROVE  UserTypes'
<1>1. ASSUME NEW settings \in Settings, UserSets(settings)
      PROVE  UserTypes'
  BY <1>1 DEF UserSets, UserTypes, AnySettings
<1>2. ASSUME NEW u \in Uses, UserUses(u)
      PROVE  UserTypes'
  BY <1>2 DEF UserUses, UserTypes, Uses
<1>3. CASE Destroy
  BY <1>3 DEF Destroy, UserTypes, AnySettings
<1>4. CASE user' = user
  BY <1>4 DEF UserTypes
<1> QED
  BY <1>1, <1>2, <1>3, <1>4
  DEF ShellNext, shellVars, UserSets, End, Begin, Update,
       InnerUpdate, InnerActivate, InnerDeactivate, ConnectionFails

\* Every step leaves a wrapper between two calls.
LEMMA GoodKept ==
  ASSUME ShellInv, [ShellNext]_shellVars
  PROVE  Good(Now')
<1>1. CASE UNCHANGED <<wrapper, child, inner>>
  BY <1>1 DEF Now, ShellInv
<1>2. ASSUME NEW u \in Uses, End(u) \/ \E c \in BOOLEAN : Begin(u, c)
      PROVE  Good(Now')
  BY <1>2, EndGood, BeginGood
<1>3. ASSUME NEW c \in BOOLEAN, Update(c)
      PROVE  Good(Now')
  BY <1>3, UpdateGood
<1>4. CASE Destroy
  BY <1>4, DestroyGood
<1>5. CASE InnerUpdate \/ InnerActivate \/ InnerDeactivate \/ ConnectionFails
  BY <1>5, InnerGood
<1> QED
  BY <1>1, <1>2, <1>3, <1>4, <1>5 DEF ShellNext, shellVars, UserSets, UserUses

\* Before the first call.
LEMMA ShellStarts ==
  ShellInit => ShellInv
<1> SUFFICES ASSUME ShellInit PROVE ShellInv
  OBVIOUS
<1>1. UserTypes
  BY DEF ShellInit, UserTypes, AnySettings
<1> DEFINE off == [u \in Uses |-> FALSE]
<1>2. off \in [Uses -> BOOLEAN] /\ \A u \in Uses : ~off[u]
  OBVIOUS
<1>3. wrapper = [settings |-> user.settings, showing |-> FALSE, active |-> FALSE, mirrored |-> off]
  BY DEF ShellInit
<1> HIDE DEF off
<1>4. /\ wrapper \in Wrappers /\ wrapper.mirrored = off /\ ~wrapper.showing
      /\ ~wrapper.active
  BY <1>1, <1>2, <1>3 DEF Wrappers, UserTypes
<1>5. /\ child \in [Kinds -> Child]
      /\ (\A k \in Kinds : child[k] = NoChild /\ ~child[k].live) /\ inner = NoInner
  BY NoneIs DEF ShellInit
<1>6. Now \in States /\ Now.w = wrapper /\ Now.c = child /\ Now.i = inner
  BY <1>4, <1>5, NoneIs DEF Now, States
<1>7. Mirrors(Now)
  BY <1>2, <1>4, <1>5, <1>6, NoneIs DEF Mirrors, InnerOK, Kinds
<1> QED
  BY <1>1, <1>4, <1>5, <1>6, <1>7
  DEF ShellInv, Good, OnlyOne, Fits, Shows, Kinds

\* Between two calls of OBS one child lives at most, of the kind and with the
\* settings that the wrapper has, shown as the wrapper is, and the internal source
\* runs on the stream it was told, for any settings and numbers of calls.
THEOREM ChildAlwaysFollows == ShellSpec => []ChildFollowsWrapper
<1>1. ShellInv /\ [ShellNext]_shellVars => ShellInv'
  BY UserKeeps, GoodKept DEF ShellInv
<1>2. ShellInv => ChildFollowsWrapper
  <2> SUFFICES ASSUME ShellInv PROVE ChildFollowsWrapper
    OBVIOUS
  <2>1. Good(Now) /\ Now.w = wrapper /\ Now.c = child /\ Now.i = inner
    BY DEF ShellInv, Now
  <2>2. \A k \in Kinds, u \in Uses :
          child[k].live /\ wrapper[u] => child[k].refs[u] = 1
    <3> TAKE k \in Kinds, u \in Uses
    <3> HAVE child[k].live /\ wrapper[u]
    <3>1. child[k].refs[u] = One(wrapper.mirrored[u])
      BY <2>1 DEF Good, Mirrors
    <3>2. wrapper.mirrored[u]
      BY <2>1 DEF Good, Shows
    <3> QED BY <3>1, <3>2 DEF One
  <2> QED BY <2>1, <2>2 DEF ChildFollowsWrapper, Good, Mirrors, Fits, InnerOK
<1> QED BY <1>1, <1>2, ShellStarts, PTL DEF ShellSpec

\* Every variable of the wrapper and its children has its type.
THEOREM ShellTyped == ShellSpec => []ShellTypeOK
<1>1. ShellInv /\ [ShellNext]_shellVars => ShellInv'
  BY UserKeeps, GoodKept DEF ShellInv
<1>2. ShellInv => ShellTypeOK
  <2> SUFFICES ASSUME ShellInv PROVE ShellTypeOK
    OBVIOUS
  <2>1. Mirrors(Now) /\ Now \in States /\ UserTypes
    BY DEF ShellInv, Good, Mirrors
  <2>2. /\ wrapper \in Wrappers /\ child \in [Kinds -> Child] /\ inner \in Inners
        /\ Now.w = wrapper /\ Now.c = child /\ Now.i = inner
    BY <2>1, NowIs
  <2>3. \A k \in Kinds : child[k].refs \in [Uses -> {0, 1}]
    <3> TAKE k \in Kinds
    <3>1. CASE child[k].live
      <4>1. \A u \in Uses : child[k].refs[u] = One(wrapper.mirrored[u])
        BY <2>1, <2>2, <3>1 DEF Mirrors
      <4>2. child[k].refs \in [Uses -> Int]
        BY <2>2 DEF Child
      <4> QED BY <4>1, <4>2 DEF One
    <3>2. CASE ~child[k].live
      BY <2>1, <2>2, <3>2 DEF Mirrors, NoChild
    <3> QED BY <3>1, <3>2
  <2> QED
    BY <2>1, <2>2, <2>3
    DEF ShellTypeOK, UserTypes, AnySettings, Wrappers, Inners
<1> QED BY <1>1, <1>2, ShellStarts, PTL DEF ShellSpec

------------------------------------------------------------------------------
(***************************************************************************)
(* The composition (MCReceiving).                                          *)
(***************************************************************************)
\* A behaviour of the specification that the run checks is one of each of its
\* components: whoever the subject is, the others take no step.
LEMMA SubjectsAre == Spec => TrackSpec /\ MediaSpec /\ AudioSpec /\ ShellSpec
<1>1. Init => TrackInit /\ MediaInit /\ AudioInit /\ ShellInit
  BY DEF Init, tracksIdle, mediaIdle, shellIdle
<1>2. [Next]_<<subject, trackVars, mediaVars, audioVars, shellVars>>
        => /\ [TrackNext]_trackVars /\ [MediaNext]_mediaVars
           /\ [AudioNext]_audioVars /\ [ShellNext]_shellVars
  BY DEF Next
<1> QED
  BY <1>1, <1>2, PTL DEF Spec, TrackSpec, MediaSpec, AudioSpec, ShellSpec

\* Every variable of the receiving side has its type.
THEOREM ReceivingTyped == Spec => []ReceivingTypeOK
<1>1. TracksTypeOK /\ MediaTypeOK /\ AudioTypeOK /\ ShellTypeOK => ReceivingTypeOK
  BY DEF ReceivingTypeOK
<1> QED
  BY <1>1, SubjectsAre, TracksTyped, MediaTyped, AudioTyped, ShellTyped, PTL
================================================================================
