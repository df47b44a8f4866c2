------------------------------ MODULE PeerRegistry ------------------------------
(***************************************************************************)
(* The publisher peers of VDONinjaPeerManager: how a viewer's request      *)
(* creates a peer, registers it in peers_ and makes it send an offer, and  *)
(* how it leaves: by a terminal state of its connection, a newer session,  *)
(* a disconnect, an ICE restart that replaces it, or stopPublishing().     *)
(*                                                                         *)
(* Threads.  Handlers run the signaling handlers: messages come from the   *)
(* socket's thread and, through data channels, from the threads of other   *)
(* peers.  Each connection runs its own callbacks one at a time: the       *)
(* thread of generation g is g itself.  One control thread starts and      *)
(* stops publishing.  A step is a critical section or a run of reads that  *)
(* no lock covers.  Every peer is named by its generation, which the code  *)
(* never reuses.                                                           *)
(*                                                                         *)
(* Left out: media and data channels, ICE candidates, the keyframe gate,   *)
(* and viewer peers, which are registered in the same way.                 *)
(***************************************************************************)
EXTENDS Integers, FiniteSets

CONSTANTS
  Handlers,        \* threads that run the handlers
  Sockets,         \* those that deliver the messages of a signaling socket
  Uuids,           \* remote viewers
  Sessions,        \* session identifiers
  Named,           \* the sessions messages name, None for an empty one
  MaxViewers,      \* maxViewers_
  MaxGenerations,  \* bound on the connections created
  MaxMessages,     \* bound on the messages delivered
  MaxStarts,       \* bound on the calls of startPublishing()
  AutoOffer,       \* a data channel makes libdatachannel offer by itself
  None

ASSUME RegistryAssumption ==
  /\ Sockets \subseteq Handlers
  /\ IsFiniteSet(Handlers) /\ Handlers # {} /\ IsFiniteSet(Uuids)
  /\ MaxViewers \in Nat /\ MaxGenerations \in Nat
  /\ MaxMessages \in Nat /\ MaxStarts \in Nat
  /\ AutoOffer \in BOOLEAN
  /\ Named \subseteq Sessions \cup {None}
  /\ None \notin Uuids /\ None \notin Sessions /\ None \notin Nat
  /\ Handlers \cap Nat = {}

Generations == 1..MaxGenerations
Threads == Handlers \cup Generations

VARIABLES
  publishing,    \* publishing_
  peers,         \* peers_, from viewer to generation
  active,        \* PeerInfo::signalingActive
  info,          \* the other fields of each PeerInfo
  generation,    \* nextPeerGeneration_
  retiredPeers,  \* retiredPeers_
  job,           \* where each thread is, and its local variables
  stop,          \* where the control thread is
  messages,      \* messages delivered
  starts         \* times publishing was started

manager == <<publishing, peers, active, info, generation, retiredPeers>>
bounds == <<messages, starts>>
vars == <<publishing, peers, active, info, generation, retiredPeers, job, stop,
          messages, starts>>

PeerStates == {"new", "connected", "terminal"}
OfferStates == {"none", "pending", "delivered", "answered"}
ConnStates == {"none", "open", "closed", "released"}
Reports == {"none", "connected", "disconnected"}

\* offered is whether an offer of this peer went to the signaling client and
\* report what the owner was told last.  conn is "open" exactly while the
\* connection has its callbacks installed.
PeerInfo ==
  [uuid: Uuids \cup {None}, session: Sessions \cup {None}, state: PeerStates,
   retired: BOOLEAN, notified: BOOLEAN, requested: BOOLEAN,
   dispatched: BOOLEAN, cached: BOOLEAN, offered: BOOLEAN,
   offer: OfferStates, conn: ConnStates, report: Reports]

Uncreated ==
  [uuid |-> None, session |-> None, state |-> "new",
   retired |-> FALSE, notified |-> FALSE, requested |-> FALSE,
   dispatched |-> FALSE, cached |-> FALSE, offered |-> FALSE,
   offer |-> "none", conn |-> "none", report |-> "none"]

Returns == {"idle", "admit", "claim", "retirePeer"}

Places ==
  Returns \cup
  {"lookup", "create", "register", "resend", "describe", "sendCached",
   "describing", "answering", "restart", "rebuild", "recheck", "swap", "offer",
   "sendFresh", "describeFresh", "rollback", "restore", "close", "retireFresh",
   "erasePeer", "eraseFresh", "changed", "dispatch", "send"}

\* peer is the registered peer a thread works on, fresh the one it created;
\* next is where it goes on after retiring one of them.
Jobs ==
  [at: Places, uuid: Uuids \cup {None}, session: Sessions \cup {None},
   peer: Generations \cup {None}, fresh: Generations \cup {None},
   already: BOOLEAN, next: Returns]

Idle == [at |-> "idle", uuid |-> None, session |-> None, peer |-> None,
         fresh |-> None, already |-> FALSE, next |-> "idle"]

Resting == [at |-> "idle", todo |-> {}, peer |-> None]

\* Every variable has its type.
TypeOK ==
  /\ publishing \in BOOLEAN
  /\ peers \in [Uuids -> Generations \cup {None}]
  /\ active \in [Generations -> BOOLEAN]
  /\ info \in [Generations -> PeerInfo]
  /\ generation \in 1..(MaxGenerations + 1)
  /\ retiredPeers \subseteq Generations
  /\ job \in [Threads -> Jobs]
  /\ stop \in [at: {"idle", "collect", "close", "release"},
               todo: SUBSET Generations, peer: Generations \cup {None}]
  /\ messages \in 0..MaxMessages /\ starts \in 0..MaxStarts

Init ==
  /\ publishing = FALSE
  /\ peers = [u \in Uuids |-> None]
  /\ active = [g \in Generations |-> FALSE]
  /\ info = [g \in Generations |-> Uncreated]
  /\ generation = 1
  /\ retiredPeers = {}
  /\ job = [t \in Threads |-> Idle]
  /\ stop = Resting
  /\ messages = 0 /\ starts = 0

------------------------------------------------------------------------------
(* Helpers *)

Registered(g) == \E u \in Uuids : peers[u] = g

\* isCurrentPeer()
Current(g) == info[g].uuid # None /\ peers[info[g].uuid] = g

Terminal(g) == info[g].state = "terminal"

\* rtc::PeerConnection::signalingState() == Stable
Stable(g) == info[g].offer \in {"none", "answered"}

\* getPublisherSlotCount()
Slots == Cardinality({u \in Uuids : peers[u] # None /\ ~Terminal(peers[u])})

MayAdmit == Slots < MaxViewers

SameSession(s, g) == s = None \/ info[g].session = s

\* A registered peer that a request with session s does not reuse.
Stale(s, g) == ~SameSession(s, g) \/ Terminal(g)

\* candidateMutex_ guards these two flags and the call that sends the offer.
MaySend(g) == active[g] /\ ~info[g].retired

\* Clearing a callback waits until the connection's thread has left it.
Quiet(g) == job[g].at = "idle"

At(t, place) == job[t].at = place
Go(t, place) == job' = [job EXCEPT ![t].at = place]
Deliver(t) ==
  /\ At(t, "idle") /\ messages < MaxMessages
  /\ messages' = messages + 1

Leave(t) == job' = [job EXCEPT ![t] = Idle]

\* releasePeerResources() of every peer of a set.
Released(S) ==
  [g \in Generations |->
     IF g \in S
       THEN [info[g] EXCEPT !.retired = TRUE, !.cached = FALSE,
                            !.conn = "released"]
       ELSE info[g]]

\* pruneRetiredPeers(): which retired peers are old enough is a matter of time.
Prunable(S) == S \subseteq retiredPeers /\ \A g \in S : Quiet(g)

\* Sending an offer.
Offered(g) == [info EXCEPT ![g].offered = TRUE, ![g].dispatched = TRUE]

\* What the error paths of the offer request leave behind.
Unclaimed(g) == [info EXCEPT ![g].requested = FALSE, ![g].cached = FALSE]
------------------------------------------------------------------------------
(* retirePeerForDeferredCleanup() *)

Target(t) ==
  IF job[t].at \in {"retireFresh", "eraseFresh"} THEN job[t].fresh
                                                 ELSE job[t].peer

BeginRetire(t) ==
  /\ job[t].at \in {"retirePeer", "retireFresh"}
  /\ info' = [info EXCEPT ![Target(t)].retired = TRUE]
  /\ job' = [job EXCEPT ![t].already = info[Target(t)].retired,
                        ![t].at = IF @ = "retirePeer" THEN "erasePeer"
                                                      ELSE "eraseFresh"]
  /\ UNCHANGED <<publishing, peers, active, generation, retiredPeers, stop, bounds>>

\* Mutant: retiring leaves the entry to the caller.
WithoutNothing(g) == peers

\* The registry without g.
Without(g) == [u \in Uuids |-> IF peers[u] = g THEN None ELSE peers[u]]

FinishRetire(t) ==
  /\ job[t].at \in {"erasePeer", "eraseFresh"}
  /\ LET g == Target(t) IN
       /\ peers' = Without(g)
       /\ active' = [active EXCEPT ![g] = FALSE]
       /\ retiredPeers' = IF job[t].already THEN retiredPeers
                                            ELSE retiredPeers \cup {g}
  /\ IF job[t].next = "idle"
       THEN Leave(t)
       ELSE job' = [job EXCEPT ![t].at = job[t].next, ![t].next = "idle"]
  /\ UNCHANGED <<publishing, info, generation, stop, bounds>>
------------------------------------------------------------------------------
(* createPublisherConnection(), up to the registration *)

NewPeer(u, s) ==
  [Uncreated EXCEPT !.uuid = u, !.session = s, !.conn = "open",
                    !.offer = IF AutoOffer THEN "pending" ELSE "none"]

Construct(t, place) ==
  /\ generation <= MaxGenerations
  /\ \E aged \in SUBSET retiredPeers, s \in Sessions :
       /\ Prunable(aged)
       /\ job[t].session \in {None, s}
       /\ retiredPeers' = retiredPeers \ aged
       /\ info' = [Released(aged) EXCEPT ![generation] = NewPeer(job[t].uuid, s)]
  /\ job' = [job EXCEPT ![t].fresh = generation, ![t].at = place]
  /\ generation' = generation + 1
  /\ UNCHANGED <<publishing, peers, active, stop, bounds>>

\* Setting up callbacks or tracks throws: the connection is never seen again.
ConstructThrows(t) ==
  /\ generation <= MaxGenerations
  /\ \E aged \in SUBSET retiredPeers :
       /\ Prunable(aged)
       /\ retiredPeers' = retiredPeers \ aged
       /\ info' = [Released(aged) EXCEPT ![generation].retired = TRUE,
                                         ![generation].conn = "released"]
  /\ Leave(t)
  /\ generation' = generation + 1
  /\ UNCHANGED <<publishing, peers, active, stop, bounds>>
------------------------------------------------------------------------------
(* onSignalingOfferRequest() *)

OfferRequest(h) ==
  /\ h \in Sockets /\ Deliver(h) /\ publishing
  /\ \E u \in Uuids, s \in Named :
       job' = [job EXCEPT ![h] = [Idle EXCEPT !.at = "lookup", !.uuid = u,
                                              !.session = s]]
  /\ UNCHANGED <<manager, stop, starts>>

LookupNobody(h) ==
  /\ At(h, "lookup") /\ peers[job[h].uuid] = None
  /\ Go(h, "admit")
  /\ UNCHANGED <<manager, stop, bounds>>

LookupStale(h) ==
  /\ At(h, "lookup")
  /\ LET g == peers[job[h].uuid] IN
       /\ g # None /\ Stale(job[h].session, g)
       /\ peers' = [peers EXCEPT ![job[h].uuid] = None]
       /\ active' = [active EXCEPT ![g] = FALSE]
       /\ job' = [job EXCEPT ![h].peer = g, ![h].at = "retirePeer",
                             ![h].next = "admit"]
  /\ UNCHANGED <<publishing, info, generation, retiredPeers, stop, bounds>>

LookupPeer(h) ==
  /\ At(h, "lookup")
  /\ LET g == peers[job[h].uuid] IN
       /\ g # None /\ ~Stale(job[h].session, g)
       /\ job' = [job EXCEPT ![h].peer = g, ![h].at = "claim"]
  /\ UNCHANGED <<manager, stop, bounds>>

Admit(h) ==
  /\ At(h, "admit")
  /\ IF MayAdmit THEN Go(h, "create") ELSE Leave(h)
  /\ UNCHANGED <<manager, stop, bounds>>

Create(h) == At(h, "create") /\ (Construct(h, "register") \/ ConstructThrows(h))

Register(h) ==
  /\ At(h, "register") /\ peers[job[h].uuid] = None
  /\ peers' = [peers EXCEPT ![job[h].uuid] = job[h].fresh]
  /\ active' = [active EXCEPT ![job[h].fresh] = TRUE]
  /\ job' = [job EXCEPT ![h].peer = job[h].fresh, ![h].at = "claim"]
  /\ UNCHANGED <<publishing, info, generation, retiredPeers, stop, bounds>>

WithLoser == "retireFresh"

\* Another handler registered a peer for this viewer meanwhile.
RegisterConcurrent(h) ==
  /\ At(h, "register") /\ peers[job[h].uuid] # None
  /\ job' = [job EXCEPT ![h].peer = peers[job[h].uuid], ![h].at = WithLoser,
                        ![h].next = "claim"]
  /\ UNCHANGED <<manager, stop, bounds>>

\* Whether the request repeats one that is already being served.
Duplicate(h, g) ==
  SameSession(job[h].session, g) /\ ~Terminal(g) /\ info[g].requested

Claim(h) ==
  /\ At(h, "claim")
  /\ LET g == job[h].peer IN
       /\ info' = [info EXCEPT ![g].requested = TRUE]
       /\ IF ~Duplicate(h, g) THEN Go(h, "describe")
          ELSE IF info[g].state = "new" THEN Go(h, "resend") ELSE Leave(h)
  /\ UNCHANGED <<publishing, peers, active, generation, retiredPeers, stop, bounds>>

Resend(h) ==
  /\ At(h, "resend")
  /\ LET g == job[h].peer IN
       info' = IF info[g].cached /\ MaySend(g)
                 THEN [info EXCEPT ![g].offered = TRUE] ELSE info
  /\ Leave(h)
  /\ UNCHANGED <<publishing, peers, active, generation, retiredPeers, stop, bounds>>

Describe(h) ==
  /\ At(h, "describe")
  /\ LET g == job[h].peer IN
       /\ info' = [info EXCEPT
                     ![g].session = IF job[h].session = None THEN @
                                                             ELSE job[h].session,
                     ![g].dispatched = FALSE]
       /\ Go(h, IF info[g].cached THEN "sendCached" ELSE "describing")
  /\ UNCHANGED <<publishing, peers, active, generation, retiredPeers, stop, bounds>>

SendCached(h) ==
  /\ At(h, "sendCached")
  /\ LET g == job[h].peer IN
       info' = IF MaySend(g) THEN Offered(g) ELSE Unclaimed(g)
  /\ Leave(h)
  /\ UNCHANGED <<publishing, peers, active, generation, retiredPeers, stop, bounds>>

\* The call starts a description unless one is under way.  A handler whose
\* peer was released has dereferenced a null connection and goes no further.
Described(g) == [info EXCEPT ![g].offer = IF Stable(g) THEN "pending" ELSE @]

SetLocalDescription(h) ==
  /\ At(h, "describing")
  /\ LET g == job[h].peer IN
       \/ info[g].conn = "open" /\ info' = Described(g)
       \/ info[g].conn = "closed" /\ info' = Unclaimed(g)
  /\ Leave(h)
  /\ UNCHANGED <<publishing, peers, active, generation, retiredPeers, stop, bounds>>
------------------------------------------------------------------------------
(* onSignalingAnswer() *)

\* A viewer answers an offer it was sent, maybe by a peer replaced since.
Invited(u) == \E g \in Generations : info[g].uuid = u /\ info[g].offered

Answer(h) ==
  /\ Deliver(h)
  /\ \E u \in Uuids, s \in Named :
       /\ Invited(u) /\ peers[u] # None /\ ~Stale(s, peers[u])
       /\ job' = [job EXCEPT ![h] = [Idle EXCEPT !.at = "answering", !.uuid = u,
                                                 !.peer = peers[u]]]
  /\ UNCHANGED <<manager, stop, starts>>

SetRemoteDescription(h) ==
  /\ At(h, "answering")
  /\ LET g == job[h].peer IN
       /\ info[g].conn \in {"open", "closed"}
       /\ info' = [info EXCEPT ![g].offer =
                     IF info[g].conn = "open" /\ @ = "delivered" THEN "answered" ELSE @]
  /\ Leave(h)
  /\ UNCHANGED <<publishing, peers, active, generation, retiredPeers, stop, bounds>>
------------------------------------------------------------------------------
(* requestIceRestart() *)

MayReplace(g) ==
  /\ ~info[g].retired /\ ~Terminal(g)
  /\ info[g].conn # "released" /\ Stable(g)

IceRestart(h) ==
  /\ Deliver(h) /\ publishing
  /\ \E u \in Uuids, s \in Named :
       job' = [job EXCEPT ![h] = [Idle EXCEPT !.at = "restart", !.uuid = u,
                                              !.session = s]]
  /\ UNCHANGED <<manager, stop, starts>>

MayRebuild(h, g) == g # None /\ MayReplace(g) /\ SameSession(job[h].session, g)

RestartPeer(h) ==
  /\ At(h, "restart")
  /\ LET g == peers[job[h].uuid] IN
       IF MayRebuild(h, g)
         THEN job' = [job EXCEPT ![h].at = "rebuild", ![h].peer = g,
                                 ![h].session = info[g].session]
         ELSE Leave(h)
  /\ UNCHANGED <<manager, stop, bounds>>

Rebuild(h) == At(h, "rebuild") /\ (Construct(h, "recheck") \/ ConstructThrows(h))

\* The state is read before the lock under which the registry changes.
Recheck(h) ==
  /\ At(h, "recheck")
  /\ Go(h, IF MayReplace(job[h].peer) THEN "swap" ELSE "retireFresh")
  /\ UNCHANGED <<manager, stop, bounds>>

Swap(h) ==
  /\ At(h, "swap") /\ peers[job[h].uuid] = job[h].peer
  /\ peers' = [peers EXCEPT ![job[h].uuid] = job[h].fresh]
  /\ active' = [active EXCEPT ![job[h].peer] = FALSE, ![job[h].fresh] = TRUE]
  /\ Go(h, "offer")
  /\ UNCHANGED <<publishing, info, generation, retiredPeers, stop, bounds>>

Superseded(h) ==
  /\ At(h, "swap") /\ peers[job[h].uuid] # job[h].peer
  /\ Go(h, "retireFresh")
  /\ UNCHANGED <<manager, stop, bounds>>

RestartOffer(h) ==
  /\ At(h, "offer")
  /\ LET g == job[h].fresh IN
       /\ info' = [info EXCEPT ![g].requested = TRUE, ![g].dispatched = FALSE]
       /\ Go(h, IF info[g].cached THEN "sendFresh"
                ELSE IF Stable(g) \/ info[g].conn = "released"
                       THEN "describeFresh" ELSE "rollback")
  /\ UNCHANGED <<publishing, peers, active, generation, retiredPeers, stop, bounds>>

SendFresh(h) ==
  /\ At(h, "sendFresh")
  /\ LET g == job[h].fresh IN
       IF MaySend(g) THEN info' = Offered(g) /\ Go(h, "retirePeer")
                     ELSE Go(h, "rollback") /\ UNCHANGED info
  /\ UNCHANGED <<publishing, peers, active, generation, retiredPeers, stop, bounds>>

DescribeFresh(h) ==
  /\ At(h, "describeFresh")
  /\ LET g == job[h].fresh IN
       \/ info[g].conn = "open" /\ info' = Described(g) /\ Go(h, "retirePeer")
       \/ info[g].conn = "closed" /\ Go(h, "rollback") /\ UNCHANGED info
  /\ UNCHANGED <<publishing, peers, active, generation, retiredPeers, stop, bounds>>

Rollback(h) ==
  /\ At(h, "rollback")
  /\ Go(h, IF info[job[h].fresh].dispatched THEN "retirePeer" ELSE "restore")
  /\ UNCHANGED <<manager, stop, bounds>>

MayRestore(h) ==
  /\ peers[job[h].uuid] = job[h].fresh
  /\ ~info[job[h].peer].retired /\ ~Terminal(job[h].peer)

Restore(h) ==
  /\ At(h, "restore")
  /\ IF MayRestore(h)
       THEN /\ peers' = [peers EXCEPT ![job[h].uuid] = job[h].peer]
            /\ active' = [active EXCEPT ![job[h].fresh] = FALSE,
                                        ![job[h].peer] = TRUE]
            /\ Go(h, "retireFresh")
       ELSE /\ job' = [job EXCEPT ![h].at = "retireFresh", ![h].next = "retirePeer"]
            /\ UNCHANGED <<peers, active>>
  /\ UNCHANGED <<publishing, info, generation, retiredPeers, stop, bounds>>
------------------------------------------------------------------------------
(* disconnectPeer() *)

Disconnect(h) ==
  /\ Deliver(h)
  /\ \E u \in Uuids :
       /\ peers[u] # None
       /\ active' = [active EXCEPT ![peers[u]] = FALSE]
       /\ peers' = [peers EXCEPT ![u] = None]
       /\ job' = [job EXCEPT ![h] = [Idle EXCEPT !.at = "close", !.uuid = u,
                                                 !.peer = peers[u]]]
  /\ UNCHANGED <<publishing, info, generation, retiredPeers, stop, starts>>

\* Mutant: the peer is marked before the call that keys on the mark.
ClosedAndMarked(g) ==
  [info EXCEPT ![g].conn = IF @ = "open" THEN "closed" ELSE @,
               ![g].retired = TRUE]

\* The flag is left to retirePeerForDeferredCleanup().
Closed(g) ==
  [info EXCEPT ![g].conn = IF @ = "open" THEN "closed" ELSE @]

Close(h) ==
  /\ At(h, "close") /\ Quiet(job[h].peer)
  /\ info' = Closed(job[h].peer)
  /\ Go(h, "retirePeer")
  /\ UNCHANGED <<publishing, peers, active, generation, retiredPeers, stop, bounds>>
------------------------------------------------------------------------------
(* The callbacks of a connection *)

\* Mutant: a state change is handled whatever became of the peer.
ListensAlways(g) == TRUE

\* What onStateChange checks before it acts.
Listens(g) == ~info[g].retired /\ Current(g)

StateChange(g) ==
  /\ Quiet(g) /\ info[g].conn = "open" /\ Listens(g)
  /\ job' = [job EXCEPT ![g] = [Idle EXCEPT !.at = "changed", !.peer = g]]
  /\ UNCHANGED <<manager, stop, bounds>>

Connected(g) ==
  /\ At(g, "changed")
  /\ info' = [info EXCEPT ![g].state = "connected", ![g].notified = FALSE,
                          ![g].retired = FALSE, ![g].report = "connected"]
  /\ Leave(g)
  /\ UNCHANGED <<publishing, peers, active, generation, retiredPeers, stop, bounds>>

Disconnected(g) ==
  /\ At(g, "changed")
  /\ info' = [info EXCEPT ![g].state = "terminal", ![g].notified = TRUE]
  /\ Go(g, IF info[g].notified THEN "retirePeer" ELSE "dispatch")
  /\ UNCHANGED <<publishing, peers, active, generation, retiredPeers, stop, bounds>>

DispatchDisconnected(g) ==
  /\ At(g, "dispatch")
  /\ info' = IF Listens(g) THEN [info EXCEPT ![g].report = "disconnected"] ELSE info
  /\ Go(g, "retirePeer")
  /\ UNCHANGED <<publishing, peers, active, generation, retiredPeers, stop, bounds>>

\* Mutant: an offer nobody asked for yet is not kept.
DeliveredIfAsked(g) ==
  [info EXCEPT ![g].offer = "delivered", ![g].cached = @ \/ info[g].requested]

Delivered(g) ==
  [info EXCEPT ![g].offer = "delivered", ![g].cached = TRUE]

\* onLocalDescription: the offer is cached, then sent if it was asked for.
LocalDescription(g) ==
  /\ Quiet(g) /\ info[g].conn = "open" /\ info[g].offer = "pending"
  /\ info' = Delivered(g)
  /\ job' = [job EXCEPT ![g] = [Idle EXCEPT !.at = "send", !.peer = g]]
  /\ UNCHANGED <<publishing, peers, active, generation, retiredPeers, stop, bounds>>

SendLocal(g) ==
  /\ At(g, "send")
  /\ info' = IF info[g].requested /\ MaySend(g) THEN Offered(g) ELSE info
  /\ Leave(g)
  /\ UNCHANGED <<publishing, peers, active, generation, retiredPeers, stop, bounds>>
------------------------------------------------------------------------------
(* startPublishing() and stopPublishing() *)

StartPublishing ==
  /\ stop.at = "idle" /\ ~publishing /\ starts < MaxStarts
  /\ starts' = starts + 1
  /\ publishing' = TRUE
  /\ \E aged \in SUBSET retiredPeers :
       /\ Prunable(aged)
       /\ retiredPeers' = retiredPeers \ aged
       /\ info' = Released(aged)
  /\ UNCHANGED <<peers, active, generation, job, stop, messages>>

StopPublishing ==
  /\ stop.at = "idle" /\ publishing
  /\ publishing' = FALSE
  /\ stop' = [stop EXCEPT !.at = "collect"]
  /\ UNCHANGED <<peers, active, info, generation, retiredPeers, job, bounds>>

Collected == {g \in Generations : Registered(g)}

Collect ==
  /\ stop.at = "collect"
  /\ stop' = [Resting EXCEPT !.at = "close", !.todo = Collected]
  /\ peers' = [u \in Uuids |-> None]
  /\ active' = [g \in Generations |-> active[g] /\ g \notin Collected]
  /\ UNCHANGED <<publishing, info, generation, retiredPeers, job, bounds>>

\* releasePeerResources(): the mark, then the callbacks and the connection.
MarkRetired ==
  /\ stop.at = "close"
  /\ \E g \in stop.todo :
       /\ info' = [info EXCEPT ![g].retired = TRUE]
       /\ stop' = [at |-> "release", todo |-> stop.todo \ {g}, peer |-> g]
  /\ UNCHANGED <<publishing, peers, active, generation, retiredPeers, job, bounds>>

ReleaseOne ==
  /\ stop.at = "release" /\ Quiet(stop.peer)
  /\ info' = Released({stop.peer})
  /\ stop' = [stop EXCEPT !.at = "close", !.peer = None]
  /\ UNCHANGED <<publishing, peers, active, generation, retiredPeers, job, bounds>>

FinishStop ==
  /\ stop.at = "close" /\ stop.todo = {}
  /\ \E aged \in SUBSET retiredPeers :
       /\ Prunable(aged)
       /\ retiredPeers' = retiredPeers \ aged
       /\ info' = Released(aged)
  /\ stop' = Resting
  /\ UNCHANGED <<publishing, peers, active, generation, job, bounds>>
------------------------------------------------------------------------------
Retire(t) == BeginRetire(t) \/ FinishRetire(t)

Request(h) ==
  \/ OfferRequest(h) \/ LookupNobody(h) \/ LookupStale(h) \/ LookupPeer(h)
  \/ Admit(h) \/ Create(h) \/ Register(h) \/ RegisterConcurrent(h)
  \/ Claim(h) \/ Resend(h) \/ Describe(h) \/ SendCached(h) \/ SetLocalDescription(h)
  \/ Answer(h) \/ SetRemoteDescription(h)

Restart(h) ==
  \/ IceRestart(h) \/ RestartPeer(h) \/ Rebuild(h) \/ Recheck(h)
  \/ Swap(h) \/ Superseded(h)
  \/ RestartOffer(h) \/ SendFresh(h) \/ DescribeFresh(h)
  \/ Rollback(h) \/ Restore(h)

Leaving(h) == Disconnect(h) \/ Close(h)

Callback(g) ==
  \/ StateChange(g) \/ Connected(g) \/ Disconnected(g)
  \/ DispatchDisconnected(g) \/ LocalDescription(g) \/ SendLocal(g)

Control ==
  \/ StartPublishing \/ StopPublishing \/ Collect
  \/ MarkRetired \/ ReleaseOne \/ FinishStop

Next ==
  \/ \E h \in Handlers : Request(h) \/ Restart(h) \/ Leaving(h)
  \/ \E g \in Generations : Callback(g)
  \/ \E t \in Threads : Retire(t)
  \/ Control

Spec == Init /\ [][Next]_vars
------------------------------------------------------------------------------
(* Properties *)

Settled == stop.at = "idle" /\ \A t \in Threads : At(t, "idle")

\* The flag that lets a peer send and its entry in the registry, which a dozen
\* critical sections write one by one, never disagree: a peer that was
\* replaced, retired or stopped cannot send an offer or candidates, and the
\* peer a viewer has now can.
ActiveIsRegistered == \A g \in Generations : active[g] <=> Registered(g)

\* A peer in the registry is in nobody's queue for release: its connection is
\* open, whatever callbacks, restarts and disconnects ran in between.  Two
\* restarts that fail at once break it: one retires the peer, a late callback
\* takes the mark off (Connected), and the other, finding none, restores it.
RegisteredIsOpen ==
  \A u \in Uuids : peers[u] # None =>
    info[peers[u]].conn = "open" /\ peers[u] \notin retiredPeers

\* When all is quiet, every connection that was created is registered, waits
\* for release, or was released: exactly one of the threads that retire a peer
\* queues it, and none relies on another that does not.
NoPeerLost ==
  Settled =>
    \A g \in Generations : info[g].conn \in {"open", "closed"} =>
      Registered(g) \/ g \in retiredPeers

\* Every peer connection is accounted for: one that is registered has not been
\* closed, and one that is no longer registered is closed or some handler is
\* about to close it.  Failed offers, restarts and the stop of the publisher
\* all move peers between these states.
PeersAccountedFor == NoPeerLost /\ RegisteredIsOpen

\* Whichever of the request and the offer comes first, the other sends it: when
\* all is quiet a registered peer with an offer that was asked for has sent it.
NoStrandedOffer ==
  Settled =>
    \A g \in Generations :
      Registered(g) /\ info[g].requested /\ info[g].offer = "delivered"
        => info[g].offered

\* The owner is told of a disconnect at most once for each connection, and
\* never of a connect afterwards.
ReportsInOrder ==
  [][\A g \in Generations : info[g].report = "disconnected" =>
       info'[g].report = "disconnected"]_vars

\* Clearing the signaling callbacks before a stop is meant to keep handlers
\* from running during it: no handler calls into a connection that the stop
\* has released.
CallsLiveConnection ==
  \A h \in Handlers :
    /\ job[h].at \in {"describing", "answering"} =>
         info[job[h].peer].conn # "released"
    /\ At(h, "describeFresh") => info[job[h].fresh].conn # "released"
===============================================================================
