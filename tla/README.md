# Verification of the OBS VDO.Ninja plugin

TLA+ models of the concurrent core of the plugin, the TLC runs that check them on
small instances, and theorems that TLAPS proves for every instance. Each module is
translated from the C++ under `src/src/`; the `map` of `PROJECT.json` gives the lines
each definition stands for.

## 1. The system

The plugin publishes the OBS program to browsers over WebRTC and receives remote
streams as OBS sources. A **signaling client** (WebSocket) exchanges offers, answers
and candidates; a **peer manager** owns one `rtc::PeerConnection` per remote peer; an
**output** feeds it encoded frames; a **source** receives tracks and decodes them. All
of it sits on libdatachannel, whose callbacks arrive on its own threads, and inside
OBS, which creates, starts, stops and destroys instances from several threads.

| Component (file `src/src/…`) | State | Operations | Interacts with |
|---|---|---|---|
| Module lifecycle, instance boundary (`vdoninja-module-lifecycle`) | phase, permits per kind, cleanup future, registered instances | load, unload, create, destroy, retry of a timed-out cleanup | OBS threads; libdatachannel's global state |
| Owner session (`vdoninja-peer-manager.cpp`, top) | admission doors, work permits, installed completion functions | acquire, release, install, detach, close | every callback that reaches a peer manager |
| Signaling connection (`vdoninja-signaling`) | socket epoch, current socket, `connected_`, `shouldRun_`, the worker, running user callbacks | connect, disconnect, socket callbacks, host fallback, reconnect | output and source (callbacks), libdatachannel sockets |
| Signaling rooms, messages, encryption (same file) | send queue, room, published and viewed streams | join, publish, view, dispatch of messages | server; peer manager handlers |
| Peer registry (`vdoninja-peer-manager`) | `peers_`, `retiredPeers_`, generation, per-peer negotiation state | offer request, answer, ICE restart, state change, retire, prune, stop | signaling, data channels, output, source |
| Viewed peers and candidates (`…peer-manager`, `…ice-candidate-queue`) | the peer of an uuid and session, candidate bundles, remote candidate queue, lifecycle marks | offer, candidate, clean-up, retire, bundle, queue, drain, evict | signaling, data channels, RTC |
| Data channels (`…peer-manager`) | a peer's channel with its revision, leases, routes | hand in, install, message, close, retire, bind a route | RTC, the application, signaling over a channel |
| Track slots (`…peer-manager`, `…track-utils`) | three slots with tracks and revisions | offer, track, end, retire, state change | RTC, the source |
| Video send path (`…output`, `…peer-manager`, `…video-keyframe-gate`, `…rtp-pacer`) | media queue, cached keyframe, gate, sequence number, frames in the pacer | enqueue, send, prime, request, discard, complete | encoder, media worker, pacer worker, viewer callbacks |
| Pacer and shared budget (`…rtp-pacer`) | frames, repairs, duplicates, bytes, tokens, waiters | enqueue, select, acquire, send, expire, discard, stop | pacer workers of all viewers |
| Output session (`…output`) | running, connected, capturing, start thread, workers, subscribers | start, stop, connected, request for statistics | OBS, signaling, peer manager |
| Automatic inbound sources (`…auto-scene-manager`, `…auto-inbound-state`) | managed streams, pending removals, the removal thread, tasks of the UI thread | listing, add, remove, start, stop | the output's callbacks, UI thread |
| Native source: ownership and retries (`…source`) | owners of the three tracks, deferred bundles, mute state, view retry | track, peer and message events, tick, connect, disconnect | peer manager, signaling, OBS |
| Native source: video, sound (`…source`, `…alpha-sync`) | media epoch, assemblers, decoders, synchronizer, audio clock | packet, decode, pair, show, transition, mute | RTC threads, OBS |
| Source wrapper (`…source`) | child source, its showing and active references | update, tick, show, hide, activate, deactivate | OBS |
| RTCP feedback, retransmission cache, bitrate controller, policies, telemetry | counters, estimates, packets by number | observe, take, adapt | output's workers |
| Byte formats, protocol text, utilities, dock, plugin entry | none that is shared | parse, format, register | |

What is hard here:

- **Interleaving without a common lock.** The code never calls out under a mutex. A
  handler looks something up, unlocks, and acts on what it found.
- **Late callbacks.** A replaced socket, connection, channel or track keeps calling.
  The fences are epochs, generations, permits, leases and revisions.
- **Teardown from inside.** A user callback may cause the `disconnect()` that would
  wait for it; a connection may not be destroyed from its own callback.
- **Loss upstream of the network.** A frame dropped before it has sequence numbers
  cannot be NACKed, so the sender must not let deltas follow a hole.
- **Bounds and clocks.** Media queue, pacer queues, candidate queue, reconnect attempts,
  and timestamps that wrap.

`PROJECT.json` lists the hazards at their lines, with the properties for them.

## 2. Modules

| Module | Models | Checked by | Proved in |
|---|---|---|---|
| `ModuleLifecycle` | lifecycle and instance boundary | `lifecycle` | `ModuleLifecycleProofs` |
| `RtcRuntime` | what the lifecycle promises about libdatachannel (abstract) | `lifecycle` (refinement) | `ModuleLifecycleProofs` (refinement) |
| `OwnerSession` | permits and completion functions of a peer manager | `lifecycle` | `OwnerSessionProofs` |
| `SignalingConnection` | connect, disconnect, worker, socket callbacks | `signaling`, `signaling_stop_during_start` | `SignalingConnectionProofs` |
| `PeerRegistry` | publisher peers: offers, restarts, retirement, stop | `registry`, `registry_stop` | `PeerRegistryProofs` |
| `RemotePeer` | viewed peers, candidates, lifecycle events of the server | `peers`, `candidates_stranded` | `PeersProofs` |
| `DataChannels` | the control channel of a peer, leases, routes | `peers`, `channel_retirement` | `ChannelsProofs` |
| `TrackSlots` | the three track slots of a peer | `peers` | `PeersProofs` (types) |
| `VideoSend` | media queue, keyframe gate, sequence numbers, pacer | `publisher`, `video_overtaken` | `PublisherProofs` |
| `PacerQueues` | frames, repairs, duplicates, the shared budget | `publisher` | `PublisherProofs` |
| `OutputLifecycle` | start, stop, start thread, workers | `publisher`, `output_stop` | `PublisherProofs` |
| `AutoInbound` | the sources made of a room's streams | `publisher` | `PublisherProofs` |
| `ViewRetry` | when a source asks for its stream again | through `SourceTracks` | `ReceivingProofs` (types) |
| `SourceTracks` | owners of tracks, deferred bundles, mutes, retries | `receiving` | `ReceivingProofs` |
| `Sifting` | what `std::remove_if` with `erase` leaves of a sequence | through its users | `ReceivingProofs`, `PeersProofs` |
| `AlphaSync` | pairs of colour and alpha frames | through `SourceMedia` | `ReceivingProofs` |
| `SourceMedia` | assembling, decoding, pairing and showing pictures | `receiving` | `ReceivingProofs` |
| `SourceAudio` | the source's sound and its clock | `receiving` | `ReceivingProofs` |
| `SourceShell` | the wrapper and its child source | `receiving` | `ReceivingProofs` |

The modules whose names begin with `MC` give the instances. `MCModuleLifecycle`,
`MCPublisher`, `MCReceiving` and `MCPeers` hold several components: a variable
`subject` names the one that moves in a behaviour, and the others stay as they began.
So each component is checked by itself, and one run asks one kind of question.

The components do not share variables: each abstracts its neighbours by what they may
do to it, in any order. `OwnerSession` is why a callback of the others may use its
manager at all. `PeerRegistry` and `RemotePeer` take from `SignalingConnection` that one
socket delivers in order and that two sockets may overlap. `SourceTracks` takes from
`TrackSlots` that events carry revisions and arrive late and in any order, which is
what `TrackSlots` and `DataChannels` produce; `SourceMedia` and `SourceAudio` take from
`SourceTracks` that tracks are replaced one handler at a time. `VideoSend` takes from
`PeerRegistry` that a retired peer never comes back, and `PacerQueues` refines what
`VideoSend` says of a pacer where order and bytes matter, not the decoder.

Where the code repeats a bound or a configuration, the constant is named after it in a
comment. Most modules take a set of *budgets*: records that say how often each kind of
event may happen in a behaviour. They are the only bounds on inputs besides the sets
of identities, and an initial state chooses one.

### ModuleLifecycle, RtcRuntime

One action per critical section of `mutex_` and one per call out of the class (logger,
preload, cleanup, OBS create and destroy callbacks), since no lock is held there.
`pc[t]` is where an OBS thread is; `rtc` is libdatachannel's state and `allocated` the
instances that exist. Every call may fail. `Repeating` holds the kinds whose create
callback may return an address that is registered. `QuietThrows` says whether an
exception may have an empty text, which the code takes for no exception.

### OwnerSession

The two doors (`admittingWork`, `admittingFunctions`), the permits, the registered
functions, and the destructor. `attached` is what other objects hold. A function in
`Copied` is called from a copy and may still fire after it was cleared, as in the
signaling client; libdatachannel's setters wait for a call in progress.

### SignalingConnection

Each attempt to open a socket has an epoch; an action is one critical section or one
access to an atomic. `sock[e]` is the socket of epoch `e`, `cb[e]` its callback:
admitted under the epoch lock, then running user code with no lock. `stop[a]` is where
a `disconnect()` is, for the owner and for a user callback that calls it. A failed
attempt falls back to the next host, then reconnects. Left out: the send queue, rooms
and streams, encryption, and messages other than server alerts.

### PeerRegistry

`peers` is `peers_`, a peer is its generation, `info[g]` its fields and its connection,
`active[g]` its `signalingActive`. A thread's `job` is the handler it runs. A step is one
critical section or a run of reads that no lock covers. Callbacks of a connection run
one at a time, handlers beside them, and one control thread starts and stops publishing.

### RemotePeer

Messages of one remote publisher on the thread of the socket and on that of an older
socket or a data channel: offers make, keep or replace the peer, candidates go to it or
wait, clean-ups end it. Local candidates are bundled and sent by a timer's thread. A
removal is admitted under one lock and claimed under another. Left out: what a
description says; other uuids in the candidate queue, whose evictions are `CandidateLost`.

### DataChannels, TrackSlots

Both model the lease (object, revision) that a thread takes before it works without the
lock. `DataChannels` keeps the mutation mutex and RTC's lock around a callback, which
decide its deadlocks. `TrackSlots` gives each thread a queue of steps: set callbacks,
tell the application, clear callbacks. One thread hands channels in and sets their
callbacks; one RTC thread per peer calls.

### VideoSend, PacerQueues

`outq` is the media queue, `gate` the `VideoKeyframeGate`, `pacer` the frames in the
pacer, `seq` the next RTP number; `worker.stale` stands for the mutation counter compared
with the one the worker selected under. Ghosts: `synced`, the last frame the decoder can
have decoded; `broken`, a delta that went out without the frame before it; `overtaken`,
a frame dropped while the worker holds an older keyframe; `sent`, the numbers sent.

`PacerQueues` has two pacers and their common budget. The worker selects a packet under
its lock, asks the budget without it and looks again. Tokens of the pacer itself, ages
and delays are choices; the common budget has tokens, since its waiters depend on them.
`ahead` is a ghost: what was sent before a frame that waits. All packets have one size.

### OutputLifecycle

`start()` and `stop()` are lists of steps under `startStopMutex_`; everybody else runs
between two of them. The signaling client is closed, trying or open.

### AutoInbound

Threads that bring listings, hints and removals, the removal worker, `start()` and
`stop()`, and the UI thread with its queue of tasks, in which the order of decisions
under `stateMutex_` may get lost. A grace may end whenever it runs. OBS is what the code
sees of it: `obs_source_remove` takes a source out of all scenes at once.

### SourceTracks, ViewRetry

A handler holds `trackEventApplyMutex_` from end to end, so it is one step that maps the
source's record to another; the steps of a bundle, which is chosen and attached under
different locks, are separate. Events are copies of a callback in flight.
`ViewRetry` maps the retry record of each critical section; its assumption, which TLC
evaluates, is that every delay outlasts the gap between requests.

### AlphaSync, SourceMedia, SourceAudio, SourceShell

`AlphaSync` is `AlphaFrameSynchronizer` on a circle of timestamps, with its queues,
newest and last timestamps and reset. `SourceMedia` runs packets through assembler,
decoder, synchronizer and output with the epoch looked at wherever the code looks.
Frames carry the epochs of their packets for the properties only. `SourceAudio` maps
32-bit timestamps to OBS's clock. `SourceShell` follows OBS's references from the wrapper
to its child.

## 3. Runs and bounds

| Run | Instance | States | Shows |
|---|---|---|---|
| `lifecycle` | 3 threads, 2 kinds, 2 addresses; 2 callback threads, 3 functions (1 copied) | 37,045 | permits, one transition at a time, refinement of `RtcRuntime`, an unload and a destructor end, nobody works on what is torn down |
| `signaling` | 2 connects, 2 hosts, 2 failures, or 1 and a throwing `open()`, or 1 connect and 4 failures; 1 disconnect from a callback | 255,805 | flag and epoch agree, one report per loss, nothing left behind, attempts used for cause, every call returns |
| `registry` | 2 handlers, 2 connections, 1 viewer with 2 sessions; a socket, a channel and 3 messages, or 2 and a stop, or 2 sockets, 2 messages and a stop | 1,371,481 | flag and registry agree, every connection is accounted for, no offer stranded, reports in order |
| `publisher` | see below | 1,826,466 | decode gate, numbers, queues of pacers, threads of a session, inbound sources |
| `receiving` | see below | 784,180 | owners of tracks, retries, pictures, sound, child source |
| `peers` | see below | 749,623 | channel events, slots, ends of peers, local candidates |
| `signaling_stop_during_start` | disconnect beside connect | violation | finding 1 |
| `registry_stop` | stop beside a handler | violation | finding 2 |
| `video_overtaken` | 4 frames | violation | finding 3 |
| `output_stop` | a request during stop | violation | finding 4 |
| `channel_retirement` | 2 channels, 1 message | violation | finding 5 |
| `candidates_stranded` | an offer beside a candidate | violation | finding 6 |

Why these bounds show the interesting cases:

- Lifecycle: three OBS threads are the smallest number with a load or unload, a create
  and the release of the last permit at once. Two callback threads and three functions
  let a late registration meet the detaching of another, and the destructor wait for one
  permit while another is refused.
- Signaling: two hosts and two failures reach the fallback, a reconnect and the last
  attempt; four failures exhaust the attempts twice over. Epochs are as many as the
  actions can begin.
- Registry: two connections are the least in which one replaces another, and three
  messages let a request, an answer and a restart overlap; a stop takes the place of the
  third (`StopBound`). With data channels off (`SocketsOnly` of `MCPeerRegistry`) an
  offer is sent only for a request, and a new socket that overlaps the old one brings the
  second handler. The viewer limit of one makes admission matter.
- Publisher, video: two packets make a begun frame differ from another; a queue of two
  saturates with a frame in the worker's hands; numbers start at 30 of 32 and wrap in
  the first frame, and 32 is more than can be sent. `VideoBound` lets one of a loss, an
  audio frame and a request happen. Session: two starts and stops around two connections
  that may fail or come late, and a request. Pacers: two repairs in a row are allowed,
  three come; one token in the budget makes two pacers wait in line, and one stops
  there. Room: two streams and an own one, two feeding threads, three settings (sources
  kept or removed, grid or none, a target scene or the current one, which changes).
- Receiving: two publishers with two generations, or one with all kinds of track, or
  mutes, or requests and retries; two threads of the primary track and one of the alpha
  track against transitions; a circle of eight timestamps that wraps after two; a clock
  of four values.
- Peers: two channels that replace each other with a message each or a route, one with
  two messages or with a route that comes and goes; offers of up to two media sections
  against tracks that are handed in and end; two sessions and two message threads, up to
  three generations.

Sets of interchangeable threads, channels, publishers and sessions are symmetric;
no run with a temporal property uses symmetry. Deadlock is not checked: every instance
stops when its budget is used up.

### Fairness

- Lifecycle: a call, once begun, goes on (libdatachannel, OBS and loggers return), and
  OBS destroys what it still has while the module unloads. Nobody is made to load.
- Owner session: threads are scheduled. Detaching and releasing have strong fairness:
  the setter waits for callbacks of its object, which come and go, and gets its turn.
- Signaling: threads are scheduled; a user callback returns when what it waits for
  allows; a connecting socket settles (libdatachannel times it out) and a closing one
  closes. Nobody is made to call `connect()` or `disconnect()`.
- Output (`output_stop`): threads are scheduled.

## 4. What is proved

For all values of the constants that satisfy the named assumptions (finite sets of
threads and addresses, natural bounds):

- **`ModuleLifecycleProofs`.** `Control` is the inductive invariant: types, the locals
  a thread at a step has, that the thread inside a transition owns the phase, that there
  is one such thread, and that permits are gone where the phase says so. `TypeCorrect`
  and `OneTransitionAtATime` follow. `PermitsAccounted`: permits equal registered
  instances plus threads that hold one; each action moves one of the two sides, by lemmas
  on cardinalities. `InstancesOnLiveRtc` and `LoadsAfterCleanup` assume
  `QuietThrows = FALSE`, because without it they are false (section 6); they need `RtcUp`
  (what the phase says of libdatachannel) and `Covered` (every instance is registered or
  in a thread's hands).
- **`OwnerSessionProofs`.** `IInv`: the permit count is the number of holders, closed
  doors stay closed, and somebody knows of every attached function (`Traced`). From it
  `TypeCorrect`, `TeardownAlone` (nobody holds a permit once the destructor is past its
  wait) and `AllDetached`. `Traced` is why the late registration must be detached by
  whoever made it: without that case it is not inductive.
- **`PeerRegistryProofs`.** `TypeCorrect` needs `Equipped`: a thread has the viewer and
  the peers its next steps use. `ActiveCorrect` (a peer may send exactly while it is
  registered) needs that a peer has at most one entry, the one of its viewer
  (`Entries`), that a handler registers only peers of the viewer it works for (`Owned`),
  and that the viewer of a peer never changes (`UuidsKept`). `NothingLost` is the half of
  `PeersAccountedFor` about connections: from `Custody`, at every moment somebody holds
  each connection that was made and not released. `ReportsOrdered`: only its own thread,
  and after it the one that retires it, move a connection to its end (`OwnThread`, `Told`).
  The other half, that what is registered is open, is **not** an invariant: see the
  registry in section 6. `AccountedWhileMarksStay` proves `PeersAccountedFor` for the
  behaviours of `[][MarksStay]_vars`, in which no late callback clears the mark of a
  retirement.
- **`SignalingConnectionProofs`.** All under `Usage`: the owner calls `connect()` and
  `disconnect()` in turn. Without it `NeverTerminates` is false (finding 1), and with it
  every step of a run of `signaling` but one kind is covered: the give-up between two
  reads of `shouldRun_` (section 6) is off. `EndedInv`: once `disconnect()` moved the epoch
  on, nobody has the current epoch until `connect()` begins another; `CustodyInv`: every
  socket is the worker's, the current one, or the one `disconnect()` took; `StopInv` and
  `RunInv`: what is left to do while a worker is joined, and that `connect()` gets past its
  checks only without a worker. From these `TypeCorrect`, `ConnectedCurrent`, `NothingLeft`.
  `ReportsCounted` needs that a report is paid by an opening (`CountInv`, `ReportInv`).
  `GivesUpJustly`, the safety half of `RetriesAsConfigured`, assumes that `open()` does not
  throw, because a throw ends the retries (section 6).
- **`PeersProofs`.** `CleanupsEndTheirOwn` (`EndedForCause`): generations are given out in
  order, a clean-up is admitted with the session of the present peer or while the first
  peer is the only one, carries that cause to the peer it removes, and a removed peer never
  comes back (`InOrder`, `InHand`, `WorkForCause`, `CurrentMoves`). `LocalsInOrder`
  (`LocalsArrive`): one callback adds a local candidate to its bundle and sends it, so what
  was sent and what the bundle has make up what was found (`BundleIsNext`, `BundleGoes`).
  Types: `AQueue` says that a push makes room first and that taking a session's candidates
  only removes (`SiftedKeeps`), so the queue stays within its limit; `SlotTypes` that a
  thread with work has its event. `PeersTyped` composes them with the channels' types: a
  behaviour of the run is one of each component (`ComponentsAre`).
- **`ChannelsProofs`.** `HeardInOrder` from `ChannelInv`. A revision belongs to one channel
  (`RevisionsOwned`): while an installation holds messages back one thread works under the
  revision (`PhasesInOrder`), and at any time those heard, the one a thread has to tell, those
  held back and those still in libdatachannel follow each other without a gap (`FlowOK`,
  `Flowing`), out of what the channel was sent (`RecordsOK`). `ChannelsSettle` from `RestInv`,
  which says who still owes what: the hooks of the present channel are set or an installation
  has them to set (`HooksPlaced`), hooks of another channel are owed a clearing by whoever took
  it out (`HooksOwed`), a peer is gone before its channel is retired (`GoneFirst`), and a route
  leads over an open channel or over one that somebody has yet to purge or retire
  (`RoutesNamed`, `RoutesLead`).
- **`PublisherProofs`.** Video: `BrokenOnlyWhenOvertaken` from `VideoInv`. Three places agree on
  which frame the viewer's decoder needs next (`SoundOK`): in the pacer each delta waits
  behind its reference (`ChainOK`); while the gate lets deltas pass, the end of that queue,
  or the last frame decoded, is followed by what the media worker holds or by the media
  queue (`EndOK`); and what follows the media worker's frame is all in the media queue
  (`HandOK`). Every drop breaks the second of these, and closes the gate in the same
  critical section. It breaks the third when the worker holds a keyframe: that is
  `overtaken`, and finding 3. The gate opens again at the right completion because it counts
  exactly the keyframes of its generation that the pacer or its worker has (`CountsOK`),
  under tickets that never decrease in the queue (`TicketsOK`). `QueuesOK` (types, the bound
  of the media queue, `PendingIsQueued`) follows too. `NumbersFreshHolds`: the numbers are
  counted without the wrap (`Numbered`), so the numbers a discard gives back are the last
  ones given; and there are fewer of them than the modulus because a live frame is numbered
  once (`Passed`) and a cached one at most once for each event and the first connection
  (`OwedTo`). Its hypothesis, packets per frame times those frames below the modulus, holds
  for the run. Session: `SessionInOrder`: `start()` and
  `stop()` are lists of calls, and the list of the calls still to be done says what becomes of
  each thread (`SessionInv`).
  `RemoversStayAwake` and `ManagedShown` assume `~StartOverlapsStop`, because without it the
  worker of one session may serve the next (section 6): one worker is owned and it sleeps
  only with nothing to wait for (`OneWorker`, `Awake`); a managed stream is on its way or
  shown (`OnItsWay`). `AllThreadsInOrder` is `ThreadsInOrder` of the run's own specification.
  `TurnsKept` (`MediaKeepsItsTurn`): the repairs in a row bound those that went ahead of the
  frame that waits, and what is in hand was selected while it might go ahead (`TurnOf`).
  `PacersCount`: the packets left are a set (`LeftOf`), so that what a step takes out or puts
  in is a cardinality and not a sum; every queued frame has packets left except the one whose
  last packet is being sent (`FramesOf`), and what the worker chose is there to be sent unless
  a discard said otherwise meanwhile (`ChoiceStands`), so nothing is given back twice. A pacer
  is in the shared budget's line, once, exactly while its worker waits (`LineInv`).
  `EveryQueueOKHolds` puts it together with `QueuesOK` in the run's own specification.
- **`ReceivingProofs`.** Tracks: a track reaches the source in one event, so a handle has
  one place, an event, a slot or a bundle (`Apart`, `WireOK`), and the source is `Settled`
  between two handlers: one live owner, callbacks on the slots' tracks and on no other, the
  owner's mutes shown. Inside a handler one track may have lost its slot and not yet its
  callbacks; `KeepsWires` carries that exception through the calls. From it
  `OneOwnerOnly`, `OwnerIsShown`, `PlayedAreWired`. Pictures: frames are made of packets of
  the epoch their job captured (`Own`, `JobOK`, `PipeOK`), and output is enabled for the
  pipeline's epoch only (`PictureOK`): `ShownAlwaysCurrent`, `AlphaAlwaysMatches`,
  `PicturesFollowTime`. Sound: `SoundFollowsTime`, since the thread that has the decoder
  keeps it until OBS has the frame and a reset waits (`OrderKept`). Wrapper:
  `ChildAlwaysFollows` (`Good`: after each call of OBS the children mirror the wrapper).
  `ReceivingTyped` composes the types: a behaviour of the run is one of each component
  (`SubjectsAre`). `SiftedKeeps` says what `remove_if` leaves, by the rank of each place.

Only model-checked, and why:

- Everything under fairness (`TeardownsEnd`, `CallsComplete`, the rest of
  `RetriesAsConfigured`): the prover does not reach it.
- `NoStrandedOffer`: it is false beyond the run's bounds (section 6).
- `StillAsking`: it is false beyond the run's bounds (section 6), with two publishers and
  two sessions.
- `NumbersFresh` once the numbers wrap: then the first of them are used again, and the
  theorem says nothing.
- `SlotsSettle`: it is false beyond the run's bounds (section 6). The search for its
  inductive invariant is what found the behaviour.

## 5. Findings

1. `signaling_stop_during_start`: a `disconnect()` overlapped by the stores of a
   `connect()` joins a worker that nobody stops.
2. `registry_stop`: a handler that runs while publishing stops uses a connection that was
   released. Clearing the callbacks does not wait for calls in progress.
3. `video_overtaken`: a keyframe that the media worker took before the queue saturated
   is queued after the gates were closed, opens them, and the deltas after the dropped
   one follow. `BrokenOnlyWhenOvertaken` says this is the only way: every other loss is
   fenced by the gate.
4. `output_stop`: a request for continuous statistics between the lowering of the
   statistics worker's flag and the join raises the flag, and `stop()` waits for ever.
5. `channel_retirement`: a callback that disconnects its peer leaves the clearing of the
   channel's callbacks to its end, where it waits for the mutation mutex; the thread that
   releases the peer holds it and waits in RTC for the callback.
6. `candidates_stranded`: a candidate that saw no remote description is queued after the
   description was set and the queue drained, and waits for another description.

## 6. Observations without a run

What follows was met while modelling. No doc, comment or test states the contrary, so
none of it is a finding; where a definition states it, its name is given.

- Lifecycle: with `QuietThrows = TRUE`, a cleanup that throws an exception with an empty
  `what()` is taken for a success (`vdoninja-module-lifecycle.cpp:337`), and the module
  loads again on a runtime whose cleanup failed.
- Signaling: `connect()` reads `shouldRun_` twice (`vdoninja-signaling.cpp:558`); with
  `ConnectAfterGivingUp = TRUE` a worker that gives up in between stays joinable and is
  assigned over, which ends the process (`NeverTerminates`). A reconnect whose `open()`
  throws ends the reconnecting with attempts left. A message of an old connection can
  enter the queue of the next (1664).
- Registry: a callback that looked at its peer before the peer was retired may clear the
  mark of the retirement (`Connected`, `vdoninja-peer-manager.cpp:1818`), and an ICE restart
  that fails may then register the peer again while another thread releases its
  connection: `RegisteredIsOpen` fails after 37 steps with five messages and three
  connections, beyond the run's bounds, and `PeersAccountedFor` with it. Two requests
  at once may pass the viewer limit
  (`vdoninja-peer-manager.cpp:3791`). With data channels off, an offer may be stranded when
  a third message comes over a second socket: a request claims the new peer of an ICE
  restart, its offer is delivered, the restart fails and puts the old peer back
  (1454-1484). The instance has two messages there, so `NoStrandedOffer` holds in it. An ICE restart copies the gate with keyframes that
  are pending in the old pacer (1372): their completions go to the old gate.
- Output: a `connect()` that timed out goes on trying; when it opens later, the next
  `start()` finds the connection open and hears of no connection (`StartIsAnswered`). A
  connected callback in flight may begin the capture after `stop()`, and a refused
  capture of the old session may lower the new one's `running_`.
- Automatic inbound: an addition queues its UI task without the lock, so a removal may be
  queued before it, and a layout copied before a removal may come after it: a stream that
  is no longer managed may stay shown (`OnlyManagedIsShown`; `ManagedIsShown`, the other
  half, holds). With `StartOverlapsStop = TRUE` the worker of the session that stops may
  see `running_` true again, of the next session, and `stop()` joins it until that
  session ends; `VDONinjaOutput::stop` may meet a start thread that calls `start()`.
- Pacer: a copy that was selected while idle may be sent before a frame that has come
  since, which `MediaKeepsItsTurn` allows once. A grant of the common budget is spent even
  when the selection fell.
- Source: a packet under way may mark the audio active after a mute (`SilentIsInactive`,
  `vdoninja-source.cpp:4740`), and one of the old track may give the new track's clock its
  base (4747); a gap of more than 2^31 timestamps is taken for a step back (4757).
  With two publishers and two sessions `StillAsking` fails after 29 steps: a track of one
  publisher and its end, on their way when the first session closed, are handled in the
  second (2526); the stale track makes the source count as connected when the live
  publisher goes (4267-4366), so no retry is set, and its end leaves the source with no
  request, retry or peer. `disconnect()` before the connection thread has called
  `connect()` leaves a connection behind (`DisconnectedIsQuiet`, 1442). A failing decoder is reset
  within an epoch, and so is the mapper of timestamps (3900, 3967): with packets out of
  order, an earlier picture may then follow a later one. `PicturesAdvance` is about the time
  between two resets (`pipe.mapped` is none after one).
- Slots: two tracks handed in beside an offer can leave the application with a last word
  about a track that is gone; libdatachannel hands tracks in on one thread, one at a time.
  With three tracks handed in beside two offers, one of them twice with another between, its
  end may go unseen: an installation that was overtaken sets its stale hook over the newer one
  (`vdoninja-peer-manager.cpp:3003-3055`), sees that its lease is lost, and clears nothing,
  because the track is current again under a newer revision (3075, 3167). `SlotsSettle` then
  fails after 34 steps; the run's instance does not hand a track in twice that way.

## 7. Not modelled

- RTP retransmission cache, send tracker, RTCP feedback, bitrate controller, reliability
  and loss policies, telemetry: maps, counters and arithmetic under one lock or on one
  thread, which unit tests reach.
- Packetization, H.264 profiles, audio RED, data channel messages, signaling text: byte
  and text formats. Their results are inputs of the models.
- The send queue, rooms and encryption of signaling: each connection's end clears them,
  and one message reads each record.
- Within modelled components: configuration while it runs, hardware decoder set-up,
  keyframe requests and frames without a timestamp in the source, `auto_reconnect` off,
  a data channel handle that changes its slot, the legacy removal and suppression
  messages, the audio track of the publisher, the hand-over of the gate in an ICE restart,
  bitrates of pacers, the geometry of the inbound grid.
- Decoding, rendering and the browser source a source may wrap, dock and registration
  (one thread), logging, CPU counters, scripts, installers and tests.
- Data races on plain fields are modelled only where a step reads such a field outside
  its lock (`PeerRegistry`'s runs of reads).

## 8. Left for later

- An abstract specification of a source (idle, asking, playing) that `SourceTracks`
  implements, and the hand-over of the gate in `VideoSend`.
