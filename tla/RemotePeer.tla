------------------------------- MODULE RemotePeer -------------------------------
(***************************************************************************)
(* What the messages of one remote publisher do to a VDONinjaPeerManager   *)
(* that views it: offers make and replace its peer, candidates go to the   *)
(* peer or wait for it, clean-ups end it, and the peer's own candidates    *)
(* and answer go back.  Messages come on the thread of the present socket  *)
(* and, late, on that of an earlier socket or of a data channel; RTC and   *)
(* the owner have threads of their own.                                    *)
(*                                                                         *)
(* A peer is its generation, counted when it is registered.  A message     *)
(* names a session, or none.  What a description says is left out, and the *)
(* peer's tracks and channels are in TrackSlots and DataChannels.  The     *)
(* queue of remote candidates is that of one uuid; what it loses to its    *)
(* age, its bytes and other uuids is lost in CandidateLost.                *)
(***************************************************************************)
EXTENDS Integers, Sequences, FiniteSets, Sifting

CONSTANTS
  PeerSessions,  \* the sessions a message may name; "" is none
  MaxPeers,      \* bound on the generations
  MaxQueued,     \* maxCandidatesPerPeer_
  PeerBudgets    \* bounds: the kinds of messages, how many come on each thread,
                 \* and what else may happen

ASSUME RemoteAssumption ==
  /\ "" \in PeerSessions /\ MaxPeers \in Nat /\ MaxQueued \in Nat \ {0}
  /\ PeerBudgets \subseteq
       [kinds : SUBSET {"offer", "candidate", "cleanup"}, socket : Nat, late : Nat,
        failures : Nat, locals : Nat, ends : Nat, owner : Nat, losses : Nat]

VARIABLES
  current,   \* peers_[uuid], or 0
  info,      \* per generation, its PeerInfo and what was sent for it
  queued,    \* pendingRemoteIceCandidates_: the sessions of the candidates
  bundle,    \* candidateBundles_
  latest,    \* latestSignalingLifecycleSocketEpoch_
  handler,   \* per thread, what it does
  remaining  \* what is left of the budget

remoteVars == <<current, info, queued, bundle, latest, handler, remaining>>

Generations == 1..MaxPeers
MessageThreads == {"socket", "late"}
PeerThreads == MessageThreads \cup {"rtc", "owner"}
NoBundle == [session |-> "", candidates |-> <<>>]
NotEnded == [why |-> "", session |-> "", own |-> "", sent |-> 0]
NewPeer == [registered |-> FALSE, session |-> "", terminal |-> FALSE, retired |-> FALSE,
            active |-> FALSE, described |-> FALSE, claimed |-> FALSE, locals |-> 0,
            sent |-> <<>>, ended |-> NotEnded]
\* g, session and id are what the thread's work is about, epoch its socket.
RestingJob == [at |-> "idle", g |-> 0, session |-> "", own |-> "", epoch |-> 0, why |-> ""]

Working(t, stage) == handler[t].at = stage
Work(t, j) == handler' = [handler EXCEPT ![t] = j]
WorkAt(t, stage) == handler' = [handler EXCEPT ![t].at = stage]
Spend(what) ==
  remaining[what] > 0 /\ remaining' = [remaining EXCEPT ![what] = @ - 1]

Names(session, g) == session = "" \/ info[g].session = session
Mismatch(session, g) == ~Names(session, g) /\ info[g].session # ""
Dying(g) == info[g].retired \/ info[g].terminal
Registered == {g \in Generations : info[g].registered}

\* A peer is taken out of peers_ and may not send any more.
TakenOut(g, why, session) ==
  [info EXCEPT ![g] = [@ EXCEPT
     !.active = FALSE,
     !.ended = [why |-> why, session |-> session, own |-> info[g].session, sent |-> Len(info[g].sent)]]]

(***************************************************************************)
(* Remote candidates.                                                      *)
(***************************************************************************)
\* Mutant: one candidate too many.
PushedOneMore(session) ==
  Append(IF Len(queued) > MaxQueued THEN Tail(queued) ELSE queued, session)

\* PendingRemoteIceCandidateQueue: push drops the oldest at its limit, and
\* takeCompatible takes those of the session.
Pushed(session) ==
  Append(IF Len(queued) >= MaxQueued THEN Tail(queued) ELSE queued, session)
Compatible(c, session) == session = "" \/ c = "" \/ c = session
NotTaken(session) == Sifted(queued, {c \in PeerSessions : ~Compatible(c, session)})

CandidateLost ==
  /\ queued # <<>> /\ Spend("losses")
  /\ queued' = Tail(queued)
  /\ UNCHANGED <<current, info, bundle, latest, handler>>

\* onSignalingIceCandidate: without a peer the candidate is queued under the
\* same lock.
Candidate(t, session) ==
  /\ Working(t, "idle") /\ "candidate" \in remaining.kinds /\ Spend(t)
  /\ IF current = 0
     THEN queued' = Pushed(session) /\ UNCHANGED handler
     ELSE /\ Work(t, [RestingJob EXCEPT !.at = "look", !.g = current, !.session = session])
          /\ UNCHANGED queued
  /\ UNCHANGED <<current, info, bundle, latest>>

LookAtPeer(t) ==
  LET j == handler[t]
  IN /\ Working(t, "look")
     /\ Work(t, IF \/ info[j.g].terminal \/ Mismatch(j.session, j.g)
                   \/ ~info[j.g].described
                THEN [j EXCEPT !.at = "push"] ELSE RestingJob)
     /\ UNCHANGED <<current, info, queued, bundle, latest, remaining>>

PushCandidate(t) ==
  /\ Working(t, "push")
  /\ queued' = Pushed(handler[t].session)
  /\ Work(t, RestingJob)
  /\ UNCHANGED <<current, info, bundle, latest, remaining>>

(***************************************************************************)
(* Offers.                                                                 *)
(***************************************************************************)
\* onSignalingOffer: a peer that ended or has another session is replaced.
Offered(t, session) ==
  LET stale == current # 0 /\ (Mismatch(session, current) \/ Dying(current))
  IN /\ Working(t, "idle") /\ "offer" \in remaining.kinds /\ Spend(t)
     /\ current' = IF stale THEN 0 ELSE current
     /\ info' = IF stale THEN TakenOut(current, "offer", session) ELSE info
     /\ Work(t, [RestingJob EXCEPT
          !.at = IF stale THEN "retire" ELSE IF current = 0 THEN "create" ELSE "session",
          !.g = current, !.session = session, !.why = "offer"])
     /\ UNCHANGED <<queued, bundle, latest>>

\* createViewerConnection; a peer that another thread registered meanwhile is
\* used, and the new one is dropped.
CreatePeer(t) ==
  LET new == Cardinality(Registered) + 1
  IN /\ Working(t, "create") /\ (current # 0 \/ new <= MaxPeers)
     /\ IF current # 0
        THEN /\ Work(t, [handler[t] EXCEPT !.at = "session", !.g = current])
             /\ UNCHANGED <<current, info>>
        ELSE /\ current' = new
             /\ info' = [info EXCEPT ![new] = [@ EXCEPT
                  !.registered = TRUE, !.active = TRUE, !.session = "own"]]
             /\ Work(t, [handler[t] EXCEPT !.at = "session", !.g = new])
     /\ UNCHANGED <<queued, bundle, latest, remaining>>

\* The session is written without a lock.
SetSession(t) ==
  LET j == handler[t]
  IN /\ Working(t, "session")
     /\ info' = [info EXCEPT ![j.g] = [@ EXCEPT !.session = j.session, !.described = FALSE]]
     /\ bundle' = [bundle EXCEPT ![j.g].session = j.session]
     /\ WorkAt(t, "describe")
     /\ UNCHANGED <<current, queued, latest, remaining>>

Describe(t) ==
  LET j == handler[t]
  IN /\ Working(t, "describe")
     /\ \/ /\ info' = [info EXCEPT ![j.g].described = TRUE]
           /\ WorkAt(t, "drain")
           /\ UNCHANGED remaining
        \/ /\ Spend("failures")
           /\ Work(t, [RestingJob EXCEPT !.at = "disconnect", !.why = "failure"])
           /\ UNCHANGED info
     /\ UNCHANGED <<current, queued, bundle, latest>>

\* drainPendingRemoteIceCandidates
Drain(t) ==
  LET g == handler[t].g
  IN /\ Working(t, "drain")
     /\ queued' = IF info[g].described THEN NotTaken(info[g].session) ELSE queued
     /\ Work(t, RestingJob)
     /\ UNCHANGED <<current, info, bundle, latest, remaining>>

(***************************************************************************)
(* Ending a peer.                                                          *)
(***************************************************************************)
\* retirePeerForDeferredCleanup
MarkRetired(t) ==
  /\ Working(t, "retire")
  /\ info' = [info EXCEPT ![handler[t].g].retired = TRUE]
  /\ WorkAt(t, "unlist")
  /\ UNCHANGED <<current, queued, bundle, latest, remaining>>

Unlist(t) ==
  LET j == handler[t]
  IN /\ Working(t, "unlist")
     /\ current' = IF current = j.g THEN 0 ELSE current
     /\ info' = IF current = j.g THEN TakenOut(j.g, j.why, "")
                ELSE [info EXCEPT ![j.g].active = FALSE]
     /\ bundle' = [bundle EXCEPT ![j.g] = NoBundle]
     /\ Work(t, IF j.why = "offer" THEN [j EXCEPT !.at = "create"] ELSE RestingJob)
     /\ UNCHANGED <<queued, latest, remaining>>

\* disconnectPeer: the queue first, then the peer, if it is still the one meant.
EraseQueue(t) ==
  /\ Working(t, "disconnect")
  /\ queued' = <<>>
  /\ WorkAt(t, "remove")
  /\ UNCHANGED <<current, info, bundle, latest, remaining>>

\* Mutant: the identity's generation is not compared.
MeantBySession(j) == current # 0 /\ Names(j.own, current)
Meant(j) == current # 0 /\ j.g \in {0, current} /\ Names(j.own, current)

RemovePeer(t) ==
  LET j == handler[t]
  IN /\ Working(t, "remove")
     /\ IF Meant(j)
        THEN /\ current' = 0 /\ info' = TakenOut(current, j.why, j.session)
             /\ Work(t, [j EXCEPT !.at = "retire", !.g = current])
        ELSE Work(t, RestingJob) /\ UNCHANGED <<current, info>>
     /\ UNCHANGED <<queued, bundle, latest, remaining>>

\* A clean-up without a session means a peer only while it is the only one ever
\* registered.
Admissible(g, session) ==
  /\ g # 0 /\ Names(session, g)
  /\ session = "" => Cardinality(Registered) <= 1

\* processSignalingLifecycleEvent: a message of an earlier socket is stale.
Cleanup(t, session, epoch) ==
  LET g == current
      stale == epoch # 0 /\ epoch < latest
  IN /\ Working(t, "idle") /\ "cleanup" \in remaining.kinds /\ Spend(t)
     /\ latest' = IF epoch > latest THEN epoch ELSE latest
     /\ IF ~stale /\ Admissible(g, session) /\ ~info[g].claimed /\ ~Dying(g)
        THEN Work(t, [RestingJob EXCEPT !.at = "claim", !.g = g, !.session = session,
                        !.own = info[g].session, !.epoch = epoch, !.why = "cleanup"])
        ELSE UNCHANGED handler
     /\ UNCHANGED <<current, info, queued, bundle>>

\* After the subscriber's callback was found, all of it is looked at again.
Claim(t) ==
  LET j == handler[t]
  IN /\ Working(t, "claim")
     /\ IF /\ j.epoch \in {0, latest}
           /\ current = j.g /\ Admissible(j.g, j.session)
           /\ ~info[j.g].claimed /\ ~Dying(j.g)
        THEN /\ info' = [info EXCEPT ![j.g].claimed = TRUE]
             /\ WorkAt(t, "disconnect")
        ELSE Work(t, RestingJob) /\ UNCHANGED info
     /\ UNCHANGED <<current, queued, bundle, latest, remaining>>

\* claimSignalingPeerCleanupIdentity, with which the source disconnects a peer.
ClaimIdentity(t, session) ==
  /\ Working(t, "idle") /\ "cleanup" \in remaining.kinds /\ Spend(t)
  /\ IF Admissible(current, session)
     THEN Work(t, [RestingJob EXCEPT !.at = "disconnect", !.g = current,
                     !.session = session, !.own = info[current].session, !.why = "cleanup"])
     ELSE UNCHANGED handler
  /\ UNCHANGED <<current, info, queued, bundle, latest>>

\* The owner disconnects the uuid, or stops viewing, which leaves the queue.
OwnerDisconnects ==
  /\ Working("owner", "idle") /\ Spend("owner")
  /\ Work("owner", [RestingJob EXCEPT !.at = "disconnect", !.why = "owner"])
  /\ UNCHANGED <<current, info, queued, bundle, latest>>

StopViewing ==
  /\ Working("owner", "idle") /\ current # 0 /\ Spend("owner")
  /\ current' = 0 /\ info' = TakenOut(current, "owner", "")
  /\ bundle' = [bundle EXCEPT ![current] = NoBundle]
  /\ Work("owner", [RestingJob EXCEPT !.at = "retire", !.g = current, !.why = "owner"])
  /\ UNCHANGED <<queued, latest>>

(***************************************************************************)
(* RTC's callbacks.                                                        *)
(***************************************************************************)
\* The peer's state ends.
StateEnds(g) ==
  /\ Working("rtc", "idle") /\ g = current /\ ~info[g].retired /\ Spend("ends")
  /\ info' = [info EXCEPT ![g].terminal = TRUE]
  /\ Work("rtc", [RestingJob EXCEPT !.at = "retire", !.g = g, !.why = "state"])
  /\ UNCHANGED <<current, queued, bundle, latest>>

\* onLocalCandidate adds to the bundle under the lock under which it is sent.
LocalCandidate(g) ==
  /\ Working("rtc", "idle") /\ info[g].described /\ Spend("locals")
  /\ IF Dying(g) THEN UNCHANGED <<info, bundle, handler>>
     ELSE /\ info' = [info EXCEPT ![g].locals = @ + 1]
          /\ bundle' = [bundle EXCEPT ![g] =
               [session |-> info[g].session,
                candidates |-> Append(@.candidates, info[g].locals + 1)]]
          /\ Work("rtc", [RestingJob EXCEPT !.at = "send", !.g = g])
  /\ UNCHANGED <<current, queued, latest>>

\* Mutant: only a peer that is marked as retired stays silent.
SendsUntilRetired(g) == ~info[g].retired
MaySend(g) == ~info[g].retired /\ info[g].active

\* bundleAndSendCandidates
SendCandidates ==
  LET g == handler["rtc"].g
  IN /\ Working("rtc", "send")
     /\ IF MaySend(g)
        THEN /\ info' = [info EXCEPT ![g].sent = @ \o bundle[g].candidates]
             /\ bundle' = [bundle EXCEPT ![g] = NoBundle]
        ELSE UNCHANGED <<info, bundle>>
     /\ Work("rtc", RestingJob)
     /\ UNCHANGED <<current, queued, latest, remaining>>

RemoteInit ==
  /\ current = 0
  /\ info = [g \in Generations |-> NewPeer]
  /\ queued = <<>>
  /\ bundle = [g \in Generations |-> NoBundle]
  /\ latest = 0
  /\ handler = [t \in PeerThreads |-> RestingJob]
  /\ remaining \in PeerBudgets

RemoteNext ==
  \/ \E t \in MessageThreads, s \in PeerSessions :
       \/ Candidate(t, s) \/ Offered(t, s) \/ ClaimIdentity(t, s)
       \/ \E epoch \in (IF t = "socket" THEN {2} ELSE {0, 1}) : Cleanup(t, s, epoch)
  \/ \E t \in MessageThreads :
       \/ LookAtPeer(t) \/ PushCandidate(t) \/ CreatePeer(t) \/ SetSession(t)
       \/ Describe(t) \/ Drain(t) \/ Claim(t)
  \/ \E t \in PeerThreads : MarkRetired(t) \/ Unlist(t) \/ EraseQueue(t) \/ RemovePeer(t)
  \/ \E g \in Generations : StateEnds(g) \/ LocalCandidate(g)
  \/ SendCandidates \/ CandidateLost \/ OwnerDisconnects \/ StopViewing

RemoteSpec == RemoteInit /\ [][RemoteNext]_remoteVars

(***************************************************************************)
(* Properties.                                                             *)
(***************************************************************************)
\* Every variable has its type; the queue of remote candidates never exceeds its
\* limit (push drops the oldest).
RemoteTypeOK ==
  /\ current \in Generations \cup {0} /\ latest \in 0..2
  /\ Len(queued) <= MaxQueued
  /\ \A g \in Generations : info[g].registered /\ info[g].active => current = g

\* A clean-up that names a session ends only a peer of that session, and one
\* that names none only the first peer of the uuid, however late it comes and
\* whatever replaces the peer while it is looked at.
EndedForCause ==
  \A g \in Generations :
    info[g].ended.why = "cleanup" =>
      IF info[g].ended.session # "" THEN info[g].ended.own = info[g].ended.session
      ELSE g = 1

\* The local candidates of a peer are sent in the order in which RTC found them,
\* each once; none is sent after the peer was taken out, and none of the
\* current peer is left behind when its callback has ended.
LocalsArrive ==
  \A g \in Generations :
    LET sent == info[g].sent
    IN /\ sent = [n \in 1..Len(sent) |-> n]
       /\ info[g].ended.why # "" => Len(sent) = info[g].ended.sent
       /\ g = current /\ ~Dying(g) /\ Working("rtc", "idle") => Len(sent) = info[g].locals

\* A candidate that the described peer can take does not stay in the queue.
CandidatesReachPeer ==
  (\A t \in PeerThreads : Working(t, "idle")) /\ current # 0 =>
    (info[current].described /\ ~Dying(current) =>
       \A i \in DOMAIN queued : ~Compatible(queued[i], info[current].session))
===============================================================================
