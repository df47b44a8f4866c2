------------------------------- MODULE PeersProofs -------------------------------
(***************************************************************************)
(* Theorems about RemotePeer and TrackSlots, and about the specification   *)
(* that MCPeers composes of them and of DataChannels, for any number of    *)
(* generations, sessions, channels and tracks and any budgets.             *)
(*                                                                         *)
(* The argument: the generations are given out one after another (InOrder) *)
(* and no thread has in hand one that was not (InHand).  A clean-up is     *)
(* admitted with the session of the present peer, or, without a session,   *)
(* while the first peer is the only one (OneRegistered); it carries that   *)
(* cause to the peer it removes (WorkForCause), and a peer removed for it  *)
(* is never the present one again, so that the retirement which follows    *)
(* ends no other (CurrentMoves).  A local candidate is added to the bundle *)
(* and sent by one and the same callback (BundleGoes), so what was sent    *)
(* and what is in the bundle make up what was found (BundleIsNext).        *)
(*                                                                         *)
(* A lemma ...Does says what an action does, field by field; the steps of  *)
(* the invariant rest on these alone.                                      *)
(***************************************************************************)
EXTENDS MCPeers, ChannelsProofs

(***************************************************************************)
(* Types.                                                                  *)
(***************************************************************************)
Stages ==
  {"idle", "look", "push", "create", "session", "describe", "drain", "retire",
   "unlist", "disconnect", "remove", "claim", "send"}
\* The stages at which a thread has a peer in hand, and those at which it ends one.
Fetched == {"session", "describe", "drain", "retire", "unlist", "look", "claim", "send"}
Ending == {"retire", "unlist", "remove", "disconnect"}
Reasons == {"", "offer", "failure", "cleanup", "owner", "state"}
Own == PeerSessions \cup {"own"}
AnyPeer == Generations \cup {0}
Epochs == 0..2
Endings == [why : Reasons, session : PeerSessions, own : Own, sent : Nat]
PeerRecord ==
  [registered : BOOLEAN, session : Own, terminal : BOOLEAN, retired : BOOLEAN,
   active : BOOLEAN, described : BOOLEAN, claimed : BOOLEAN, locals : Nat,
           sent : Seq(Nat),
   ended : Endings]
Jobs ==
  [at : Stages, g : AnyPeer, session : PeerSessions, own : Own, epoch : Epochs,
   why : Reasons]
Bundles == [session : Own, candidates : Seq(Nat)]

PlaceTypes == current \in AnyPeer /\ latest \in Epochs
JobTypes == handler \in [PeerThreads -> Jobs]
InfoTypes == info \in [Generations -> PeerRecord]
BundleTypes == bundle \in [Generations -> Bundles]

\* A thread that is to work on a peer has one, and whoever ends it has a reason.
JobInv ==
  \A t \in PeerThreads :
    /\ handler[t].at \in Fetched => handler[t].g \in Generations
    /\ handler[t].at \in Ending => handler[t].why # ""
    /\ handler[t].at = "claim" => handler[t].why = "cleanup"
    /\ handler[t].at = "send" => t = "rtc"

RemoteTypes == PlaceTypes /\ JobTypes /\ InfoTypes /\ BundleTypes /\ JobInv

\* What a step makes of a thread's work, of a peer and of a bundle.
Turns(t, at, g, session, own, epoch, why) ==
  /\ handler'[t].at = at /\ handler'[t].g = g /\ handler'[t].session = session
  /\ handler'[t].own = own /\ handler'[t].epoch = epoch /\ handler'[t].why = why
  /\ \A u \in PeerThreads \ {t} : handler'[u] = handler[u]
Marks(g, registered, active, retired, terminal, described) ==
  /\ info'[g].registered = registered /\ info'[g].active = active
  /\ info'[g].retired = retired /\ info'[g].terminal = terminal
  /\ info'[g].described = described
Holds(g, session, locals, sent) ==
  /\ info'[g].session = session /\ info'[g].locals = locals /\ info'[g].sent = sent
Others(g) == \A h \in Generations \ {g} : info'[h] = info[h]
Packs(g, session, candidates) ==
  /\ bundle'[g].session = session /\ bundle'[g].candidates = candidates
  /\ \A h \in Generations \ {g} : bundle'[h] = bundle[h]
Taken(g, why, session) ==
  /\ Others(g)
  /\ Marks(g, info[g].registered, FALSE, info[g].retired, info[g].terminal,
           info[g].described)
  /\ Holds(g, info[g].session, info[g].locals, info[g].sent)
  /\ info'[g].ended = [why |-> why, session |-> session, own |-> info[g].session,
                       sent |-> Len(info[g].sent)]

(***************************************************************************)
(* Generations.                                                            *)
(***************************************************************************)
\* They are given out one after another; the present one and those that a thread
\* has in hand were.
InOrder == \E n \in 0..MaxPeers : Registered = 1..n
InHand ==
  /\ current # 0 => info[current].registered
  /\ \A t \in PeerThreads : handler[t].at \in Fetched => info[handler[t].g].registered
\* A generation not given out is as it was.
Ungiven ==
  \A g \in Generations : ~info[g].registered =>
    /\ info[g].sent = <<>> /\ info[g].locals = 0 /\ bundle[g].candidates = <<>>
    /\ ~info[g].active /\ info[g].ended.why = "" /\ ~info[g].described
\* Only the present one may send.
ActiveIsCurrent == \A g \in Generations : info[g].active <=> current = g

\* What a step does to the flags and the present peer.
SameFlags ==
  /\ current' = current
  /\ \A h \in Generations :
       info'[h].active = info[h].active /\ info'[h].registered = info[h].registered
Left(g) ==
  /\ current' = IF current = g THEN 0 ELSE current
  /\ \A h \in Generations :
       /\ h # g => info'[h].active = info[h].active
       /\ h = g => info'[h].active = FALSE
       /\ info'[h].registered = info[h].registered
Joined(g) ==
  /\ current = 0 /\ current' = g /\ g = Cardinality(Registered) + 1
  /\ info'[g].active = TRUE /\ info'[g].registered = TRUE
  /\ \A h \in Generations \ {g} :
       info'[h].active = info[h].active /\ info'[h].registered = info[h].registered
FlagsChange == SameFlags \/ \E g \in Generations : Left(g) \/ Joined(g)

\* A thread that comes to have a peer in hand had it, or takes the present one or
\* one that RTC finds candidates for.
HandsChange ==
  \A u \in PeerThreads : handler'[u].at \in Fetched =>
    \/ handler[u].at \in Fetched /\ handler'[u].g = handler[u].g
    \/ current # 0 /\ handler'[u].g = current
    \/ current' # 0 /\ handler'[u].g = current'
    \/ handler'[u].g \in Generations /\ info[handler'[u].g].described

\* What a step touches was given out.
Touched ==
  \A h \in Generations :
    \/ info'[h] = info[h] /\ bundle'[h] = bundle[h]
    \/ info'[h].registered

(***************************************************************************)
(* What ends a peer.                                                       *)
(***************************************************************************)
Ended == \A g \in Generations :
  info[g].ended.why # "" => info[g].registered /\ ~info[g].active
\* A clean-up that is on its way names the session of its peer, or it means the
\* first one; once it has taken the peer out, the peer is not the present one.
WorkForCause ==
  \A t \in PeerThreads : handler[t].why = "cleanup" =>
    /\ handler[t].at \in {"claim", "disconnect", "remove"} =>
         IF handler[t].session # "" THEN handler[t].own = handler[t].session
         ELSE handler[t].g = 1
    /\ handler[t].at \in {"retire", "unlist"} => current # handler[t].g

CauseInv == Ended /\ WorkForCause /\ EndedForCause

\* What a step does to the endings.
SameEndings == \A h \in Generations : info'[h].ended = info[h].ended
OneEnding(why, session) ==
  /\ current \in Generations /\ current' = 0 /\ info'[current].active = FALSE
  /\ info'[current].registered = info[current].registered
  /\ info'[current].ended = [why |-> why, session |-> session,
          own |-> info[current].session,
                             sent |-> Len(info[current].sent)]
  /\ \A h \in Generations \ {current} : info'[h].ended = info[h].ended
  /\ why = "cleanup" =>
       IF session # "" THEN info[current].session = session ELSE current = 1
EndingsChange == SameEndings \/ \E why \in Reasons,
        session \in PeerSessions : OneEnding(why, session)

(***************************************************************************)
(* Local candidates.                                                       *)
(***************************************************************************)
\* Those sent are the first of those found, those in the bundle of a peer that
\* may send are the next, and the callback that is to send them is at it.
Numbered == \A g \in Generations : \A i \in 1..Len(info[g].sent) : info[g].sent[i] = i
BundleIsNext ==
  \A g \in Generations : info[g].active =>
    /\ Len(info[g].sent) + Len(bundle[g].candidates) = info[g].locals
    /\ \A i \in 1..Len(bundle[g].candidates) :
         bundle[g].candidates[i] = Len(info[g].sent) + i
BundleGoes ==
  \A g \in Generations :
    info[g].active /\ ~info[g].retired /\ ~info[g].terminal
            /\ bundle[g].candidates # <<>> =>
      handler["rtc"].at = "send" /\ handler["rtc"].g = g
SilentAfterEnd ==
  \A g \in Generations :
    info[g].ended.why # "" => Len(info[g].sent) = info[g].ended.sent

LocalInv == Numbered /\ BundleIsNext /\ BundleGoes /\ SilentAfterEnd

\* A step that neither finds nor sends a candidate.
NoCandidate ==
  /\ \A h \in Generations :
       /\ info'[h].sent = info[h].sent /\ info'[h].locals = info[h].locals
       /\ bundle'[h].candidates = bundle[h].candidates \/ info'[h].active = FALSE
       /\ info[h].retired => info'[h].retired
       /\ info[h].terminal => info'[h].terminal
  /\ handler["rtc"].at = "send" => handler'["rtc"] = handler["rtc"]
FoundOne(g) ==
  /\ handler["rtc"].at = "idle" /\ handler'["rtc"].at = "send" /\ handler'["rtc"].g = g
  /\ info'[g].sent = info[g].sent /\ info'[g].locals = info[g].locals + 1
  /\ bundle'[g].candidates = Append(bundle[g].candidates, info[g].locals + 1)
  /\ info[g].retired = FALSE /\ info[g].terminal = FALSE
  /\ \A h \in Generations \ {g} : info'[h] = info[h] /\ bundle'[h] = bundle[h]
  /\ SameFlags
SentBundle(g) ==
  /\ info[g].active = TRUE
  /\ info'[g].sent = info[g].sent \o bundle[g].candidates
          /\ info'[g].locals = info[g].locals
  /\ bundle'[g].candidates = <<>>
  /\ \A h \in Generations \ {g} : info'[h] = info[h] /\ bundle'[h] = bundle[h]
  /\ handler["rtc"].at = "send" /\ handler["rtc"].g = g
  /\ SameFlags
SentNone(g) ==
  /\ info[g].active = FALSE \/ info[g].retired = TRUE
  /\ handler["rtc"].at = "send" /\ handler["rtc"].g = g
  /\ UNCHANGED <<info, bundle, current>>
CandidatesChange ==
  NoCandidate \/ \E g \in Generations : FoundOne(g) \/ SentBundle(g) \/ SentNone(g)

(***************************************************************************)
(* What the operators and the actions do.                                  *)
(***************************************************************************)

\* What none is, for every kind of value.
LEMMA NoneIs ==
  /\ "" \in PeerSessions /\ "" \in Own /\ "" \in Reasons /\ 0 \in AnyPeer
          /\ 0 \in Epochs
  /\ \A s \in PeerSessions : s \in Own
<1>1. "" \in PeerSessions
  BY RemoteAssumption
<1>2. "" \in Own /\ \A s \in PeerSessions : s \in Own
  BY <1>1 DEF Own
<1>3. "" \in Reasons
  BY DEF Reasons
<1>4. 0 \in AnyPeer
  BY DEF AnyPeer
<1>5. 0 \in Epochs
  BY DEF Epochs
<1> QED BY <1>1, <1>2, <1>3, <1>4, <1>5

\* The empty bundle is one.
LEMMA NoBundleIs ==
  NoBundle \in Bundles /\ NoBundle.session = "" /\ NoBundle.candidates = <<>>
<1>1. NoBundle.session = "" /\ NoBundle.candidates = <<>>
  BY DEF NoBundle
<1>2. <<>> \in Seq(Nat)
  OBVIOUS
<1> QED BY <1>1, <1>2, NoneIs DEF NoBundle, Bundles

\* Every actor has a thread.
LEMMA Threads ==
  /\ \A t \in MessageThreads : t \in PeerThreads
  /\ "rtc" \in PeerThreads /\ "owner" \in PeerThreads
BY DEF MessageThreads, PeerThreads

\* A thread at rest has a job.
LEMMA RestingIs ==
  /\ RestingJob \in Jobs
  /\ RestingJob.at = "idle" /\ RestingJob.g = 0 /\ RestingJob.session = ""
  /\ RestingJob.own = "" /\ RestingJob.epoch = 0 /\ RestingJob.why = ""
<1>1. "idle" \in Stages
  BY DEF Stages
<1> QED BY <1>1, NoneIs DEF RestingJob, Jobs

\* A thread is given work, and the others keep theirs.
LEMMA GivenWork ==
  ASSUME JobTypes, NEW t \in PeerThreads, NEW j \in Jobs, handler' = [handler EXCEPT
          ![t] = j]
  PROVE  JobTypes' /\ Turns(t, j.at, j.g, j.session, j.own, j.epoch, j.why)
BY DEF JobTypes, Turns

\* One peer changes.
LEMMA PeerChanged ==
  ASSUME InfoTypes, NEW g \in Generations, NEW p \in PeerRecord, info' = [info EXCEPT
          ![g] = p]
  PROVE  InfoTypes' /\ info'[g] = p /\ Others(g)
BY DEF InfoTypes, Others

\* One bundle changes.
LEMMA BundleChanged ==
  ASSUME BundleTypes, NEW g \in Generations, NEW b \in Bundles,
          bundle' = [bundle EXCEPT ![g] = b]
  PROVE  BundleTypes' /\ Packs(g, b.session, b.candidates)
BY DEF BundleTypes, Packs

\* TakenOut ends one peer and keeps the rest of it.
LEMMA TakenOutIs ==
  ASSUME InfoTypes, NEW g \in Generations, NEW why \in Reasons,
          NEW session \in PeerSessions,
         info' = TakenOut(g, why, session)
  PROVE  /\ InfoTypes' /\ Taken(g, why, session)
<1> DEFINE e == [why |-> why, session |-> session, own |-> info[g].session,
                 sent |-> Len(info[g].sent)]
           p == [info[g] EXCEPT !.active = FALSE, !.ended = e]
<1>1. info[g] \in PeerRecord
  BY DEF InfoTypes
<1>2. e \in Endings
  <2>1. info[g].session \in Own /\ Len(info[g].sent) \in Nat
    BY <1>1 DEF PeerRecord
  <2> QED BY <2>1 DEF Endings
<1>3. info' = [info EXCEPT ![g] = p]
  BY DEF TakenOut
<1> HIDE DEF e
<1>4. /\ p \in PeerRecord
      /\ p.active = FALSE /\ p.registered = info[g].registered
      /\ p.session = info[g].session /\ p.locals = info[g].locals
      /\ p.sent = info[g].sent /\ p.described = info[g].described
      /\ p.terminal = info[g].terminal /\ p.retired = info[g].retired
      /\ p.ended = e
  BY <1>1, <1>2 DEF PeerRecord
<1> HIDE DEF p
<1>5. InfoTypes' /\ Others(g) /\ info'[g] = p
  BY <1>3, <1>4, PeerChanged
<1> QED BY <1>4, <1>5 DEF e, Marks, Holds, Taken

\* The next generation, when there is room for it, is one.
LEMMA RegisteredCounts ==
  /\ IsFiniteSet(Registered)
  /\ Cardinality(Registered) \in Nat
  /\ Cardinality(Registered) + 1 <= MaxPeers =>
          Cardinality(Registered) + 1 \in Generations
<1>1. MaxPeers \in Nat
  BY RemoteAssumption
<1>2. IsFiniteSet(Generations) /\ Registered \subseteq Generations
  BY <1>1, FS_Interval DEF Generations, Registered
<1>3. IsFiniteSet(Registered) /\ Cardinality(Registered) \in Nat
  BY <1>2, FS_Subset, FS_CardinalityType
<1> QED BY <1>1, <1>3 DEF Generations

\* What a peer's fields are.
LEMMA PeerFields ==
  ASSUME InfoTypes, NEW g \in Generations
  PROVE  info[g].session \in Own /\ info[g].locals \in Nat /\ info[g].sent \in Seq(Nat)
BY DEF InfoTypes, PeerRecord

\* What a bundle's fields are.
LEMMA BundleFields ==
  ASSUME BundleTypes, NEW g \in Generations
  PROVE  bundle[g].session \in Own /\ bundle[g].candidates \in Seq(Nat)
BY DEF BundleTypes, Bundles

\* Numbers and their sequences grow.
LEMMA NumbersAdded ==
  /\ \A n \in Nat : n + 1 \in Nat
  /\ \A q \in Seq(Nat), n \in Nat : Append(q, n) \in Seq(Nat)
  /\ \A q, r \in Seq(Nat) : q \o r \in Seq(Nat)
OBVIOUS

\* A peer's session is one that a clean-up may carry.
LEMMA PeerSession ==
  ASSUME InfoTypes, NEW g \in Generations
  PROVE  info[g].session \in Own
BY DEF InfoTypes, PeerRecord

LEMMA CandidateDoes ==
  ASSUME RemoteTypes, NEW t \in MessageThreads, NEW s \in PeerSessions,
         Candidate(t, s)
  PROVE
    /\ JobTypes'
    /\ \/ /\ current = 0 /\ UNCHANGED <<handler, current, info, bundle>>
       \/ /\ current # 0 /\ Turns(t, "look", current, s, "", 0, "")
          /\ UNCHANGED <<current, info, bundle>>
<1>0. JobTypes /\ InfoTypes /\ BundleTypes /\ PlaceTypes /\ JobInv
  BY DEF RemoteTypes, Candidate, Working, JobInv, Fetched, PeerThreads,
     MessageThreads
<1>1. CASE current = 0
  <2>1. /\ UNCHANGED <<handler, current, info, bundle>>
    BY <1>1, <1>0 DEF Candidate, Working, Work, WorkAt
  <2> QED BY <1>1, <2>1, <1>0 DEF JobTypes
<1>2. CASE current # 0
  <2> DEFINE j == [RestingJob EXCEPT !.at = "look", !.g = current, !.session = s]
  <2>1. /\ handler' = [handler EXCEPT ![t] = j]
        /\ UNCHANGED <<current, info, bundle>>
    BY <1>2, <1>0 DEF Candidate, Working, Work, WorkAt
  <2>2. /\ "look" \in Stages /\ current \in AnyPeer /\ s \in PeerSessions
        /\ t \in PeerThreads
    BY <1>2, <1>0, NoneIs
    DEF Stages, Reasons, PeerThreads, MessageThreads, AnyPeer,
       Epochs, JobTypes, PlaceTypes
  <2>3. /\ j \in Jobs /\ j.at = "look" /\ j.g = current /\ j.session = s
        /\ j.own = "" /\ j.epoch = 0 /\ j.why = ""
    BY RestingIs, <2>2 DEF Jobs
  <2> HIDE DEF j
  <2>4. JobTypes' /\ Turns(t, "look", current, s, "", 0, "")
    BY <1>0, GivenWork, <2>1, <2>2, <2>3
  <2> QED BY <1>2, <2>1, <2>4
<1> QED BY <1>1, <1>2, <1>0 DEF Candidate

LEMMA OfferedDoes ==
  ASSUME RemoteTypes, NEW t \in MessageThreads, NEW s \in PeerSessions, Offered(t, s)
  PROVE
    /\ JobTypes' /\ InfoTypes'
    /\ \/ /\ current # 0 /\ current' = 0
          /\ Turns(t, "retire", current, s, "", 0, "offer")
          /\ Taken(current, "offer", s) /\ UNCHANGED bundle
       \/ /\ current = 0 /\ Turns(t, "create", 0, s, "", 0, "offer")
          /\ UNCHANGED <<current, info, bundle>>
       \/ /\ current # 0 /\ Turns(t, "session", current, s, "", 0, "offer")
          /\ UNCHANGED <<current, info, bundle>>
<1>0. JobTypes /\ InfoTypes /\ BundleTypes /\ PlaceTypes /\ JobInv
  BY DEF RemoteTypes, Offered, Working, JobInv, Fetched, PeerThreads,
     MessageThreads
<1>1. CASE current # 0 /\ (Mismatch(s, current) \/ Dying(current))
  <2> DEFINE j == [RestingJob EXCEPT !.at = "retire", !.g = current, !.session = s,
          !.why = "offer"]
  <2>1. /\ handler' = [handler EXCEPT ![t] = j]
        /\ info' = TakenOut(current, "offer", s) /\ UNCHANGED <<bundle>>
        /\ current # 0 /\ current' = 0
    BY <1>1, <1>0 DEF Offered, Working, Work, WorkAt
  <2>2. /\ "retire" \in Stages /\ current \in AnyPeer /\ s \in PeerSessions
        /\ "offer" \in Reasons /\ t \in PeerThreads
    BY <1>1, <1>0, NoneIs
    DEF Stages, Reasons, PeerThreads, MessageThreads, AnyPeer,
       Epochs, JobTypes, PlaceTypes
  <2>3. /\ j \in Jobs /\ j.at = "retire" /\ j.g = current /\ j.session = s
        /\ j.own = "" /\ j.epoch = 0 /\ j.why = "offer"
    BY RestingIs, <2>2 DEF Jobs
  <2> HIDE DEF j
  <2>4. JobTypes' /\ Turns(t, "retire", current, s, "", 0, "offer")
    BY <1>0, GivenWork, <2>1, <2>2, <2>3
  <2>5. current \in Generations /\ "offer" \in Reasons /\ s \in PeerSessions
    BY <1>1, <1>0, <2>1, NoneIs DEF PlaceTypes, AnyPeer, Reasons
  <2>6. InfoTypes' /\ Taken(current, "offer", s)
    BY <1>0, <2>1, <2>5, TakenOutIs
  <2> QED BY <1>1, <2>1, <2>4, <2>6
<1>2. CASE current = 0
  <2> DEFINE j == [RestingJob EXCEPT !.at = "create", !.g = 0, !.session = s,
          !.why = "offer"]
  <2>1. /\ handler' = [handler EXCEPT ![t] = j]
        /\ UNCHANGED <<current, info, bundle>>
    BY <1>2, <1>0 DEF Offered, Working, Work, WorkAt
  <2>2. /\ "create" \in Stages /\ 0 \in AnyPeer /\ s \in PeerSessions
        /\ "offer" \in Reasons /\ t \in PeerThreads
    BY <1>2, <1>0, NoneIs
    DEF Stages, Reasons, PeerThreads, MessageThreads, AnyPeer,
       Epochs, JobTypes, PlaceTypes
  <2>3. /\ j \in Jobs /\ j.at = "create" /\ j.g = 0 /\ j.session = s /\ j.own = ""
        /\ j.epoch = 0 /\ j.why = "offer"
    BY RestingIs, <2>2 DEF Jobs
  <2> HIDE DEF j
  <2>4. JobTypes' /\ Turns(t, "create", 0, s, "", 0, "offer")
    BY <1>0, GivenWork, <2>1, <2>2, <2>3
  <2> QED BY <1>2, <2>1, <2>4, <1>0 DEF InfoTypes
<1>3. CASE current # 0 /\ ~(current # 0 /\ (Mismatch(s, current) \/ Dying(current)))
  <2> DEFINE j == [RestingJob EXCEPT !.at = "session", !.g = current, !.session = s,
          !.why = "offer"]
  <2>1. /\ handler' = [handler EXCEPT ![t] = j]
        /\ UNCHANGED <<current, info, bundle>> /\ current # 0
    BY <1>3, <1>0 DEF Offered, Working, Work, WorkAt
  <2>2. /\ "session" \in Stages /\ current \in AnyPeer /\ s \in PeerSessions
        /\ "offer" \in Reasons /\ t \in PeerThreads
    BY <1>3, <1>0, NoneIs
    DEF Stages, Reasons, PeerThreads, MessageThreads, AnyPeer,
       Epochs, JobTypes, PlaceTypes
  <2>3. /\ j \in Jobs /\ j.at = "session" /\ j.g = current /\ j.session = s
        /\ j.own = "" /\ j.epoch = 0 /\ j.why = "offer"
    BY RestingIs, <2>2 DEF Jobs
  <2> HIDE DEF j
  <2>4. JobTypes' /\ Turns(t, "session", current, s, "", 0, "offer")
    BY <1>0, GivenWork, <2>1, <2>2, <2>3
  <2> QED BY <1>3, <2>1, <2>4, <1>0 DEF InfoTypes
<1> QED BY <1>1, <1>2, <1>3, <1>0 DEF Offered

LEMMA ClaimIdentityDoes ==
  ASSUME RemoteTypes, NEW t \in MessageThreads, NEW s \in PeerSessions,
         ClaimIdentity(t, s)
  PROVE
    /\ JobTypes'
    /\ \/ /\ current # 0 /\ Names(s, current)
          /\ s = "" => Cardinality(Registered) <= 1
          /\ Turns(t, "disconnect", current, s, info[current].session, 0, "cleanup")
          /\ UNCHANGED <<current, info, bundle>>
       \/ /\ UNCHANGED <<handler, current, info, bundle>>
<1>0. JobTypes /\ InfoTypes /\ BundleTypes /\ PlaceTypes /\ JobInv
  BY DEF RemoteTypes, ClaimIdentity, Working, JobInv, Fetched, PeerThreads,
     MessageThreads
<1>1. CASE Admissible(current, s)
  <2> DEFINE j == [RestingJob EXCEPT !.at = "disconnect", !.g = current, !.session = s,
          !.own = info[current].session, !.why = "cleanup"]
  <2>1. /\ handler' = [handler EXCEPT ![t] = j]
        /\ UNCHANGED <<current, info, bundle>> /\ current # 0 /\ Names(s, current)
        /\ s = "" => Cardinality(Registered) <= 1
    BY <1>1, <1>0 DEF ClaimIdentity, Working, Work, WorkAt, Admissible
  <2>2. /\ "disconnect" \in Stages /\ current \in AnyPeer /\ s \in PeerSessions
        /\ info[current].session \in Own /\ "cleanup" \in Reasons
        /\ t \in PeerThreads
    BY <1>1, <1>0, NoneIs, PeerSession, <2>1 DEF Stages, Reasons, PeerThreads,
       MessageThreads, AnyPeer, Epochs, JobTypes, PlaceTypes
  <2>3. /\ j \in Jobs /\ j.at = "disconnect" /\ j.g = current /\ j.session = s
        /\ j.own = info[current].session /\ j.epoch = 0 /\ j.why = "cleanup"
    BY RestingIs, <2>2 DEF Jobs
  <2> HIDE DEF j
  <2>4. /\ JobTypes'
        /\ Turns(t, "disconnect", current, s, info[current].session, 0, "cleanup")
    BY <1>0, GivenWork, <2>1, <2>2, <2>3
  <2> QED BY <1>1, <2>1, <2>4
<1>2. CASE ~Admissible(current, s)
  <2>1. /\ UNCHANGED <<handler, current, info, bundle>>
    BY <1>2, <1>0 DEF ClaimIdentity, Working, Work, WorkAt
  <2> QED BY <1>2, <2>1, <1>0 DEF JobTypes
<1> QED BY <1>1, <1>2, <1>0 DEF ClaimIdentity

LEMMA CleanupDoes ==
  ASSUME RemoteTypes, NEW t \in MessageThreads, NEW s \in PeerSessions,
          NEW epoch \in 0..2,
         Cleanup(t, s, epoch)
  PROVE
    /\ JobTypes'
    /\ \/ /\ current # 0 /\ Names(s, current)
          /\ s = "" => Cardinality(Registered) <= 1
          /\ Turns(t, "claim", current, s, info[current].session, epoch, "cleanup")
          /\ UNCHANGED <<current, info, bundle>>
       \/ /\ UNCHANGED <<handler, current, info, bundle>>
<1>0. JobTypes /\ InfoTypes /\ BundleTypes /\ PlaceTypes /\ JobInv
  BY DEF RemoteTypes, Cleanup, Working, JobInv, Fetched, PeerThreads,
     MessageThreads
<1>1. CASE handler' # handler
  <2> DEFINE j == [RestingJob EXCEPT !.at = "claim", !.g = current, !.session = s,
          !.own = info[current].session, !.epoch = epoch, !.why = "cleanup"]
  <2>1. /\ handler' = [handler EXCEPT ![t] = j]
        /\ UNCHANGED <<current, info, bundle>> /\ current # 0 /\ Names(s, current)
        /\ s = "" => Cardinality(Registered) <= 1
    BY <1>1, <1>0 DEF Cleanup, Working, Work, WorkAt, Admissible
  <2>2. /\ "claim" \in Stages /\ current \in AnyPeer /\ s \in PeerSessions
        /\ info[current].session \in Own /\ epoch \in Epochs
        /\ "cleanup" \in Reasons /\ t \in PeerThreads
    BY <1>1, <1>0, NoneIs, PeerSession, <2>1 DEF Stages, Reasons, PeerThreads,
       MessageThreads, AnyPeer, Epochs, JobTypes, PlaceTypes
  <2>3. /\ j \in Jobs /\ j.at = "claim" /\ j.g = current /\ j.session = s
        /\ j.own = info[current].session /\ j.epoch = epoch /\ j.why = "cleanup"
    BY RestingIs, <2>2 DEF Jobs
  <2> HIDE DEF j
  <2>4. /\ JobTypes'
        /\ Turns(t, "claim", current, s, info[current].session, epoch, "cleanup")
    BY <1>0, GivenWork, <2>1, <2>2, <2>3
  <2> QED BY <1>1, <2>1, <2>4
<1>2. CASE handler' = handler
  <2>1. /\ UNCHANGED <<handler, current, info, bundle>>
    BY <1>2, <1>0 DEF Cleanup, Working, Work, WorkAt
  <2> QED BY <1>2, <2>1, <1>0 DEF JobTypes
<1> QED BY <1>1, <1>2, <1>0 DEF Cleanup

LEMMA LookAtPeerDoes ==
  ASSUME RemoteTypes, NEW t \in MessageThreads, LookAtPeer(t)
  PROVE
    /\ JobTypes' /\ handler[t].at = "look"
    /\ \/ /\ Turns(t, "push", handler[t].g, handler[t].session, handler[t].own,
                handler[t].epoch, handler[t].why)
          /\ UNCHANGED <<current, info, bundle>>
       \/ /\ Turns(t, "idle", 0, "", "", 0, "")
          /\ UNCHANGED <<current, info, bundle>>
<1>0. JobTypes /\ InfoTypes /\ BundleTypes /\ PlaceTypes /\ JobInv
      /\ handler[t].at = "look"
  BY DEF RemoteTypes, LookAtPeer, Working, JobInv, Fetched, PeerThreads,
     MessageThreads
<1>1. CASE handler' = [handler EXCEPT ![t] = [handler[t] EXCEPT !.at = "push"]]
  <2> DEFINE j == [handler[t] EXCEPT !.at = "push"]
  <2>1. /\ handler' = [handler EXCEPT ![t] = j]
        /\ UNCHANGED <<current, info, bundle>>
    BY <1>1, <1>0 DEF LookAtPeer, Working, Work, WorkAt
  <2>2. /\ "push" \in Stages /\ t \in PeerThreads /\ handler[t] \in Jobs
    BY <1>1, <1>0, NoneIs
    DEF Stages, Reasons, PeerThreads, MessageThreads, AnyPeer,
       Epochs, JobTypes, PlaceTypes
  <2>3. /\ j \in Jobs /\ j.at = "push" /\ j.g = handler[t].g
        /\ j.session = handler[t].session /\ j.own = handler[t].own
        /\ j.epoch = handler[t].epoch /\ j.why = handler[t].why
    BY RestingIs, <2>2 DEF Jobs
  <2> HIDE DEF j
  <2>4. /\ JobTypes'
        /\ Turns(t, "push", handler[t].g, handler[t].session, handler[t].own,
                handler[t].epoch, handler[t].why)
    BY <1>0, GivenWork, <2>1, <2>2, <2>3
  <2> QED BY <1>1, <2>1, <2>4, <1>0
<1>2. CASE handler' # [handler EXCEPT ![t] = [handler[t] EXCEPT !.at = "push"]]
  <2> DEFINE j == RestingJob
  <2>1. /\ handler' = [handler EXCEPT ![t] = j]
        /\ UNCHANGED <<current, info, bundle>>
    BY <1>2, <1>0 DEF LookAtPeer, Working, Work, WorkAt
  <2>2. /\ t \in PeerThreads
    BY <1>2, <1>0, NoneIs
    DEF Stages, Reasons, PeerThreads, MessageThreads, AnyPeer,
       Epochs, JobTypes, PlaceTypes
  <2>3. /\ j \in Jobs /\ j.at = "idle" /\ j.g = 0 /\ j.session = "" /\ j.own = ""
        /\ j.epoch = 0 /\ j.why = ""
    BY RestingIs
  <2> HIDE DEF j
  <2>4. JobTypes' /\ Turns(t, "idle", 0, "", "", 0, "")
    BY <1>0, GivenWork, <2>1, <2>2, <2>3
  <2> QED BY <1>2, <2>1, <2>4, <1>0
<1> QED BY <1>1, <1>2, <1>0 DEF LookAtPeer

LEMMA PushCandidateDoes ==
  ASSUME RemoteTypes, NEW t \in MessageThreads, PushCandidate(t)
  PROVE
    /\ JobTypes' /\ Turns(t, "idle", 0, "", "", 0, "")
    /\ UNCHANGED <<current, info, bundle>>
<1>0. JobTypes /\ InfoTypes /\ BundleTypes /\ PlaceTypes /\ JobInv
  BY DEF RemoteTypes, PushCandidate, Working, JobInv, Fetched, PeerThreads,
     MessageThreads
<1> DEFINE j == RestingJob
<1>1. /\ handler' = [handler EXCEPT ![t] = j] /\ UNCHANGED <<current, info, bundle>>
  BY <1>0 DEF PushCandidate, Working, Work, WorkAt
<1>2. /\ t \in PeerThreads
  BY <1>0, NoneIs
  DEF Stages, Reasons, PeerThreads, MessageThreads, AnyPeer, Epochs,
     JobTypes, PlaceTypes
<1>3. /\ j \in Jobs /\ j.at = "idle" /\ j.g = 0 /\ j.session = "" /\ j.own = ""
      /\ j.epoch = 0 /\ j.why = ""
  BY RestingIs
<1> HIDE DEF j
<1>4. JobTypes' /\ Turns(t, "idle", 0, "", "", 0, "")
  BY <1>0, GivenWork, <1>1, <1>2, <1>3
<1> QED BY <1>1, <1>4

LEMMA CreatePeerDoes ==
  ASSUME RemoteTypes, NEW t \in MessageThreads, CreatePeer(t)
  PROVE
    /\ JobTypes' /\ InfoTypes' /\ handler[t].at = "create"
    /\ \/ /\ current # 0
          /\ Turns(t, "session", current, handler[t].session, handler[t].own,
                handler[t].epoch, handler[t].why)
          /\ UNCHANGED <<current, info, bundle>>
       \/ /\ current = 0 /\ current' = Cardinality(Registered) + 1
          /\ Cardinality(Registered) + 1 \in Generations
          /\ Turns(t, "session", Cardinality(Registered) + 1, handler[t].session,
                handler[t].own, handler[t].epoch, handler[t].why)
          /\ Others(Cardinality(Registered) + 1)
          /\ Marks(Cardinality(Registered) + 1, TRUE, TRUE,
                info[Cardinality(Registered) + 1].retired,
                info[Cardinality(Registered) + 1].terminal,
                info[Cardinality(Registered) + 1].described)
          /\ Holds(Cardinality(Registered) + 1, "own", info[Cardinality(Registered) +
                1].locals, info[Cardinality(Registered) + 1].sent)
          /\ info'[Cardinality(Registered) + 1].ended = info[Cardinality(Registered) +
                1].ended
          /\ UNCHANGED bundle
<1>0. JobTypes /\ InfoTypes /\ BundleTypes /\ PlaceTypes /\ JobInv
      /\ handler[t].at = "create"
  BY DEF RemoteTypes, CreatePeer, Working, JobInv, Fetched, PeerThreads,
     MessageThreads
<1>1. CASE current # 0
  <2> DEFINE j == [handler[t] EXCEPT !.at = "session", !.g = current]
  <2>1. /\ handler' = [handler EXCEPT ![t] = j]
        /\ UNCHANGED <<current, info, bundle>>
    BY <1>1, <1>0 DEF CreatePeer, Working, Work, WorkAt
  <2>2. /\ "session" \in Stages /\ current \in AnyPeer /\ t \in PeerThreads
        /\ handler[t] \in Jobs
    BY <1>1, <1>0, NoneIs
    DEF Stages, Reasons, PeerThreads, MessageThreads, AnyPeer,
       Epochs, JobTypes, PlaceTypes
  <2>3. /\ j \in Jobs /\ j.at = "session" /\ j.g = current
        /\ j.session = handler[t].session /\ j.own = handler[t].own
        /\ j.epoch = handler[t].epoch /\ j.why = handler[t].why
    BY RestingIs, <2>2 DEF Jobs
  <2> HIDE DEF j
  <2>4. /\ JobTypes'
        /\ Turns(t, "session", current, handler[t].session, handler[t].own,
                handler[t].epoch, handler[t].why)
    BY <1>0, GivenWork, <2>1, <2>2, <2>3
  <2> QED BY <1>1, <2>1, <2>4, <1>0 DEF InfoTypes
<1>2. CASE current = 0
  <2> DEFINE j == [handler[t] EXCEPT !.at = "session",
          !.g = Cardinality(Registered) + 1]
             p == [info[Cardinality(Registered) + 1] EXCEPT !.registered = TRUE,
                     !.active = TRUE, !.session = "own"]
  <2>1. /\ handler' = [handler EXCEPT ![t] = j]
        /\ info' = [info EXCEPT ![Cardinality(Registered) + 1] = p]
        /\ UNCHANGED <<bundle>> /\ current' = Cardinality(Registered) + 1
        /\ Cardinality(Registered) + 1 \in Generations
    BY <1>2, <1>0, RegisteredCounts DEF CreatePeer, Working, Work, WorkAt
  <2>2. /\ "session" \in Stages /\ Cardinality(Registered) + 1 \in AnyPeer
        /\ t \in PeerThreads /\ handler[t] \in Jobs
    BY <1>2, <1>0, NoneIs, RegisteredCounts DEF Stages, Reasons, PeerThreads,
       MessageThreads, AnyPeer, Epochs, JobTypes, PlaceTypes, CreatePeer
  <2>3. /\ j \in Jobs /\ j.at = "session" /\ j.g = Cardinality(Registered) + 1
        /\ j.session = handler[t].session /\ j.own = handler[t].own
        /\ j.epoch = handler[t].epoch /\ j.why = handler[t].why
    BY RestingIs, <2>2 DEF Jobs
  <2> HIDE DEF j
  <2>4. /\ JobTypes'
        /\ Turns(t, "session", Cardinality(Registered) + 1, handler[t].session,
                handler[t].own, handler[t].epoch, handler[t].why)
    BY <1>0, GivenWork, <2>1, <2>2, <2>3
  <2>5. /\ Cardinality(Registered) + 1 \in Generations
        /\ info[Cardinality(Registered) + 1] \in PeerRecord /\ TRUE \in BOOLEAN
        /\ TRUE \in BOOLEAN /\ "own" \in Own
    BY <1>2, <1>0, <2>1, NoneIs, RegisteredCounts
    DEF InfoTypes, PlaceTypes, AnyPeer,
       CreatePeer, Own
  <2>6. /\ p \in PeerRecord /\ p.registered = TRUE /\ p.active = TRUE
        /\ p.retired = info[Cardinality(Registered) + 1].retired
        /\ p.terminal = info[Cardinality(Registered) + 1].terminal
        /\ p.described = info[Cardinality(Registered) + 1].described
        /\ p.session = "own" /\ p.locals = info[Cardinality(Registered) + 1].locals
        /\ p.sent = info[Cardinality(Registered) + 1].sent
        /\ p.ended = info[Cardinality(Registered) + 1].ended
    BY <2>5 DEF PeerRecord
  <2> HIDE DEF p
  <2>7. InfoTypes' /\ info'[Cardinality(Registered) + 1] = p
          /\ Others(Cardinality(Registered) + 1)
    BY <1>0, <2>1, <2>5, <2>6, PeerChanged
  <2> QED BY <1>2, <2>1, <2>4, <2>6, <2>7, <1>0 DEF Marks, Holds
<1> QED BY <1>1, <1>2, <1>0 DEF CreatePeer

LEMMA SetSessionDoes ==
  ASSUME RemoteTypes, NEW t \in MessageThreads, SetSession(t)
  PROVE
    /\ JobTypes' /\ InfoTypes' /\ BundleTypes'
    /\ handler[t].at = "session" /\ handler[t].g \in Generations
    /\ Turns(t, "describe", handler[t].g, handler[t].session, handler[t].own,
          handler[t].epoch, handler[t].why)
    /\ Others(handler[t].g)
    /\ Marks(handler[t].g, info[handler[t].g].registered, info[handler[t].g].active,
          info[handler[t].g].retired, info[handler[t].g].terminal, FALSE)
    /\ Holds(handler[t].g, handler[t].session, info[handler[t].g].locals,
          info[handler[t].g].sent)
    /\ info'[handler[t].g].ended = info[handler[t].g].ended
    /\ Packs(handler[t].g, handler[t].session, bundle[handler[t].g].candidates)
    /\ UNCHANGED current
<1>0. JobTypes /\ InfoTypes /\ BundleTypes /\ PlaceTypes /\ JobInv
      /\ handler[t].at = "session" /\ handler[t].g \in Generations
  BY DEF RemoteTypes, SetSession, Working, JobInv, Fetched, PeerThreads,
     MessageThreads
<1> DEFINE j == [handler[t] EXCEPT !.at = "describe"]
           p == [info[handler[t].g] EXCEPT !.session = handler[t].session,
                   !.described = FALSE]
           b == [bundle[handler[t].g] EXCEPT !.session = handler[t].session]
<1>1. /\ handler' = [handler EXCEPT ![t] = j]
      /\ info' = [info EXCEPT ![handler[t].g] = p]
      /\ bundle' = [bundle EXCEPT ![handler[t].g] = b] /\ UNCHANGED <<current>>
  BY <1>0 DEF SetSession, Working, Work, WorkAt
<1>2. /\ "describe" \in Stages /\ t \in PeerThreads /\ handler[t] \in Jobs
  BY <1>0, NoneIs
  DEF Stages, Reasons, PeerThreads, MessageThreads, AnyPeer, Epochs,
     JobTypes, PlaceTypes
<1>3. /\ j \in Jobs /\ j.at = "describe" /\ j.g = handler[t].g
      /\ j.session = handler[t].session /\ j.own = handler[t].own
      /\ j.epoch = handler[t].epoch /\ j.why = handler[t].why
  BY RestingIs, <1>2 DEF Jobs
<1> HIDE DEF j
<1>4. /\ JobTypes'
      /\ Turns(t, "describe", handler[t].g, handler[t].session, handler[t].own,
              handler[t].epoch, handler[t].why)
  BY <1>0, GivenWork, <1>1, <1>2, <1>3
<1>5. /\ handler[t].g \in Generations /\ info[handler[t].g] \in PeerRecord
      /\ handler[t].session \in Own /\ FALSE \in BOOLEAN
  BY <1>0, <1>1, NoneIs DEF InfoTypes, PlaceTypes, AnyPeer, JobTypes, Jobs,
     MessageThreads, PeerThreads
<1>6. /\ p \in PeerRecord /\ p.registered = info[handler[t].g].registered
      /\ p.active = info[handler[t].g].active
      /\ p.retired = info[handler[t].g].retired
      /\ p.terminal = info[handler[t].g].terminal /\ p.described = FALSE
      /\ p.session = handler[t].session /\ p.locals = info[handler[t].g].locals
      /\ p.sent = info[handler[t].g].sent /\ p.ended = info[handler[t].g].ended
  BY <1>5 DEF PeerRecord
<1> HIDE DEF p
<1>7. InfoTypes' /\ info'[handler[t].g] = p /\ Others(handler[t].g)
  BY <1>0, <1>1, <1>5, <1>6, PeerChanged
<1>8. /\ handler[t].g \in Generations /\ b \in Bundles
      /\ b.session = handler[t].session
      /\ b.candidates = bundle[handler[t].g].candidates
  BY <1>0, <1>1, NoneIs, NoBundleIs DEF PlaceTypes, AnyPeer, JobTypes, Jobs,
     MessageThreads, PeerThreads, BundleTypes, Bundles
<1> HIDE DEF b
<1>9. /\ BundleTypes'
      /\ Packs(handler[t].g, handler[t].session, bundle[handler[t].g].candidates)
  BY <1>0, <1>1, <1>8, BundleChanged
<1> QED BY <1>1, <1>4, <1>6, <1>7, <1>9, <1>0 DEF Marks, Holds

LEMMA DescribeDoes ==
  ASSUME RemoteTypes, NEW t \in MessageThreads, Describe(t)
  PROVE
    /\ JobTypes' /\ InfoTypes'
    /\ handler[t].at = "describe" /\ handler[t].g \in Generations
    /\ \/ /\ Turns(t, "drain", handler[t].g, handler[t].session, handler[t].own,
                handler[t].epoch, handler[t].why)
          /\ Others(handler[t].g)
          /\ Marks(handler[t].g, info[handler[t].g].registered,
                info[handler[t].g].active, info[handler[t].g].retired,
                info[handler[t].g].terminal, TRUE)
          /\ Holds(handler[t].g, info[handler[t].g].session,
                info[handler[t].g].locals, info[handler[t].g].sent)
          /\ info'[handler[t].g].ended = info[handler[t].g].ended
          /\ UNCHANGED <<current, bundle>>
       \/ /\ Turns(t, "disconnect", 0, "", "", 0, "failure")
          /\ UNCHANGED <<current, info, bundle>>
<1>0. JobTypes /\ InfoTypes /\ BundleTypes /\ PlaceTypes /\ JobInv
      /\ handler[t].at = "describe" /\ handler[t].g \in Generations
  BY DEF RemoteTypes, Describe, Working, JobInv, Fetched, PeerThreads,
     MessageThreads
<1>1. CASE info' = [info EXCEPT ![handler[t].g].described = TRUE]
        /\ handler' = [handler EXCEPT ![t].at = "drain"]
  <2> DEFINE j == [handler[t] EXCEPT !.at = "drain"]
             p == [info[handler[t].g] EXCEPT !.described = TRUE]
  <2>1. /\ handler' = [handler EXCEPT ![t] = j]
        /\ info' = [info EXCEPT ![handler[t].g] = p]
        /\ UNCHANGED <<current, bundle>>
    BY <1>1, <1>0 DEF Describe, Working, Work, WorkAt
  <2>2. /\ "drain" \in Stages /\ t \in PeerThreads /\ handler[t] \in Jobs
    BY <1>1, <1>0, NoneIs
    DEF Stages, Reasons, PeerThreads, MessageThreads, AnyPeer,
       Epochs, JobTypes, PlaceTypes
  <2>3. /\ j \in Jobs /\ j.at = "drain" /\ j.g = handler[t].g
        /\ j.session = handler[t].session /\ j.own = handler[t].own
        /\ j.epoch = handler[t].epoch /\ j.why = handler[t].why
    BY RestingIs, <2>2 DEF Jobs
  <2> HIDE DEF j
  <2>4. /\ JobTypes'
        /\ Turns(t, "drain", handler[t].g, handler[t].session, handler[t].own,
                handler[t].epoch, handler[t].why)
    BY <1>0, GivenWork, <2>1, <2>2, <2>3
  <2>5. /\ handler[t].g \in Generations /\ info[handler[t].g] \in PeerRecord
        /\ TRUE \in BOOLEAN
    BY <1>1, <1>0, <2>1, NoneIs DEF InfoTypes, PlaceTypes, AnyPeer
  <2>6. /\ p \in PeerRecord /\ p.registered = info[handler[t].g].registered
        /\ p.active = info[handler[t].g].active
        /\ p.retired = info[handler[t].g].retired
        /\ p.terminal = info[handler[t].g].terminal /\ p.described = TRUE
        /\ p.session = info[handler[t].g].session
        /\ p.locals = info[handler[t].g].locals /\ p.sent = info[handler[t].g].sent
        /\ p.ended = info[handler[t].g].ended
    BY <2>5 DEF PeerRecord
  <2> HIDE DEF p
  <2>7. InfoTypes' /\ info'[handler[t].g] = p /\ Others(handler[t].g)
    BY <1>0, <2>1, <2>5, <2>6, PeerChanged
  <2> QED BY <1>1, <2>1, <2>4, <2>6, <2>7, <1>0 DEF Marks, Holds
<1>2. CASE ~(info' = [info EXCEPT ![handler[t].g].described = TRUE]
        /\ handler' = [handler EXCEPT ![t].at = "drain"])
  <2> DEFINE j == [RestingJob EXCEPT !.at = "disconnect", !.why = "failure"]
  <2>1. /\ handler' = [handler EXCEPT ![t] = j]
        /\ UNCHANGED <<current, info, bundle>>
    BY <1>2, <1>0 DEF Describe, Working, Work, WorkAt
  <2>2. /\ "disconnect" \in Stages /\ "failure" \in Reasons /\ t \in PeerThreads
    BY <1>2, <1>0, NoneIs
    DEF Stages, Reasons, PeerThreads, MessageThreads, AnyPeer,
       Epochs, JobTypes, PlaceTypes
  <2>3. /\ j \in Jobs /\ j.at = "disconnect" /\ j.g = 0 /\ j.session = ""
        /\ j.own = "" /\ j.epoch = 0 /\ j.why = "failure"
    BY RestingIs, <2>2 DEF Jobs
  <2> HIDE DEF j
  <2>4. JobTypes' /\ Turns(t, "disconnect", 0, "", "", 0, "failure")
    BY <1>0, GivenWork, <2>1, <2>2, <2>3
  <2> QED BY <1>2, <2>1, <2>4, <1>0 DEF InfoTypes
<1> QED BY <1>1, <1>2, <1>0 DEF Describe

LEMMA DrainDoes ==
  ASSUME RemoteTypes, NEW t \in MessageThreads, Drain(t)
  PROVE
    /\ JobTypes' /\ Turns(t, "idle", 0, "", "", 0, "")
    /\ UNCHANGED <<current, info, bundle>>
<1>0. JobTypes /\ InfoTypes /\ BundleTypes /\ PlaceTypes /\ JobInv
  BY DEF RemoteTypes, Drain, Working, JobInv, Fetched, PeerThreads,
     MessageThreads
<1> DEFINE j == RestingJob
<1>1. /\ handler' = [handler EXCEPT ![t] = j] /\ UNCHANGED <<current, info, bundle>>
  BY <1>0 DEF Drain, Working, Work, WorkAt
<1>2. /\ t \in PeerThreads
  BY <1>0, NoneIs
  DEF Stages, Reasons, PeerThreads, MessageThreads, AnyPeer, Epochs,
     JobTypes, PlaceTypes
<1>3. /\ j \in Jobs /\ j.at = "idle" /\ j.g = 0 /\ j.session = "" /\ j.own = ""
      /\ j.epoch = 0 /\ j.why = ""
  BY RestingIs
<1> HIDE DEF j
<1>4. JobTypes' /\ Turns(t, "idle", 0, "", "", 0, "")
  BY <1>0, GivenWork, <1>1, <1>2, <1>3
<1> QED BY <1>1, <1>4

LEMMA ClaimDoes ==
  ASSUME RemoteTypes, NEW t \in MessageThreads, Claim(t)
  PROVE
    /\ JobTypes' /\ InfoTypes'
    /\ handler[t].at = "claim" /\ handler[t].g \in Generations
    /\ \/ /\ Turns(t, "disconnect", handler[t].g, handler[t].session, handler[t].own,
                handler[t].epoch, handler[t].why)
          /\ Others(handler[t].g)
          /\ Marks(handler[t].g, info[handler[t].g].registered,
                info[handler[t].g].active, info[handler[t].g].retired,
                info[handler[t].g].terminal, info[handler[t].g].described)
          /\ Holds(handler[t].g, info[handler[t].g].session,
                info[handler[t].g].locals, info[handler[t].g].sent)
          /\ info'[handler[t].g].ended = info[handler[t].g].ended
          /\ UNCHANGED <<current, bundle>>
       \/ /\ Turns(t, "idle", 0, "", "", 0, "")
          /\ UNCHANGED <<current, info, bundle>>
<1>0. JobTypes /\ InfoTypes /\ BundleTypes /\ PlaceTypes /\ JobInv
      /\ handler[t].at = "claim" /\ handler[t].g \in Generations
  BY DEF RemoteTypes, Claim, Working, JobInv, Fetched, PeerThreads,
     MessageThreads
<1>1. CASE handler[t].epoch \in {0, latest} /\ current = handler[t].g
        /\ Admissible(handler[t].g, handler[t].session)
        /\ ~info[handler[t].g].claimed /\ ~Dying(handler[t].g)
  <2> DEFINE j == [handler[t] EXCEPT !.at = "disconnect"]
             p == [info[handler[t].g] EXCEPT !.claimed = TRUE]
  <2>1. /\ handler' = [handler EXCEPT ![t] = j]
        /\ info' = [info EXCEPT ![handler[t].g] = p]
        /\ UNCHANGED <<current, bundle>>
    BY <1>1, <1>0 DEF Claim, Working, Work, WorkAt
  <2>2. /\ "disconnect" \in Stages /\ t \in PeerThreads /\ handler[t] \in Jobs
    BY <1>1, <1>0, NoneIs
    DEF Stages, Reasons, PeerThreads, MessageThreads, AnyPeer,
       Epochs, JobTypes, PlaceTypes
  <2>3. /\ j \in Jobs /\ j.at = "disconnect" /\ j.g = handler[t].g
        /\ j.session = handler[t].session /\ j.own = handler[t].own
        /\ j.epoch = handler[t].epoch /\ j.why = handler[t].why
    BY RestingIs, <2>2 DEF Jobs
  <2> HIDE DEF j
  <2>4. /\ JobTypes'
        /\ Turns(t, "disconnect", handler[t].g, handler[t].session, handler[t].own,
                handler[t].epoch, handler[t].why)
    BY <1>0, GivenWork, <2>1, <2>2, <2>3
  <2>5. /\ handler[t].g \in Generations /\ info[handler[t].g] \in PeerRecord
        /\ TRUE \in BOOLEAN
    BY <1>1, <1>0, <2>1, NoneIs DEF InfoTypes, PlaceTypes, AnyPeer
  <2>6. /\ p \in PeerRecord /\ p.registered = info[handler[t].g].registered
        /\ p.active = info[handler[t].g].active
        /\ p.retired = info[handler[t].g].retired
        /\ p.terminal = info[handler[t].g].terminal
        /\ p.described = info[handler[t].g].described
        /\ p.session = info[handler[t].g].session
        /\ p.locals = info[handler[t].g].locals /\ p.sent = info[handler[t].g].sent
        /\ p.ended = info[handler[t].g].ended
    BY <2>5 DEF PeerRecord
  <2> HIDE DEF p
  <2>7. InfoTypes' /\ info'[handler[t].g] = p /\ Others(handler[t].g)
    BY <1>0, <2>1, <2>5, <2>6, PeerChanged
  <2> QED BY <1>1, <2>1, <2>4, <2>6, <2>7, <1>0 DEF Marks, Holds
<1>2. CASE ~(handler[t].epoch \in {0, latest} /\ current = handler[t].g
        /\ Admissible(handler[t].g, handler[t].session)
        /\ ~info[handler[t].g].claimed /\ ~Dying(handler[t].g))
  <2> DEFINE j == RestingJob
  <2>1. /\ handler' = [handler EXCEPT ![t] = j]
        /\ UNCHANGED <<current, info, bundle>>
    BY <1>2, <1>0 DEF Claim, Working, Work, WorkAt
  <2>2. /\ t \in PeerThreads
    BY <1>2, <1>0, NoneIs
    DEF Stages, Reasons, PeerThreads, MessageThreads, AnyPeer,
       Epochs, JobTypes, PlaceTypes
  <2>3. /\ j \in Jobs /\ j.at = "idle" /\ j.g = 0 /\ j.session = "" /\ j.own = ""
        /\ j.epoch = 0 /\ j.why = ""
    BY RestingIs
  <2> HIDE DEF j
  <2>4. JobTypes' /\ Turns(t, "idle", 0, "", "", 0, "")
    BY <1>0, GivenWork, <2>1, <2>2, <2>3
  <2> QED BY <1>2, <2>1, <2>4, <1>0 DEF InfoTypes
<1> QED BY <1>1, <1>2, <1>0 DEF Claim

LEMMA MarkRetiredDoes ==
  ASSUME RemoteTypes, NEW t \in PeerThreads, MarkRetired(t)
  PROVE
    /\ JobTypes' /\ InfoTypes'
    /\ handler[t].at = "retire" /\ handler[t].g \in Generations
    /\ Turns(t, "unlist", handler[t].g, handler[t].session, handler[t].own,
          handler[t].epoch, handler[t].why)
    /\ Others(handler[t].g)
    /\ Marks(handler[t].g, info[handler[t].g].registered, info[handler[t].g].active,
          TRUE, info[handler[t].g].terminal, info[handler[t].g].described)
    /\ Holds(handler[t].g, info[handler[t].g].session, info[handler[t].g].locals,
          info[handler[t].g].sent)
    /\ info'[handler[t].g].ended = info[handler[t].g].ended
    /\ UNCHANGED <<current, bundle>>
<1>0. JobTypes /\ InfoTypes /\ BundleTypes /\ PlaceTypes /\ JobInv
      /\ handler[t].at = "retire" /\ handler[t].g \in Generations
  BY DEF RemoteTypes, MarkRetired, Working, JobInv, Fetched, PeerThreads,
     MessageThreads
<1> DEFINE j == [handler[t] EXCEPT !.at = "unlist"]
           p == [info[handler[t].g] EXCEPT !.retired = TRUE]
<1>1. /\ handler' = [handler EXCEPT ![t] = j]
      /\ info' = [info EXCEPT ![handler[t].g] = p] /\ UNCHANGED <<current, bundle>>
  BY <1>0 DEF MarkRetired, Working, Work, WorkAt
<1>2. /\ "unlist" \in Stages /\ t \in PeerThreads /\ handler[t] \in Jobs
  BY <1>0, NoneIs
  DEF Stages, Reasons, PeerThreads, MessageThreads, AnyPeer, Epochs,
     JobTypes, PlaceTypes
<1>3. /\ j \in Jobs /\ j.at = "unlist" /\ j.g = handler[t].g
      /\ j.session = handler[t].session /\ j.own = handler[t].own
      /\ j.epoch = handler[t].epoch /\ j.why = handler[t].why
  BY RestingIs, <1>2 DEF Jobs
<1> HIDE DEF j
<1>4. /\ JobTypes'
      /\ Turns(t, "unlist", handler[t].g, handler[t].session, handler[t].own,
              handler[t].epoch, handler[t].why)
  BY <1>0, GivenWork, <1>1, <1>2, <1>3
<1>5. /\ handler[t].g \in Generations /\ info[handler[t].g] \in PeerRecord
      /\ TRUE \in BOOLEAN
  BY <1>0, <1>1, NoneIs DEF InfoTypes, PlaceTypes, AnyPeer
<1>6. /\ p \in PeerRecord /\ p.registered = info[handler[t].g].registered
      /\ p.active = info[handler[t].g].active /\ p.retired = TRUE
      /\ p.terminal = info[handler[t].g].terminal
      /\ p.described = info[handler[t].g].described
      /\ p.session = info[handler[t].g].session
      /\ p.locals = info[handler[t].g].locals /\ p.sent = info[handler[t].g].sent
      /\ p.ended = info[handler[t].g].ended
  BY <1>5 DEF PeerRecord
<1> HIDE DEF p
<1>7. InfoTypes' /\ info'[handler[t].g] = p /\ Others(handler[t].g)
  BY <1>0, <1>1, <1>5, <1>6, PeerChanged
<1> QED BY <1>1, <1>4, <1>6, <1>7, <1>0 DEF Marks, Holds

LEMMA UnlistDoes ==
  ASSUME RemoteTypes, NEW t \in PeerThreads, Unlist(t)
  PROVE
    /\ JobTypes' /\ InfoTypes' /\ BundleTypes'
    /\ handler[t].at = "unlist" /\ handler[t].g \in Generations
    /\ \/ /\ current = handler[t].g /\ handler[t].why = "offer" /\ current' = 0
          /\ Turns(t, "create", handler[t].g, handler[t].session, handler[t].own,
                handler[t].epoch, handler[t].why)
          /\ Taken(handler[t].g, handler[t].why, "")
          /\ Packs(handler[t].g, "", <<>>)
       \/ /\ current = handler[t].g /\ handler[t].why # "offer" /\ current' = 0
          /\ Turns(t, "idle", 0, "", "", 0, "")
          /\ Taken(handler[t].g, handler[t].why, "")
          /\ Packs(handler[t].g, "", <<>>)
       \/ /\ current # handler[t].g /\ handler[t].why = "offer"
          /\ Turns(t, "create", handler[t].g, handler[t].session, handler[t].own,
                handler[t].epoch, handler[t].why)
          /\ Others(handler[t].g)
          /\ Marks(handler[t].g, info[handler[t].g].registered, FALSE,
                info[handler[t].g].retired, info[handler[t].g].terminal,
                info[handler[t].g].described)
          /\ Holds(handler[t].g, info[handler[t].g].session,
                info[handler[t].g].locals, info[handler[t].g].sent)
          /\ info'[handler[t].g].ended = info[handler[t].g].ended
          /\ Packs(handler[t].g, "", <<>>) /\ UNCHANGED current
       \/ /\ current # handler[t].g /\ handler[t].why # "offer"
          /\ Turns(t, "idle", 0, "", "", 0, "") /\ Others(handler[t].g)
          /\ Marks(handler[t].g, info[handler[t].g].registered, FALSE,
                info[handler[t].g].retired, info[handler[t].g].terminal,
                info[handler[t].g].described)
          /\ Holds(handler[t].g, info[handler[t].g].session,
                info[handler[t].g].locals, info[handler[t].g].sent)
          /\ info'[handler[t].g].ended = info[handler[t].g].ended
          /\ Packs(handler[t].g, "", <<>>) /\ UNCHANGED current
<1>0. JobTypes /\ InfoTypes /\ BundleTypes /\ PlaceTypes /\ JobInv
      /\ handler[t].at = "unlist" /\ handler[t].g \in Generations
  BY DEF RemoteTypes, Unlist, Working, JobInv, Fetched, PeerThreads,
     MessageThreads
<1>1. CASE current = handler[t].g /\ handler[t].why = "offer"
  <2> DEFINE j == [handler[t] EXCEPT !.at = "create"]
             b == NoBundle
  <2>1. /\ handler' = [handler EXCEPT ![t] = j]
        /\ info' = TakenOut(handler[t].g, handler[t].why, "")
        /\ bundle' = [bundle EXCEPT ![handler[t].g] = b] /\ current' = 0
    BY <1>1, <1>0 DEF Unlist, Working, Work, WorkAt
  <2>2. /\ "create" \in Stages /\ t \in PeerThreads /\ handler[t] \in Jobs
    BY <1>1, <1>0, NoneIs
    DEF Stages, Reasons, PeerThreads, MessageThreads, AnyPeer,
       Epochs, JobTypes, PlaceTypes
  <2>3. /\ j \in Jobs /\ j.at = "create" /\ j.g = handler[t].g
        /\ j.session = handler[t].session /\ j.own = handler[t].own
        /\ j.epoch = handler[t].epoch /\ j.why = handler[t].why
    BY RestingIs, <2>2 DEF Jobs
  <2> HIDE DEF j
  <2>4. /\ JobTypes'
        /\ Turns(t, "create", handler[t].g, handler[t].session, handler[t].own,
                handler[t].epoch, handler[t].why)
    BY <1>0, GivenWork, <2>1, <2>2, <2>3
  <2>5. handler[t].g \in Generations /\ handler[t].why \in Reasons
          /\ "" \in PeerSessions
    BY <1>1, <1>0, <2>1, NoneIs
    DEF PlaceTypes, AnyPeer, Reasons, JobTypes, Jobs
  <2>6. InfoTypes' /\ Taken(handler[t].g, handler[t].why, "")
    BY <1>0, <2>1, <2>5, TakenOutIs
  <2>8. /\ handler[t].g \in Generations /\ b \in Bundles /\ b.session = ""
        /\ b.candidates = <<>>
    BY <1>1, <1>0, <2>1, NoneIs, NoBundleIs DEF PlaceTypes, AnyPeer
  <2> HIDE DEF b
  <2>9. BundleTypes' /\ Packs(handler[t].g, "", <<>>)
    BY <1>0, <2>1, <2>8, BundleChanged
  <2> QED BY <1>1, <2>1, <2>4, <2>6, <2>9, <1>0
<1>2. CASE current = handler[t].g /\ handler[t].why # "offer"
  <2> DEFINE j == RestingJob
             b == NoBundle
  <2>1. /\ handler' = [handler EXCEPT ![t] = j]
        /\ info' = TakenOut(handler[t].g, handler[t].why, "")
        /\ bundle' = [bundle EXCEPT ![handler[t].g] = b] /\ current' = 0
    BY <1>2, <1>0 DEF Unlist, Working, Work, WorkAt
  <2>2. /\ t \in PeerThreads
    BY <1>2, <1>0, NoneIs
    DEF Stages, Reasons, PeerThreads, MessageThreads, AnyPeer,
       Epochs, JobTypes, PlaceTypes
  <2>3. /\ j \in Jobs /\ j.at = "idle" /\ j.g = 0 /\ j.session = "" /\ j.own = ""
        /\ j.epoch = 0 /\ j.why = ""
    BY RestingIs
  <2> HIDE DEF j
  <2>4. JobTypes' /\ Turns(t, "idle", 0, "", "", 0, "")
    BY <1>0, GivenWork, <2>1, <2>2, <2>3
  <2>5. handler[t].g \in Generations /\ handler[t].why \in Reasons
          /\ "" \in PeerSessions
    BY <1>2, <1>0, <2>1, NoneIs
    DEF PlaceTypes, AnyPeer, Reasons, JobTypes, Jobs
  <2>6. InfoTypes' /\ Taken(handler[t].g, handler[t].why, "")
    BY <1>0, <2>1, <2>5, TakenOutIs
  <2>8. /\ handler[t].g \in Generations /\ b \in Bundles /\ b.session = ""
        /\ b.candidates = <<>>
    BY <1>2, <1>0, <2>1, NoneIs, NoBundleIs DEF PlaceTypes, AnyPeer
  <2> HIDE DEF b
  <2>9. BundleTypes' /\ Packs(handler[t].g, "", <<>>)
    BY <1>0, <2>1, <2>8, BundleChanged
  <2> QED BY <1>2, <2>1, <2>4, <2>6, <2>9, <1>0
<1>3. CASE current # handler[t].g /\ handler[t].why = "offer"
  <2> DEFINE j == [handler[t] EXCEPT !.at = "create"]
             p == [info[handler[t].g] EXCEPT !.active = FALSE]
             b == NoBundle
  <2>1. /\ handler' = [handler EXCEPT ![t] = j]
        /\ info' = [info EXCEPT ![handler[t].g] = p]
        /\ bundle' = [bundle EXCEPT ![handler[t].g] = b] /\ UNCHANGED <<current>>
    BY <1>3, <1>0 DEF Unlist, Working, Work, WorkAt
  <2>2. /\ "create" \in Stages /\ t \in PeerThreads /\ handler[t] \in Jobs
    BY <1>3, <1>0, NoneIs
    DEF Stages, Reasons, PeerThreads, MessageThreads, AnyPeer,
       Epochs, JobTypes, PlaceTypes
  <2>3. /\ j \in Jobs /\ j.at = "create" /\ j.g = handler[t].g
        /\ j.session = handler[t].session /\ j.own = handler[t].own
        /\ j.epoch = handler[t].epoch /\ j.why = handler[t].why
    BY RestingIs, <2>2 DEF Jobs
  <2> HIDE DEF j
  <2>4. /\ JobTypes'
        /\ Turns(t, "create", handler[t].g, handler[t].session, handler[t].own,
                handler[t].epoch, handler[t].why)
    BY <1>0, GivenWork, <2>1, <2>2, <2>3
  <2>5. /\ handler[t].g \in Generations /\ info[handler[t].g] \in PeerRecord
        /\ FALSE \in BOOLEAN
    BY <1>3, <1>0, <2>1, NoneIs
    DEF InfoTypes, PlaceTypes, AnyPeer, JobTypes, Jobs
  <2>6. /\ p \in PeerRecord /\ p.registered = info[handler[t].g].registered
        /\ p.active = FALSE /\ p.retired = info[handler[t].g].retired
        /\ p.terminal = info[handler[t].g].terminal
        /\ p.described = info[handler[t].g].described
        /\ p.session = info[handler[t].g].session
        /\ p.locals = info[handler[t].g].locals /\ p.sent = info[handler[t].g].sent
        /\ p.ended = info[handler[t].g].ended
    BY <2>5 DEF PeerRecord
  <2> HIDE DEF p
  <2>7. InfoTypes' /\ info'[handler[t].g] = p /\ Others(handler[t].g)
    BY <1>0, <2>1, <2>5, <2>6, PeerChanged
  <2>8. /\ handler[t].g \in Generations /\ b \in Bundles /\ b.session = ""
        /\ b.candidates = <<>>
    BY <1>3, <1>0, <2>1, NoneIs, NoBundleIs DEF PlaceTypes, AnyPeer
  <2> HIDE DEF b
  <2>9. BundleTypes' /\ Packs(handler[t].g, "", <<>>)
    BY <1>0, <2>1, <2>8, BundleChanged
  <2> QED BY <1>3, <2>1, <2>4, <2>6, <2>7, <2>9, <1>0 DEF Marks, Holds
<1>4. CASE current # handler[t].g /\ handler[t].why # "offer"
  <2> DEFINE j == RestingJob
             p == [info[handler[t].g] EXCEPT !.active = FALSE]
             b == NoBundle
  <2>1. /\ handler' = [handler EXCEPT ![t] = j]
        /\ info' = [info EXCEPT ![handler[t].g] = p]
        /\ bundle' = [bundle EXCEPT ![handler[t].g] = b] /\ UNCHANGED <<current>>
    BY <1>4, <1>0 DEF Unlist, Working, Work, WorkAt
  <2>2. /\ t \in PeerThreads
    BY <1>4, <1>0, NoneIs
    DEF Stages, Reasons, PeerThreads, MessageThreads, AnyPeer,
       Epochs, JobTypes, PlaceTypes
  <2>3. /\ j \in Jobs /\ j.at = "idle" /\ j.g = 0 /\ j.session = "" /\ j.own = ""
        /\ j.epoch = 0 /\ j.why = ""
    BY RestingIs
  <2> HIDE DEF j
  <2>4. JobTypes' /\ Turns(t, "idle", 0, "", "", 0, "")
    BY <1>0, GivenWork, <2>1, <2>2, <2>3
  <2>5. /\ handler[t].g \in Generations /\ info[handler[t].g] \in PeerRecord
        /\ FALSE \in BOOLEAN
    BY <1>4, <1>0, <2>1, NoneIs
    DEF InfoTypes, PlaceTypes, AnyPeer, JobTypes, Jobs
  <2>6. /\ p \in PeerRecord /\ p.registered = info[handler[t].g].registered
        /\ p.active = FALSE /\ p.retired = info[handler[t].g].retired
        /\ p.terminal = info[handler[t].g].terminal
        /\ p.described = info[handler[t].g].described
        /\ p.session = info[handler[t].g].session
        /\ p.locals = info[handler[t].g].locals /\ p.sent = info[handler[t].g].sent
        /\ p.ended = info[handler[t].g].ended
    BY <2>5 DEF PeerRecord
  <2> HIDE DEF p
  <2>7. InfoTypes' /\ info'[handler[t].g] = p /\ Others(handler[t].g)
    BY <1>0, <2>1, <2>5, <2>6, PeerChanged
  <2>8. /\ handler[t].g \in Generations /\ b \in Bundles /\ b.session = ""
        /\ b.candidates = <<>>
    BY <1>4, <1>0, <2>1, NoneIs, NoBundleIs DEF PlaceTypes, AnyPeer
  <2> HIDE DEF b
  <2>9. BundleTypes' /\ Packs(handler[t].g, "", <<>>)
    BY <1>0, <2>1, <2>8, BundleChanged
  <2> QED BY <1>4, <2>1, <2>4, <2>6, <2>7, <2>9, <1>0 DEF Marks, Holds
<1> QED BY <1>1, <1>2, <1>3, <1>4, <1>0 DEF Unlist

LEMMA EraseQueueDoes ==
  ASSUME RemoteTypes, NEW t \in PeerThreads, EraseQueue(t)
  PROVE
    /\ JobTypes' /\ handler[t].at = "disconnect"
    /\ Turns(t, "remove", handler[t].g, handler[t].session, handler[t].own,
          handler[t].epoch, handler[t].why)
    /\ UNCHANGED <<current, info, bundle>>
<1>0. JobTypes /\ InfoTypes /\ BundleTypes /\ PlaceTypes /\ JobInv
      /\ handler[t].at = "disconnect"
  BY DEF RemoteTypes, EraseQueue, Working, JobInv, Fetched, PeerThreads,
     MessageThreads
<1> DEFINE j == [handler[t] EXCEPT !.at = "remove"]
<1>1. /\ handler' = [handler EXCEPT ![t] = j] /\ UNCHANGED <<current, info, bundle>>
  BY <1>0 DEF EraseQueue, Working, Work, WorkAt
<1>2. /\ "remove" \in Stages /\ t \in PeerThreads /\ handler[t] \in Jobs
  BY <1>0, NoneIs
  DEF Stages, Reasons, PeerThreads, MessageThreads, AnyPeer, Epochs,
     JobTypes, PlaceTypes
<1>3. /\ j \in Jobs /\ j.at = "remove" /\ j.g = handler[t].g
      /\ j.session = handler[t].session /\ j.own = handler[t].own
      /\ j.epoch = handler[t].epoch /\ j.why = handler[t].why
  BY RestingIs, <1>2 DEF Jobs
<1> HIDE DEF j
<1>4. /\ JobTypes'
      /\ Turns(t, "remove", handler[t].g, handler[t].session, handler[t].own,
              handler[t].epoch, handler[t].why)
  BY <1>0, GivenWork, <1>1, <1>2, <1>3
<1> QED BY <1>1, <1>4, <1>0

LEMMA RemovePeerDoes ==
  ASSUME RemoteTypes, NEW t \in PeerThreads, RemovePeer(t)
  PROVE
    /\ JobTypes' /\ InfoTypes' /\ handler[t].at = "remove"
    /\ \/ /\ Meant(handler[t]) /\ current' = 0 /\ current # 0
          /\ Turns(t, "retire", current, handler[t].session, handler[t].own,
                handler[t].epoch, handler[t].why)
          /\ Taken(current, handler[t].why, handler[t].session) /\ UNCHANGED bundle
       \/ /\ ~Meant(handler[t]) /\ Turns(t, "idle", 0, "", "", 0, "")
          /\ UNCHANGED <<current, info, bundle>>
<1>0. JobTypes /\ InfoTypes /\ BundleTypes /\ PlaceTypes /\ JobInv
      /\ handler[t].at = "remove"
  BY DEF RemoteTypes, RemovePeer, Working, JobInv, Fetched, PeerThreads,
     MessageThreads
<1>1. CASE Meant(handler[t])
  <2> DEFINE j == [handler[t] EXCEPT !.at = "retire", !.g = current]
  <2>1. /\ handler' = [handler EXCEPT ![t] = j]
        /\ info' = TakenOut(current, handler[t].why, handler[t].session)
        /\ UNCHANGED <<bundle>> /\ current' = 0 /\ current # 0
    BY <1>1, <1>0 DEF RemovePeer, Working, Work, WorkAt, Meant
  <2>2. /\ "retire" \in Stages /\ current \in AnyPeer /\ t \in PeerThreads
        /\ handler[t] \in Jobs
    BY <1>1, <1>0, NoneIs
    DEF Stages, Reasons, PeerThreads, MessageThreads, AnyPeer,
       Epochs, JobTypes, PlaceTypes
  <2>3. /\ j \in Jobs /\ j.at = "retire" /\ j.g = current
        /\ j.session = handler[t].session /\ j.own = handler[t].own
        /\ j.epoch = handler[t].epoch /\ j.why = handler[t].why
    BY RestingIs, <2>2 DEF Jobs
  <2> HIDE DEF j
  <2>4. /\ JobTypes'
        /\ Turns(t, "retire", current, handler[t].session, handler[t].own,
                handler[t].epoch, handler[t].why)
    BY <1>0, GivenWork, <2>1, <2>2, <2>3
  <2>5. current \in Generations /\ handler[t].why \in Reasons
          /\ handler[t].session \in PeerSessions
    BY <1>1, <1>0, <2>1, NoneIs
    DEF PlaceTypes, AnyPeer, Reasons, JobTypes, Jobs
  <2>6. InfoTypes' /\ Taken(current, handler[t].why, handler[t].session)
    BY <1>0, <2>1, <2>5, TakenOutIs
  <2> QED BY <1>1, <2>1, <2>4, <2>6, <1>0
<1>2. CASE ~Meant(handler[t])
  <2> DEFINE j == RestingJob
  <2>1. /\ handler' = [handler EXCEPT ![t] = j]
        /\ UNCHANGED <<current, info, bundle>>
    BY <1>2, <1>0 DEF RemovePeer, Working, Work, WorkAt
  <2>2. /\ t \in PeerThreads
    BY <1>2, <1>0, NoneIs
    DEF Stages, Reasons, PeerThreads, MessageThreads, AnyPeer,
       Epochs, JobTypes, PlaceTypes
  <2>3. /\ j \in Jobs /\ j.at = "idle" /\ j.g = 0 /\ j.session = "" /\ j.own = ""
        /\ j.epoch = 0 /\ j.why = ""
    BY RestingIs
  <2> HIDE DEF j
  <2>4. JobTypes' /\ Turns(t, "idle", 0, "", "", 0, "")
    BY <1>0, GivenWork, <2>1, <2>2, <2>3
  <2> QED BY <1>2, <2>1, <2>4, <1>0 DEF InfoTypes
<1> QED BY <1>1, <1>2, <1>0 DEF RemovePeer

LEMMA StateEndsDoes ==
  ASSUME RemoteTypes, NEW g \in Generations, StateEnds(g)
  PROVE
    /\ JobTypes' /\ InfoTypes' /\ handler["rtc"].at = "idle" /\ g = current
    /\ Turns("rtc", "retire", g, "", "", 0, "state") /\ Others(g)
    /\ Marks(g, info[g].registered, info[g].active, info[g].retired, TRUE,
          info[g].described)
    /\ Holds(g, info[g].session, info[g].locals, info[g].sent)
    /\ info'[g].ended = info[g].ended /\ UNCHANGED <<current, bundle>>
<1>0. JobTypes /\ InfoTypes /\ BundleTypes /\ PlaceTypes /\ JobInv
      /\ handler["rtc"].at = "idle"
  BY DEF RemoteTypes, StateEnds, Working, JobInv, Fetched, PeerThreads,
     MessageThreads
<1> DEFINE j == [RestingJob EXCEPT !.at = "retire", !.g = g, !.why = "state"]
           p == [info[g] EXCEPT !.terminal = TRUE]
<1>1. /\ handler' = [handler EXCEPT !["rtc"] = j] /\ info' = [info EXCEPT ![g] = p]
      /\ UNCHANGED <<current, bundle>> /\ g = current
  BY <1>0 DEF StateEnds, Working, Work, WorkAt
<1>2. /\ "retire" \in Stages /\ g \in AnyPeer /\ "state" \in Reasons
      /\ "rtc" \in PeerThreads
  BY <1>0, NoneIs
  DEF Stages, Reasons, PeerThreads, MessageThreads, AnyPeer, Epochs,
     JobTypes, PlaceTypes
<1>3. /\ j \in Jobs /\ j.at = "retire" /\ j.g = g /\ j.session = "" /\ j.own = ""
      /\ j.epoch = 0 /\ j.why = "state"
  BY RestingIs, <1>2 DEF Jobs
<1> HIDE DEF j
<1>4. JobTypes' /\ Turns("rtc", "retire", g, "", "", 0, "state")
  BY <1>0, GivenWork, <1>1, <1>2, <1>3
<1>5. /\ g \in Generations /\ info[g] \in PeerRecord /\ TRUE \in BOOLEAN
  BY <1>0, <1>1, NoneIs DEF InfoTypes, PlaceTypes, AnyPeer
<1>6. /\ p \in PeerRecord /\ p.registered = info[g].registered
      /\ p.active = info[g].active /\ p.retired = info[g].retired
      /\ p.terminal = TRUE /\ p.described = info[g].described
      /\ p.session = info[g].session /\ p.locals = info[g].locals
      /\ p.sent = info[g].sent /\ p.ended = info[g].ended
  BY <1>5 DEF PeerRecord
<1> HIDE DEF p
<1>7. InfoTypes' /\ info'[g] = p /\ Others(g)
  BY <1>0, <1>1, <1>5, <1>6, PeerChanged
<1> QED BY <1>1, <1>4, <1>6, <1>7, <1>0 DEF Marks, Holds

LEMMA LocalCandidateDoes ==
  ASSUME RemoteTypes, NEW g \in Generations, LocalCandidate(g)
  PROVE
    /\ JobTypes' /\ InfoTypes' /\ BundleTypes' /\ handler["rtc"].at = "idle"
    /\ \/ /\ Dying(g) /\ UNCHANGED <<handler, current, info, bundle>>
       \/ /\ ~Dying(g) /\ info[g].described
          /\ Turns("rtc", "send", g, "", "", 0, "") /\ Others(g)
          /\ Marks(g, info[g].registered, info[g].active, info[g].retired,
                info[g].terminal, info[g].described)
          /\ Holds(g, info[g].session, info[g].locals + 1, info[g].sent)
          /\ info'[g].ended = info[g].ended
          /\ Packs(g, info[g].session, Append(bundle[g].candidates, info[g].locals +
                1))
          /\ UNCHANGED current
<1>0. JobTypes /\ InfoTypes /\ BundleTypes /\ PlaceTypes /\ JobInv
      /\ handler["rtc"].at = "idle"
  BY DEF RemoteTypes, LocalCandidate, Working, JobInv, Fetched, PeerThreads,
     MessageThreads
<1>1. CASE Dying(g)
  <2>1. /\ UNCHANGED <<handler, current, info, bundle>>
    BY <1>1, <1>0 DEF LocalCandidate, Working, Work, WorkAt
  <2> QED BY <1>1, <2>1, <1>0 DEF JobTypes, InfoTypes, BundleTypes
<1>2. CASE ~Dying(g)
  <2> DEFINE j == [RestingJob EXCEPT !.at = "send", !.g = g]
             p == [info[g] EXCEPT !.locals = info[g].locals + 1]
             b == [session |-> info[g].session,
                     candidates |-> Append(bundle[g].candidates, info[g].locals + 1)]
  <2>1. /\ handler' = [handler EXCEPT !["rtc"] = j]
        /\ info' = [info EXCEPT ![g] = p] /\ bundle' = [bundle EXCEPT ![g] = b]
        /\ UNCHANGED <<current>> /\ info[g].described
    BY <1>2, <1>0 DEF LocalCandidate, Working, Work, WorkAt
  <2>2. /\ "send" \in Stages /\ g \in AnyPeer /\ "rtc" \in PeerThreads
    BY <1>2, <1>0, NoneIs
    DEF Stages, Reasons, PeerThreads, MessageThreads, AnyPeer,
       Epochs, JobTypes, PlaceTypes
  <2>3. /\ j \in Jobs /\ j.at = "send" /\ j.g = g /\ j.session = "" /\ j.own = ""
        /\ j.epoch = 0 /\ j.why = ""
    BY RestingIs, <2>2 DEF Jobs
  <2> HIDE DEF j
  <2>4. JobTypes' /\ Turns("rtc", "send", g, "", "", 0, "")
    BY <1>0, GivenWork, <2>1, <2>2, <2>3
  <2>5. /\ g \in Generations /\ info[g] \in PeerRecord /\ info[g].locals + 1 \in Nat
    BY <1>2, <1>0, <2>1, NoneIs, PeerFields, NumbersAdded
    DEF InfoTypes, PlaceTypes,
       AnyPeer
  <2>6. /\ p \in PeerRecord /\ p.registered = info[g].registered
        /\ p.active = info[g].active /\ p.retired = info[g].retired
        /\ p.terminal = info[g].terminal /\ p.described = info[g].described
        /\ p.session = info[g].session /\ p.locals = info[g].locals + 1
        /\ p.sent = info[g].sent /\ p.ended = info[g].ended
    BY <2>5 DEF PeerRecord
  <2> HIDE DEF p
  <2>7. InfoTypes' /\ info'[g] = p /\ Others(g)
    BY <1>0, <2>1, <2>5, <2>6, PeerChanged
  <2>8. /\ g \in Generations /\ b \in Bundles /\ b.session = info[g].session
        /\ b.candidates = Append(bundle[g].candidates, info[g].locals + 1)
    BY <1>2, <1>0, <2>1, NoneIs, NoBundleIs, PeerFields, BundleFields,
       NumbersAdded
       DEF PlaceTypes, AnyPeer, Bundles
  <2> HIDE DEF b
  <2>9. /\ BundleTypes'
        /\ Packs(g, info[g].session, Append(bundle[g].candidates, info[g].locals + 1))
    BY <1>0, <2>1, <2>8, BundleChanged
  <2> QED BY <1>2, <2>1, <2>4, <2>6, <2>7, <2>9, <1>0 DEF Marks, Holds
<1> QED BY <1>1, <1>2, <1>0 DEF LocalCandidate

LEMMA SendCandidatesDoes ==
  ASSUME RemoteTypes, SendCandidates
  PROVE
    /\ JobTypes' /\ InfoTypes' /\ BundleTypes'
    /\ handler["rtc"].at = "send" /\ handler["rtc"].g \in Generations
    /\ \/ /\ MaySend(handler["rtc"].g) /\ Turns("rtc", "idle", 0, "", "", 0, "")
          /\ Others(handler["rtc"].g)
          /\ Marks(handler["rtc"].g, info[handler["rtc"].g].registered,
                info[handler["rtc"].g].active, info[handler["rtc"].g].retired,
                info[handler["rtc"].g].terminal, info[handler["rtc"].g].described)
          /\ Holds(handler["rtc"].g, info[handler["rtc"].g].session,
                info[handler["rtc"].g].locals, info[handler["rtc"].g].sent \o
                bundle[handler["rtc"].g].candidates)
          /\ info'[handler["rtc"].g].ended = info[handler["rtc"].g].ended
          /\ Packs(handler["rtc"].g, "", <<>>) /\ UNCHANGED current
       \/ /\ ~MaySend(handler["rtc"].g) /\ Turns("rtc", "idle", 0, "", "", 0, "")
          /\ UNCHANGED <<current, info, bundle>>
<1>0. JobTypes /\ InfoTypes /\ BundleTypes /\ PlaceTypes /\ JobInv
      /\ handler["rtc"].at = "send" /\ handler["rtc"].g \in Generations
  BY DEF RemoteTypes, SendCandidates, Working, JobInv, Fetched, PeerThreads,
     MessageThreads
<1>1. CASE MaySend(handler["rtc"].g)
  <2> DEFINE j == RestingJob
             p == [info[handler["rtc"].g] EXCEPT
                     !.sent = info[handler["rtc"].g].sent \o bundle[handler["rtc"].g].candidates]
             b == NoBundle
  <2>1. /\ handler' = [handler EXCEPT !["rtc"] = j]
        /\ info' = [info EXCEPT ![handler["rtc"].g] = p]
        /\ bundle' = [bundle EXCEPT ![handler["rtc"].g] = b]
        /\ UNCHANGED <<current>>
    BY <1>1, <1>0 DEF SendCandidates, Working, Work, WorkAt
  <2>2. /\ "rtc" \in PeerThreads
    BY <1>1, <1>0, NoneIs
    DEF Stages, Reasons, PeerThreads, MessageThreads, AnyPeer,
       Epochs, JobTypes, PlaceTypes
  <2>3. /\ j \in Jobs /\ j.at = "idle" /\ j.g = 0 /\ j.session = "" /\ j.own = ""
        /\ j.epoch = 0 /\ j.why = ""
    BY RestingIs
  <2> HIDE DEF j
  <2>4. JobTypes' /\ Turns("rtc", "idle", 0, "", "", 0, "")
    BY <1>0, GivenWork, <2>1, <2>2, <2>3
  <2>5. /\ handler["rtc"].g \in Generations /\ info[handler["rtc"].g] \in PeerRecord
        /\ info[handler["rtc"].g].sent \o bundle[handler["rtc"].g].candidates \in
              Seq(Nat)
    BY <1>1, <1>0, <2>1, NoneIs, PeerFields, BundleFields, NumbersAdded
    DEF InfoTypes,
       PlaceTypes, AnyPeer
  <2>6. /\ p \in PeerRecord /\ p.registered = info[handler["rtc"].g].registered
        /\ p.active = info[handler["rtc"].g].active
        /\ p.retired = info[handler["rtc"].g].retired
        /\ p.terminal = info[handler["rtc"].g].terminal
        /\ p.described = info[handler["rtc"].g].described
        /\ p.session = info[handler["rtc"].g].session
        /\ p.locals = info[handler["rtc"].g].locals
        /\ p.sent = info[handler["rtc"].g].sent \o bundle[handler["rtc"].g].candidates
        /\ p.ended = info[handler["rtc"].g].ended
    BY <2>5 DEF PeerRecord
  <2> HIDE DEF p
  <2>7. InfoTypes' /\ info'[handler["rtc"].g] = p /\ Others(handler["rtc"].g)
    BY <1>0, <2>1, <2>5, <2>6, PeerChanged
  <2>8. /\ handler["rtc"].g \in Generations /\ b \in Bundles /\ b.session = ""
        /\ b.candidates = <<>>
    BY <1>1, <1>0, <2>1, NoneIs, NoBundleIs DEF PlaceTypes, AnyPeer
  <2> HIDE DEF b
  <2>9. BundleTypes' /\ Packs(handler["rtc"].g, "", <<>>)
    BY <1>0, <2>1, <2>8, BundleChanged
  <2> QED BY <1>1, <2>1, <2>4, <2>6, <2>7, <2>9, <1>0 DEF Marks, Holds
<1>2. CASE ~MaySend(handler["rtc"].g)
  <2> DEFINE j == RestingJob
  <2>1. /\ handler' = [handler EXCEPT !["rtc"] = j]
        /\ UNCHANGED <<current, info, bundle>>
    BY <1>2, <1>0 DEF SendCandidates, Working, Work, WorkAt
  <2>2. /\ "rtc" \in PeerThreads
    BY <1>2, <1>0, NoneIs
    DEF Stages, Reasons, PeerThreads, MessageThreads, AnyPeer,
       Epochs, JobTypes, PlaceTypes
  <2>3. /\ j \in Jobs /\ j.at = "idle" /\ j.g = 0 /\ j.session = "" /\ j.own = ""
        /\ j.epoch = 0 /\ j.why = ""
    BY RestingIs
  <2> HIDE DEF j
  <2>4. JobTypes' /\ Turns("rtc", "idle", 0, "", "", 0, "")
    BY <1>0, GivenWork, <2>1, <2>2, <2>3
  <2> QED BY <1>2, <2>1, <2>4, <1>0 DEF InfoTypes, BundleTypes
<1> QED BY <1>1, <1>2, <1>0 DEF SendCandidates

LEMMA OwnerDisconnectsDoes ==
  ASSUME RemoteTypes, OwnerDisconnects
  PROVE
    /\ JobTypes' /\ Turns("owner", "disconnect", 0, "", "", 0, "owner")
    /\ UNCHANGED <<current, info, bundle>>
<1>0. JobTypes /\ InfoTypes /\ BundleTypes /\ PlaceTypes /\ JobInv
  BY DEF RemoteTypes, OwnerDisconnects, Working, JobInv, Fetched, PeerThreads,
     MessageThreads
<1> DEFINE j == [RestingJob EXCEPT !.at = "disconnect", !.why = "owner"]
<1>1. /\ handler' = [handler EXCEPT !["owner"] = j]
      /\ UNCHANGED <<current, info, bundle>>
  BY <1>0 DEF OwnerDisconnects, Working, Work, WorkAt
<1>2. /\ "disconnect" \in Stages /\ "owner" \in Reasons /\ "owner" \in PeerThreads
  BY <1>0, NoneIs
  DEF Stages, Reasons, PeerThreads, MessageThreads, AnyPeer, Epochs,
     JobTypes, PlaceTypes
<1>3. /\ j \in Jobs /\ j.at = "disconnect" /\ j.g = 0 /\ j.session = ""
      /\ j.own = "" /\ j.epoch = 0 /\ j.why = "owner"
  BY RestingIs, <1>2 DEF Jobs
<1> HIDE DEF j
<1>4. JobTypes' /\ Turns("owner", "disconnect", 0, "", "", 0, "owner")
  BY <1>0, GivenWork, <1>1, <1>2, <1>3
<1> QED BY <1>1, <1>4

LEMMA StopViewingDoes ==
  ASSUME RemoteTypes, StopViewing
  PROVE
    /\ JobTypes' /\ InfoTypes' /\ BundleTypes' /\ current # 0 /\ current' = 0
    /\ Turns("owner", "retire", current, "", "", 0, "owner")
    /\ Taken(current, "owner", "") /\ Packs(current, "", <<>>)
<1>0. JobTypes /\ InfoTypes /\ BundleTypes /\ PlaceTypes /\ JobInv
  BY DEF RemoteTypes, StopViewing, Working, JobInv, Fetched, PeerThreads,
     MessageThreads
<1> DEFINE j == [RestingJob EXCEPT !.at = "retire", !.g = current, !.why = "owner"]
           b == NoBundle
<1>1. /\ handler' = [handler EXCEPT !["owner"] = j]
      /\ info' = TakenOut(current, "owner", "")
      /\ bundle' = [bundle EXCEPT ![current] = b] /\ current # 0 /\ current' = 0
  BY <1>0 DEF StopViewing, Working, Work, WorkAt
<1>2. /\ "retire" \in Stages /\ current \in AnyPeer /\ "owner" \in Reasons
      /\ "owner" \in PeerThreads
  BY <1>0, NoneIs
  DEF Stages, Reasons, PeerThreads, MessageThreads, AnyPeer, Epochs,
     JobTypes, PlaceTypes
<1>3. /\ j \in Jobs /\ j.at = "retire" /\ j.g = current /\ j.session = ""
      /\ j.own = "" /\ j.epoch = 0 /\ j.why = "owner"
  BY RestingIs, <1>2 DEF Jobs
<1> HIDE DEF j
<1>4. JobTypes' /\ Turns("owner", "retire", current, "", "", 0, "owner")
  BY <1>0, GivenWork, <1>1, <1>2, <1>3
<1>5. current \in Generations /\ "owner" \in Reasons /\ "" \in PeerSessions
  BY <1>0, <1>1, NoneIs DEF PlaceTypes, AnyPeer, Reasons
<1>6. InfoTypes' /\ Taken(current, "owner", "")
  BY <1>0, <1>1, <1>5, TakenOutIs
<1>8. /\ current \in Generations /\ b \in Bundles /\ b.session = ""
      /\ b.candidates = <<>>
  BY <1>0, <1>1, NoneIs, NoBundleIs DEF PlaceTypes, AnyPeer
<1> HIDE DEF b
<1>9. BundleTypes' /\ Packs(current, "", <<>>)
  BY <1>0, <1>1, <1>8, BundleChanged
<1> QED BY <1>1, <1>4, <1>6, <1>9
(***************************************************************************)
(* Types.                                                                  *)
(***************************************************************************)

\* JobInv, when one thread's work changes.
LEMMA JobKept ==
  ASSUME JobInv, NEW t \in PeerThreads, NEW at, NEW g, NEW session, NEW own, NEW epoch,
          NEW why,
         Turns(t, at, g, session, own, epoch, why),
         at \in Fetched => g \in Generations, at \in Ending => why # "",
         at = "claim" => why = "cleanup", at = "send" => t = "rtc"
  PROVE  JobInv'
BY DEF JobInv, Turns

\* The present peer and the epoch stay in their sets.
LEMMA PlaceStep == RemoteTypes /\ [RemoteNext]_remoteVars => PlaceTypes'
<1> SUFFICES ASSUME RemoteTypes, [RemoteNext]_remoteVars PROVE PlaceTypes'
  OBVIOUS
<1> USE DEF Working, Work, WorkAt, PeerThreads, MessageThreads
<1>1. CASE UNCHANGED remoteVars
  BY <1>1, NoneIs DEF remoteVars, RemoteTypes, PlaceTypes, JobInv, AnyPeer,
     Epochs, Fetched
<1>2. CASE RemoteNext
  <2>1. ASSUME NEW t \in MessageThreads, NEW s \in PeerSessions,
               Candidate(t, s) \/ ClaimIdentity(t, s)
        PROVE  PlaceTypes'
    <3>1. UNCHANGED <<current, latest>>
      BY <2>1 DEF Candidate, ClaimIdentity
    <3> QED BY <3>1 DEF RemoteTypes, PlaceTypes
  <2>2. ASSUME NEW t \in PeerThreads,
               MarkRetired(t) \/ EraseQueue(t)
        PROVE  PlaceTypes'
    <3>1. UNCHANGED <<current, latest>>
      BY <2>2 DEF MarkRetired, EraseQueue
    <3> QED BY <3>1 DEF RemoteTypes, PlaceTypes
  <2>3. ASSUME NEW g \in Generations,
               StateEnds(g) \/ LocalCandidate(g)
        PROVE  PlaceTypes'
    <3>1. UNCHANGED <<current, latest>>
      BY <2>3 DEF StateEnds, LocalCandidate
    <3> QED BY <3>1 DEF RemoteTypes, PlaceTypes
  <2>4. ASSUME CandidateLost \/ OwnerDisconnects
        PROVE  PlaceTypes'
    <3>1. UNCHANGED <<current, latest>>
      BY <2>4 DEF CandidateLost, OwnerDisconnects
    <3> QED BY <3>1 DEF RemoteTypes, PlaceTypes
  <2>5. ASSUME NEW t \in MessageThreads, NEW s \in PeerSessions, Offered(t, s)
        PROVE  PlaceTypes'
    BY <2>5, NoneIs DEF Offered, RemoteTypes, PlaceTypes, JobInv, AnyPeer,
       Epochs, Fetched
  <2>6. ASSUME NEW t \in MessageThreads, NEW s \in PeerSessions, NEW epoch \in 0..2,
          Cleanup(t, s, epoch)
        PROVE  PlaceTypes'
    BY <2>6, NoneIs DEF Cleanup, RemoteTypes, PlaceTypes, JobInv, AnyPeer,
       Epochs, Fetched
  <2>7. ASSUME NEW t \in MessageThreads, LookAtPeer(t) PROVE PlaceTypes'
    BY <2>7, NoneIs DEF LookAtPeer, RemoteTypes, PlaceTypes, JobInv, AnyPeer,
       Epochs, Fetched
  <2>8. ASSUME NEW t \in MessageThreads, PushCandidate(t) PROVE PlaceTypes'
    BY <2>8, NoneIs DEF PushCandidate, RemoteTypes, PlaceTypes, JobInv,
       AnyPeer, Epochs, Fetched
  <2>9. ASSUME NEW t \in MessageThreads, CreatePeer(t) PROVE PlaceTypes'
    BY <2>9, CreatePeerDoes, NoneIs DEF CreatePeer, RemoteTypes, PlaceTypes,
       JobInv, AnyPeer, Epochs, Fetched
  <2>10. ASSUME NEW t \in MessageThreads, SetSession(t) PROVE PlaceTypes'
    BY <2>10, NoneIs DEF SetSession, RemoteTypes, PlaceTypes, JobInv, AnyPeer,
       Epochs, Fetched
  <2>11. ASSUME NEW t \in MessageThreads, Describe(t) PROVE PlaceTypes'
    BY <2>11, NoneIs DEF Describe, RemoteTypes, PlaceTypes, JobInv, AnyPeer,
       Epochs, Fetched
  <2>12. ASSUME NEW t \in MessageThreads, Drain(t) PROVE PlaceTypes'
    BY <2>12, NoneIs DEF Drain, RemoteTypes, PlaceTypes, JobInv, AnyPeer,
       Epochs, Fetched
  <2>13. ASSUME NEW t \in MessageThreads, Claim(t) PROVE PlaceTypes'
    BY <2>13, NoneIs DEF Claim, RemoteTypes, PlaceTypes, JobInv, AnyPeer,
       Epochs, Fetched
  <2>14. ASSUME NEW t \in PeerThreads, Unlist(t) PROVE PlaceTypes'
    BY <2>14, NoneIs DEF Unlist, RemoteTypes, PlaceTypes, JobInv, AnyPeer,
       Epochs, Fetched
  <2>15. ASSUME NEW t \in PeerThreads, RemovePeer(t) PROVE PlaceTypes'
    BY <2>15, NoneIs DEF RemovePeer, RemoteTypes, PlaceTypes, JobInv, AnyPeer,
       Epochs, Fetched
  <2>16. ASSUME SendCandidates PROVE PlaceTypes'
    BY <2>16, NoneIs DEF SendCandidates, RemoteTypes, PlaceTypes, JobInv,
       AnyPeer, Epochs, Fetched
  <2>17. ASSUME StopViewing PROVE PlaceTypes'
    BY <2>17, NoneIs DEF StopViewing, RemoteTypes, PlaceTypes, JobInv,
       AnyPeer, Epochs, Fetched
  <2> QED
    BY <1>2, <2>1, <2>2, <2>3, <2>4, <2>5, <2>6, <2>7, <2>8, <2>9, <2>10,
       <2>11, <2>12, <2>13, <2>14, <2>15, <2>16, <2>17 DEF RemoteNext
<1> QED BY <1>1, <1>2

\* Every thread's work stays a job.
LEMMA JobTypesStep == RemoteTypes /\ [RemoteNext]_remoteVars => JobTypes'
<1> SUFFICES ASSUME RemoteTypes, [RemoteNext]_remoteVars PROVE JobTypes'
  OBVIOUS
<1>0. RemoteTypes
  OBVIOUS
<1>1. CASE UNCHANGED remoteVars
  BY <1>1 DEF remoteVars, RemoteTypes, JobTypes
<1>2. CASE RemoteNext
  <2>1. ASSUME NEW t \in MessageThreads, NEW s \in PeerSessions, Candidate(t,
               s)
        PROVE  JobTypes'
    BY <1>0, <2>1, CandidateDoes DEF RemoteTypes, JobTypes
  <2>2. ASSUME NEW t \in MessageThreads, NEW s \in PeerSessions, Offered(t, s)
        PROVE  JobTypes'
    BY <1>0, <2>2, OfferedDoes DEF RemoteTypes, JobTypes
  <2>3. ASSUME NEW t \in MessageThreads, NEW s \in PeerSessions,
               ClaimIdentity(t, s)
        PROVE  JobTypes'
    BY <1>0, <2>3, ClaimIdentityDoes DEF RemoteTypes, JobTypes
  <2>4. ASSUME NEW t \in MessageThreads, NEW s \in PeerSessions,
               NEW epoch \in 0..2, Cleanup(t, s, epoch)
        PROVE  JobTypes'
    BY <1>0, <2>4, CleanupDoes DEF RemoteTypes, JobTypes
  <2>5. ASSUME NEW t \in MessageThreads, LookAtPeer(t) PROVE JobTypes'
    BY <1>0, <2>5, LookAtPeerDoes DEF RemoteTypes, JobTypes
  <2>6. ASSUME NEW t \in MessageThreads, PushCandidate(t) PROVE JobTypes'
    BY <1>0, <2>6, PushCandidateDoes DEF RemoteTypes, JobTypes
  <2>7. ASSUME NEW t \in MessageThreads, CreatePeer(t) PROVE JobTypes'
    BY <1>0, <2>7, CreatePeerDoes DEF RemoteTypes, JobTypes
  <2>8. ASSUME NEW t \in MessageThreads, SetSession(t) PROVE JobTypes'
    BY <1>0, <2>8, SetSessionDoes DEF RemoteTypes, JobTypes
  <2>9. ASSUME NEW t \in MessageThreads, Describe(t) PROVE JobTypes'
    BY <1>0, <2>9, DescribeDoes DEF RemoteTypes, JobTypes
  <2>10. ASSUME NEW t \in MessageThreads, Drain(t) PROVE JobTypes'
    BY <1>0, <2>10, DrainDoes DEF RemoteTypes, JobTypes
  <2>11. ASSUME NEW t \in MessageThreads, Claim(t) PROVE JobTypes'
    BY <1>0, <2>11, ClaimDoes DEF RemoteTypes, JobTypes
  <2>12. ASSUME NEW t \in PeerThreads, MarkRetired(t) PROVE JobTypes'
    BY <1>0, <2>12, MarkRetiredDoes DEF RemoteTypes, JobTypes
  <2>13. ASSUME NEW t \in PeerThreads, Unlist(t) PROVE JobTypes'
    BY <1>0, <2>13, UnlistDoes DEF RemoteTypes, JobTypes
  <2>14. ASSUME NEW t \in PeerThreads, EraseQueue(t) PROVE JobTypes'
    BY <1>0, <2>14, EraseQueueDoes DEF RemoteTypes, JobTypes
  <2>15. ASSUME NEW t \in PeerThreads, RemovePeer(t) PROVE JobTypes'
    BY <1>0, <2>15, RemovePeerDoes DEF RemoteTypes, JobTypes
  <2>16. ASSUME NEW g \in Generations, StateEnds(g) PROVE JobTypes'
    BY <1>0, <2>16, StateEndsDoes DEF RemoteTypes, JobTypes
  <2>17. ASSUME NEW g \in Generations, LocalCandidate(g) PROVE JobTypes'
    BY <1>0, <2>17, LocalCandidateDoes DEF RemoteTypes, JobTypes
  <2>18. ASSUME SendCandidates PROVE JobTypes'
    BY <1>0, <2>18, SendCandidatesDoes DEF RemoteTypes, JobTypes
  <2>19. ASSUME CandidateLost PROVE JobTypes'
    BY <1>0, <2>19 DEF CandidateLost, RemoteTypes, JobTypes
  <2>20. ASSUME OwnerDisconnects PROVE JobTypes'
    BY <1>0, <2>20, OwnerDisconnectsDoes DEF RemoteTypes, JobTypes
  <2>21. ASSUME StopViewing PROVE JobTypes'
    BY <1>0, <2>21, StopViewingDoes DEF RemoteTypes, JobTypes
  <2> QED
    BY <1>2, <2>1, <2>2, <2>3, <2>4, <2>5, <2>6, <2>7, <2>8, <2>9, <2>10,
       <2>11,
       <2>12, <2>13, <2>14, <2>15, <2>16, <2>17, <2>18, <2>19, <2>20, <2>21 DEF
       RemoteNext, MessageThreads, PeerThreads
<1> QED BY <1>1, <1>2

\* Every peer stays a peer.
LEMMA InfoTypesStep == RemoteTypes /\ [RemoteNext]_remoteVars => InfoTypes'
<1> SUFFICES ASSUME RemoteTypes, [RemoteNext]_remoteVars PROVE InfoTypes'
  OBVIOUS
<1>0. RemoteTypes
  OBVIOUS
<1>1. CASE UNCHANGED remoteVars
  BY <1>1 DEF remoteVars, RemoteTypes, InfoTypes
<1>2. CASE RemoteNext
  <2>1. ASSUME NEW t \in MessageThreads, NEW s \in PeerSessions, Candidate(t,
               s)
        PROVE  InfoTypes'
    BY <1>0, <2>1, CandidateDoes DEF RemoteTypes, InfoTypes
  <2>2. ASSUME NEW t \in MessageThreads, NEW s \in PeerSessions, Offered(t, s)
        PROVE  InfoTypes'
    BY <1>0, <2>2, OfferedDoes DEF RemoteTypes, InfoTypes
  <2>3. ASSUME NEW t \in MessageThreads, NEW s \in PeerSessions,
               ClaimIdentity(t, s)
        PROVE  InfoTypes'
    BY <1>0, <2>3, ClaimIdentityDoes DEF RemoteTypes, InfoTypes
  <2>4. ASSUME NEW t \in MessageThreads, NEW s \in PeerSessions,
               NEW epoch \in 0..2, Cleanup(t, s, epoch)
        PROVE  InfoTypes'
    BY <1>0, <2>4, CleanupDoes DEF RemoteTypes, InfoTypes
  <2>5. ASSUME NEW t \in MessageThreads, LookAtPeer(t) PROVE InfoTypes'
    BY <1>0, <2>5, LookAtPeerDoes DEF RemoteTypes, InfoTypes
  <2>6. ASSUME NEW t \in MessageThreads, PushCandidate(t) PROVE InfoTypes'
    BY <1>0, <2>6, PushCandidateDoes DEF RemoteTypes, InfoTypes
  <2>7. ASSUME NEW t \in MessageThreads, CreatePeer(t) PROVE InfoTypes'
    BY <1>0, <2>7, CreatePeerDoes DEF RemoteTypes, InfoTypes
  <2>8. ASSUME NEW t \in MessageThreads, SetSession(t) PROVE InfoTypes'
    BY <1>0, <2>8, SetSessionDoes DEF RemoteTypes, InfoTypes
  <2>9. ASSUME NEW t \in MessageThreads, Describe(t) PROVE InfoTypes'
    BY <1>0, <2>9, DescribeDoes DEF RemoteTypes, InfoTypes
  <2>10. ASSUME NEW t \in MessageThreads, Drain(t) PROVE InfoTypes'
    BY <1>0, <2>10, DrainDoes DEF RemoteTypes, InfoTypes
  <2>11. ASSUME NEW t \in MessageThreads, Claim(t) PROVE InfoTypes'
    BY <1>0, <2>11, ClaimDoes DEF RemoteTypes, InfoTypes
  <2>12. ASSUME NEW t \in PeerThreads, MarkRetired(t) PROVE InfoTypes'
    BY <1>0, <2>12, MarkRetiredDoes DEF RemoteTypes, InfoTypes
  <2>13. ASSUME NEW t \in PeerThreads, Unlist(t) PROVE InfoTypes'
    BY <1>0, <2>13, UnlistDoes DEF RemoteTypes, InfoTypes
  <2>14. ASSUME NEW t \in PeerThreads, EraseQueue(t) PROVE InfoTypes'
    BY <1>0, <2>14, EraseQueueDoes DEF RemoteTypes, InfoTypes
  <2>15. ASSUME NEW t \in PeerThreads, RemovePeer(t) PROVE InfoTypes'
    BY <1>0, <2>15, RemovePeerDoes DEF RemoteTypes, InfoTypes
  <2>16. ASSUME NEW g \in Generations, StateEnds(g) PROVE InfoTypes'
    BY <1>0, <2>16, StateEndsDoes DEF RemoteTypes, InfoTypes
  <2>17. ASSUME NEW g \in Generations, LocalCandidate(g) PROVE InfoTypes'
    BY <1>0, <2>17, LocalCandidateDoes DEF RemoteTypes, InfoTypes
  <2>18. ASSUME SendCandidates PROVE InfoTypes'
    BY <1>0, <2>18, SendCandidatesDoes DEF RemoteTypes, InfoTypes
  <2>19. ASSUME CandidateLost PROVE InfoTypes'
    BY <1>0, <2>19 DEF CandidateLost, RemoteTypes, InfoTypes
  <2>20. ASSUME OwnerDisconnects PROVE InfoTypes'
    BY <1>0, <2>20, OwnerDisconnectsDoes DEF RemoteTypes, InfoTypes
  <2>21. ASSUME StopViewing PROVE InfoTypes'
    BY <1>0, <2>21, StopViewingDoes DEF RemoteTypes, InfoTypes
  <2> QED
    BY <1>2, <2>1, <2>2, <2>3, <2>4, <2>5, <2>6, <2>7, <2>8, <2>9, <2>10,
       <2>11,
       <2>12, <2>13, <2>14, <2>15, <2>16, <2>17, <2>18, <2>19, <2>20, <2>21 DEF
       RemoteNext, MessageThreads, PeerThreads
<1> QED BY <1>1, <1>2

\* Every bundle stays a bundle.
LEMMA BundleTypesStep == RemoteTypes /\ [RemoteNext]_remoteVars => BundleTypes'
<1> SUFFICES ASSUME RemoteTypes, [RemoteNext]_remoteVars PROVE BundleTypes'
  OBVIOUS
<1>0. RemoteTypes
  OBVIOUS
<1>1. CASE UNCHANGED remoteVars
  BY <1>1 DEF remoteVars, RemoteTypes, BundleTypes
<1>2. CASE RemoteNext
  <2>1. ASSUME NEW t \in MessageThreads, NEW s \in PeerSessions, Candidate(t,
               s)
        PROVE  BundleTypes'
    BY <1>0, <2>1, CandidateDoes DEF RemoteTypes, BundleTypes
  <2>2. ASSUME NEW t \in MessageThreads, NEW s \in PeerSessions, Offered(t, s)
        PROVE  BundleTypes'
    BY <1>0, <2>2, OfferedDoes DEF RemoteTypes, BundleTypes
  <2>3. ASSUME NEW t \in MessageThreads, NEW s \in PeerSessions,
               ClaimIdentity(t, s)
        PROVE  BundleTypes'
    BY <1>0, <2>3, ClaimIdentityDoes DEF RemoteTypes, BundleTypes
  <2>4. ASSUME NEW t \in MessageThreads, NEW s \in PeerSessions,
               NEW epoch \in 0..2, Cleanup(t, s, epoch)
        PROVE  BundleTypes'
    BY <1>0, <2>4, CleanupDoes DEF RemoteTypes, BundleTypes
  <2>5. ASSUME NEW t \in MessageThreads, LookAtPeer(t) PROVE BundleTypes'
    BY <1>0, <2>5, LookAtPeerDoes DEF RemoteTypes, BundleTypes
  <2>6. ASSUME NEW t \in MessageThreads, PushCandidate(t) PROVE BundleTypes'
    BY <1>0, <2>6, PushCandidateDoes DEF RemoteTypes, BundleTypes
  <2>7. ASSUME NEW t \in MessageThreads, CreatePeer(t) PROVE BundleTypes'
    BY <1>0, <2>7, CreatePeerDoes DEF RemoteTypes, BundleTypes
  <2>8. ASSUME NEW t \in MessageThreads, SetSession(t) PROVE BundleTypes'
    BY <1>0, <2>8, SetSessionDoes DEF RemoteTypes, BundleTypes
  <2>9. ASSUME NEW t \in MessageThreads, Describe(t) PROVE BundleTypes'
    BY <1>0, <2>9, DescribeDoes DEF RemoteTypes, BundleTypes
  <2>10. ASSUME NEW t \in MessageThreads, Drain(t) PROVE BundleTypes'
    BY <1>0, <2>10, DrainDoes DEF RemoteTypes, BundleTypes
  <2>11. ASSUME NEW t \in MessageThreads, Claim(t) PROVE BundleTypes'
    BY <1>0, <2>11, ClaimDoes DEF RemoteTypes, BundleTypes
  <2>12. ASSUME NEW t \in PeerThreads, MarkRetired(t) PROVE BundleTypes'
    BY <1>0, <2>12, MarkRetiredDoes DEF RemoteTypes, BundleTypes
  <2>13. ASSUME NEW t \in PeerThreads, Unlist(t) PROVE BundleTypes'
    BY <1>0, <2>13, UnlistDoes DEF RemoteTypes, BundleTypes
  <2>14. ASSUME NEW t \in PeerThreads, EraseQueue(t) PROVE BundleTypes'
    BY <1>0, <2>14, EraseQueueDoes DEF RemoteTypes, BundleTypes
  <2>15. ASSUME NEW t \in PeerThreads, RemovePeer(t) PROVE BundleTypes'
    BY <1>0, <2>15, RemovePeerDoes DEF RemoteTypes, BundleTypes
  <2>16. ASSUME NEW g \in Generations, StateEnds(g) PROVE BundleTypes'
    BY <1>0, <2>16, StateEndsDoes DEF RemoteTypes, BundleTypes
  <2>17. ASSUME NEW g \in Generations, LocalCandidate(g) PROVE BundleTypes'
    BY <1>0, <2>17, LocalCandidateDoes DEF RemoteTypes, BundleTypes
  <2>18. ASSUME SendCandidates PROVE BundleTypes'
    BY <1>0, <2>18, SendCandidatesDoes DEF RemoteTypes, BundleTypes
  <2>19. ASSUME CandidateLost PROVE BundleTypes'
    BY <1>0, <2>19 DEF CandidateLost, RemoteTypes, BundleTypes
  <2>20. ASSUME OwnerDisconnects PROVE BundleTypes'
    BY <1>0, <2>20, OwnerDisconnectsDoes DEF RemoteTypes, BundleTypes
  <2>21. ASSUME StopViewing PROVE BundleTypes'
    BY <1>0, <2>21, StopViewingDoes DEF RemoteTypes, BundleTypes
  <2> QED
    BY <1>2, <2>1, <2>2, <2>3, <2>4, <2>5, <2>6, <2>7, <2>8, <2>9, <2>10,
       <2>11,
       <2>12, <2>13, <2>14, <2>15, <2>16, <2>17, <2>18, <2>19, <2>20, <2>21 DEF
       RemoteNext, MessageThreads, PeerThreads
<1> QED BY <1>1, <1>2

\* A thread that comes to have a peer in hand has one.
LEMMA JobInvStep == RemoteTypes /\ [RemoteNext]_remoteVars => JobInv'
<1> SUFFICES ASSUME RemoteTypes, [RemoteNext]_remoteVars PROVE JobInv'
  OBVIOUS
<1>0. RemoteTypes
  OBVIOUS
<1>1. CASE UNCHANGED remoteVars
  BY <1>1
  DEF remoteVars, RemoteTypes, JobInv, Turns, PlaceTypes, AnyPeer, Fetched,
     Ending
<1>2. CASE RemoteNext
  <2>1. ASSUME NEW t \in MessageThreads, NEW s \in PeerSessions, Candidate(t,
               s)
        PROVE  JobInv'
    BY <1>0, <2>1, CandidateDoes, Threads, JobKept
    DEF RemoteTypes, JobInv, PlaceTypes,
       AnyPeer, Fetched, Ending
  <2>2. ASSUME NEW t \in MessageThreads, NEW s \in PeerSessions, Offered(t, s)
        PROVE  JobInv'
    BY <1>0, <2>2, OfferedDoes, Threads, JobKept
    DEF RemoteTypes, JobInv, PlaceTypes,
       AnyPeer, Fetched, Ending
  <2>3. ASSUME NEW t \in MessageThreads, NEW s \in PeerSessions,
               ClaimIdentity(t, s)
        PROVE  JobInv'
    <3>1. \/ /\ current # 0
             /\ Turns(t, "disconnect", current, s, info[current].session, 0, "cleanup")
          \/ UNCHANGED handler
      <4> HIDE DEF RemoteTypes
      <4> QED BY <1>0, <2>3, ClaimIdentityDoes
    <3>2. /\ JobInv /\ t \in PeerThreads
          /\ current # 0 => current \in Generations
      BY <1>0, Threads DEF RemoteTypes, PlaceTypes, AnyPeer
    <3>3. CASE UNCHANGED handler
      BY <3>2, <3>3 DEF JobInv
    <3>4. CASE ~UNCHANGED handler
      BY <3>1, <3>2, <3>4 DEF JobInv, Turns, Fetched, Ending
    <3> QED BY <3>3, <3>4
  <2>4. ASSUME NEW t \in MessageThreads, NEW s \in PeerSessions,
               NEW epoch \in 0..2, Cleanup(t, s, epoch)
        PROVE  JobInv'
    <3>1. \/ /\ current # 0
             /\ Turns(t, "claim", current, s, info[current].session, epoch, "cleanup")
          \/ UNCHANGED handler
      <4> HIDE DEF RemoteTypes
      <4> QED BY <1>0, <2>4, CleanupDoes
    <3>2. /\ JobInv /\ t \in PeerThreads
          /\ current # 0 => current \in Generations
      BY <1>0, Threads DEF RemoteTypes, PlaceTypes, AnyPeer
    <3>3. CASE UNCHANGED handler
      BY <3>2, <3>3 DEF JobInv
    <3>4. "claim" # "send" /\ "cleanup" # ""
      OBVIOUS
    <3> QED BY <3>1, <3>2, <3>3, <3>4, JobKept
  <2>5. ASSUME NEW t \in MessageThreads, LookAtPeer(t) PROVE JobInv'
    <3>1. /\ handler[t].at = "look"
          /\ \/ Turns(t, "push", handler[t].g, handler[t].session, handler[t].own,
                      handler[t].epoch, handler[t].why)
             \/ Turns(t, "idle", 0, "", "", 0, "")
      BY <1>0, <2>5, LookAtPeerDoes
    <3>2. JobInv /\ t \in PeerThreads
      BY <1>0, Threads DEF RemoteTypes
    <3> QED BY <3>1, <3>2 DEF JobInv, Turns, Fetched, Ending
  <2>6. ASSUME NEW t \in MessageThreads, PushCandidate(t) PROVE JobInv'
    <3>1. Turns(t, "idle", 0, "", "", 0, "")
      BY <1>0, <2>6, PushCandidateDoes
    <3>2. JobInv /\ t \in PeerThreads
      BY <1>0, Threads DEF RemoteTypes
    <3> QED BY <3>1, <3>2 DEF JobInv, Turns, Fetched, Ending
  <2>7. ASSUME NEW t \in MessageThreads, CreatePeer(t) PROVE JobInv'
    BY <1>0, <2>7, CreatePeerDoes, Threads, JobKept
    DEF RemoteTypes, JobInv, PlaceTypes,
       AnyPeer, Fetched, Ending
  <2>8. ASSUME NEW t \in MessageThreads, SetSession(t) PROVE JobInv'
    BY <1>0, <2>8, SetSessionDoes, Threads, JobKept
    DEF RemoteTypes, JobInv, PlaceTypes,
       AnyPeer, Fetched, Ending
  <2>9. ASSUME NEW t \in MessageThreads, Describe(t) PROVE JobInv'
    <3>1. /\ handler[t].at = "describe" /\ handler[t].g \in Generations
          /\ \/ Turns(t, "drain", handler[t].g, handler[t].session, handler[t].own,
                      handler[t].epoch, handler[t].why)
             \/ Turns(t, "disconnect", 0, "", "", 0, "failure")
      BY <1>0, <2>9, DescribeDoes
    <3>2. JobInv /\ t \in PeerThreads
      BY <1>0, Threads DEF RemoteTypes
    <3> QED BY <3>1, <3>2 DEF JobInv, Turns, Fetched, Ending
  <2>10. ASSUME NEW t \in MessageThreads, Drain(t) PROVE JobInv'
    <3>1. Turns(t, "idle", 0, "", "", 0, "")
      BY <1>0, <2>10, DrainDoes
    <3>2. JobInv /\ t \in PeerThreads
      BY <1>0, Threads DEF RemoteTypes
    <3> QED BY <3>1, <3>2 DEF JobInv, Turns, Fetched, Ending
  <2>11. ASSUME NEW t \in MessageThreads, Claim(t) PROVE JobInv'
    <3>1. /\ handler[t].at = "claim" /\ handler[t].g \in Generations
          /\ \/ Turns(t, "disconnect", handler[t].g, handler[t].session, handler[t].own,
                      handler[t].epoch, handler[t].why)
             \/ Turns(t, "idle", 0, "", "", 0, "")
      BY <1>0, <2>11, ClaimDoes
    <3>2. JobInv /\ t \in PeerThreads
      BY <1>0, Threads DEF RemoteTypes
    <3> QED BY <3>1, <3>2 DEF JobInv, Turns, Fetched, Ending
  <2>12. ASSUME NEW t \in PeerThreads, MarkRetired(t) PROVE JobInv'
    BY <1>0, <2>12, MarkRetiredDoes, Threads, JobKept DEF RemoteTypes, JobInv,
       PlaceTypes, AnyPeer, Fetched, Ending
  <2>13. ASSUME NEW t \in PeerThreads, Unlist(t) PROVE JobInv'
    BY <1>0, <2>13, UnlistDoes, Threads, JobKept
    DEF RemoteTypes, JobInv, PlaceTypes,
       AnyPeer, Fetched, Ending
  <2>14. ASSUME NEW t \in PeerThreads, EraseQueue(t) PROVE JobInv'
    <3>1. /\ handler[t].at = "disconnect"
          /\ Turns(t, "remove", handler[t].g, handler[t].session, handler[t].own,
                   handler[t].epoch, handler[t].why)
      BY <1>0, <2>14, EraseQueueDoes
    <3>2. JobInv /\ handler[t].why # ""
      BY <1>0, <3>1 DEF RemoteTypes, JobInv, Ending
    <3>3. "remove" \notin Fetched
      BY DEF Fetched
    <3> QED BY <3>1, <3>2, <3>3, JobKept
  <2>15. ASSUME NEW t \in PeerThreads, RemovePeer(t) PROVE JobInv'
    BY <1>0, <2>15, RemovePeerDoes, Threads, JobKept
    DEF RemoteTypes, JobInv, PlaceTypes,
       AnyPeer, Fetched, Ending
  <2>16. ASSUME NEW g \in Generations, StateEnds(g) PROVE JobInv'
    <3>1. Turns("rtc", "retire", g, "", "", 0, "state")
      BY <1>0, <2>16, StateEndsDoes
    <3>2. JobInv /\ "rtc" \in PeerThreads
      BY <1>0, Threads DEF RemoteTypes
    <3> QED BY <3>1, <3>2 DEF JobInv, Turns
  <2>17. ASSUME NEW g \in Generations, LocalCandidate(g) PROVE JobInv'
    BY <1>0, <2>17, LocalCandidateDoes, Threads, JobKept
    DEF RemoteTypes, JobInv,
       PlaceTypes, AnyPeer, Fetched, Ending
  <2>18. ASSUME SendCandidates PROVE JobInv'
    BY <1>0, <2>18, SendCandidatesDoes, Threads
    DEF RemoteTypes, JobInv, Turns,
       PlaceTypes, AnyPeer, Fetched, Ending
  <2>19. ASSUME CandidateLost PROVE JobInv'
    BY <1>0, <2>19, Threads
    DEF CandidateLost, RemoteTypes, JobInv, Turns, PlaceTypes,
       AnyPeer, Fetched, Ending
  <2>20. ASSUME OwnerDisconnects PROVE JobInv'
    BY <1>0, <2>20, OwnerDisconnectsDoes, Threads
    DEF RemoteTypes, JobInv, Turns,
       PlaceTypes, AnyPeer, Fetched, Ending
  <2>21. ASSUME StopViewing PROVE JobInv'
    BY <1>0, <2>21, StopViewingDoes, Threads DEF RemoteTypes, JobInv, Turns,
       PlaceTypes, AnyPeer, Fetched, Ending
  <2> QED
    BY <1>2, <2>1, <2>2, <2>3, <2>4, <2>5, <2>6, <2>7, <2>8, <2>9, <2>10,
       <2>11,
       <2>12, <2>13, <2>14, <2>15, <2>16, <2>17, <2>18, <2>19, <2>20, <2>21 DEF
       RemoteNext, MessageThreads, PeerThreads
<1> QED BY <1>1, <1>2

\* Types are kept.
LEMMA TypesStep == RemoteTypes /\ [RemoteNext]_remoteVars => RemoteTypes'
BY PlaceStep, JobTypesStep, InfoTypesStep, BundleTypesStep, JobInvStep
DEF RemoteTypes

(***************************************************************************)
(* Steps of the invariant.                                                 *)
(***************************************************************************)

\* No step changes who may send and who is present but together.
LEMMA FlagStep == RemoteTypes /\ [RemoteNext]_remoteVars => FlagsChange
<1> SUFFICES ASSUME RemoteTypes, [RemoteNext]_remoteVars PROVE FlagsChange
  OBVIOUS
<1>0. RemoteTypes
  OBVIOUS
<1>1. CASE UNCHANGED remoteVars
  BY <1>1 DEF remoteVars, FlagsChange, SameFlags
<1>2. CASE RemoteNext
  <2>1. ASSUME NEW t \in MessageThreads, NEW s \in PeerSessions, Candidate(t,
               s)
        PROVE  FlagsChange
    <3>1. UNCHANGED <<current, info, bundle>>
      BY <1>0, <2>1, CandidateDoes DEF Marks
    <3> QED BY <3>1 DEF FlagsChange, SameFlags
  <2>2. ASSUME NEW t \in MessageThreads, NEW s \in PeerSessions, Offered(t, s)
        PROVE  FlagsChange
    <3>1. SameFlags \/ (current \in Generations /\ Left(current))
      BY <1>0, <2>2, OfferedDoes
      DEF Marks, Others, Taken, SameFlags, Left, RemoteTypes,
         PlaceTypes, AnyPeer
    <3> QED BY <3>1 DEF FlagsChange
  <2>3. ASSUME NEW t \in MessageThreads, NEW s \in PeerSessions,
               ClaimIdentity(t, s)
        PROVE  FlagsChange
    <3>1. UNCHANGED <<current, info, bundle>>
      BY <1>0, <2>3, ClaimIdentityDoes DEF Marks
    <3> QED BY <3>1 DEF FlagsChange, SameFlags
  <2>4. ASSUME NEW t \in MessageThreads, NEW s \in PeerSessions,
               NEW epoch \in 0..2, Cleanup(t, s, epoch)
        PROVE  FlagsChange
    <3>1. UNCHANGED <<current, info, bundle>>
      BY <1>0, <2>4, CleanupDoes DEF Marks
    <3> QED BY <3>1 DEF FlagsChange, SameFlags
  <2>5. ASSUME NEW t \in MessageThreads, LookAtPeer(t) PROVE FlagsChange
    <3>1. UNCHANGED <<current, info, bundle>>
      BY <1>0, <2>5, LookAtPeerDoes DEF Marks
    <3> QED BY <3>1 DEF FlagsChange, SameFlags
  <2>6. ASSUME NEW t \in MessageThreads, PushCandidate(t) PROVE FlagsChange
    <3>1. UNCHANGED <<current, info, bundle>>
      BY <1>0, <2>6, PushCandidateDoes DEF Marks
    <3> QED BY <3>1 DEF FlagsChange, SameFlags
  <2>7. ASSUME NEW t \in MessageThreads, CreatePeer(t) PROVE FlagsChange
    <3>1. SameFlags \/ \E g \in Generations : Joined(g)
      BY <1>0, <2>7, CreatePeerDoes DEF Marks, Others, SameFlags, Joined
    <3> QED BY <3>1 DEF FlagsChange
  <2>8. ASSUME NEW t \in MessageThreads, SetSession(t) PROVE FlagsChange
    <3>1. SameFlags
      BY <1>0, <2>8, SetSessionDoes DEF Marks, Others, SameFlags
    <3> QED BY <3>1 DEF FlagsChange
  <2>9. ASSUME NEW t \in MessageThreads, Describe(t) PROVE FlagsChange
    <3>1. SameFlags
      BY <1>0, <2>9, DescribeDoes DEF Marks, Others, SameFlags
    <3> QED BY <3>1 DEF FlagsChange
  <2>10. ASSUME NEW t \in MessageThreads, Drain(t) PROVE FlagsChange
    <3>1. UNCHANGED <<current, info, bundle>>
      BY <1>0, <2>10, DrainDoes DEF Marks
    <3> QED BY <3>1 DEF FlagsChange, SameFlags
  <2>11. ASSUME NEW t \in MessageThreads, Claim(t) PROVE FlagsChange
    <3>1. SameFlags
      BY <1>0, <2>11, ClaimDoes DEF Marks, Others, SameFlags
    <3> QED BY <3>1 DEF FlagsChange
  <2>12. ASSUME NEW t \in PeerThreads, MarkRetired(t) PROVE FlagsChange
    <3>1. SameFlags
      BY <1>0, <2>12, MarkRetiredDoes DEF Marks, Others, SameFlags
    <3> QED BY <3>1 DEF FlagsChange
  <2>13. ASSUME NEW t \in PeerThreads, Unlist(t) PROVE FlagsChange
    <3>1. handler[t].g \in Generations /\ Left(handler[t].g)
      BY <1>0, <2>13, UnlistDoes DEF Marks, Others, Taken, Left
    <3> QED BY <3>1 DEF FlagsChange
  <2>14. ASSUME NEW t \in PeerThreads, EraseQueue(t) PROVE FlagsChange
    <3>1. UNCHANGED <<current, info, bundle>>
      BY <1>0, <2>14, EraseQueueDoes DEF Marks
    <3> QED BY <3>1 DEF FlagsChange, SameFlags
  <2>15. ASSUME NEW t \in PeerThreads, RemovePeer(t) PROVE FlagsChange
    <3>1. SameFlags \/ (current \in Generations /\ Left(current))
      BY <1>0, <2>15, RemovePeerDoes
      DEF Marks, Others, Taken, SameFlags, Left,
         RemoteTypes, PlaceTypes, AnyPeer
    <3> QED BY <3>1 DEF FlagsChange
  <2>16. ASSUME NEW g \in Generations, StateEnds(g) PROVE FlagsChange
    <3>1. SameFlags
      BY <1>0, <2>16, StateEndsDoes DEF Marks, Others, SameFlags
    <3> QED BY <3>1 DEF FlagsChange
  <2>17. ASSUME NEW g \in Generations, LocalCandidate(g) PROVE FlagsChange
    <3>1. SameFlags
      BY <1>0, <2>17, LocalCandidateDoes DEF Marks, Others, SameFlags
    <3> QED BY <3>1 DEF FlagsChange
  <2>18. ASSUME SendCandidates PROVE FlagsChange
    <3>1. SameFlags
      BY <1>0, <2>18, SendCandidatesDoes DEF Marks, Others, SameFlags
    <3> QED BY <3>1 DEF FlagsChange
  <2>19. ASSUME CandidateLost PROVE FlagsChange
    <3>1. UNCHANGED <<current, info, bundle>>
      BY <1>0, <2>19 DEF CandidateLost
    <3> QED BY <3>1 DEF FlagsChange, SameFlags
  <2>20. ASSUME OwnerDisconnects PROVE FlagsChange
    <3>1. UNCHANGED <<current, info, bundle>>
      BY <1>0, <2>20, OwnerDisconnectsDoes DEF Marks
    <3> QED BY <3>1 DEF FlagsChange, SameFlags
  <2>21. ASSUME StopViewing PROVE FlagsChange
    <3>1. current \in Generations /\ Left(current)
      BY <1>0, <2>21, StopViewingDoes
      DEF Marks, Others, Taken, Left, RemoteTypes,
         PlaceTypes, AnyPeer
    <3> QED BY <3>1 DEF FlagsChange
  <2> QED
    BY <1>2, <2>1, <2>2, <2>3, <2>4, <2>5, <2>6, <2>7, <2>8, <2>9, <2>10,
       <2>11,
       <2>12, <2>13, <2>14, <2>15, <2>16, <2>17, <2>18, <2>19, <2>20, <2>21 DEF
       RemoteNext, MessageThreads, PeerThreads
<1> QED BY <1>1, <1>2

\* Only the present peer may send.
LEMMA ActiveStep == RemoteTypes /\ ActiveIsCurrent /\ FlagsChange => ActiveIsCurrent'
BY DEF RemoteTypes, InfoTypes, PlaceTypes, AnyPeer, ActiveIsCurrent,
   FlagsChange, SameFlags, Left, Joined, Generations

\* The bound is a number.
LEMMA MaxIsNat == MaxPeers \in Nat
BY RemoteAssumption

\* No generation is 0.
LEMMA NotNone == \A g \in Generations : g # 0
<1>1. MaxPeers \in Nat
  BY RemoteAssumption
<1> QED BY <1>1 DEF Generations

\* Where a thread's peer comes from.
LEMMA HandsStep == RemoteTypes /\ [RemoteNext]_remoteVars => HandsChange
<1> SUFFICES ASSUME RemoteTypes, [RemoteNext]_remoteVars PROVE HandsChange
  OBVIOUS
<1>0. RemoteTypes
  OBVIOUS
<1>1. CASE UNCHANGED remoteVars
  BY <1>1 DEF remoteVars, HandsChange, RemoteTypes, JobInv
<1>2. CASE RemoteNext
  <2>1. ASSUME NEW t \in MessageThreads, NEW s \in PeerSessions, Candidate(t,
               s)
        PROVE  HandsChange
    BY <1>0, <2>1, CandidateDoes, Threads DEF HandsChange, Turns, Fetched
  <2>2. ASSUME NEW t \in MessageThreads, NEW s \in PeerSessions, Offered(t, s)
        PROVE  HandsChange
    BY <1>0, <2>2, OfferedDoes, Threads DEF HandsChange, Turns, Fetched
  <2>3. ASSUME NEW t \in MessageThreads, NEW s \in PeerSessions,
               ClaimIdentity(t, s)
        PROVE  HandsChange
    BY <1>0, <2>3, ClaimIdentityDoes, Threads DEF HandsChange, Turns, Fetched
  <2>4. ASSUME NEW t \in MessageThreads, NEW s \in PeerSessions,
               NEW epoch \in 0..2, Cleanup(t, s, epoch)
        PROVE  HandsChange
    BY <1>0, <2>4, CleanupDoes, Threads DEF HandsChange, Turns, Fetched
  <2>5. ASSUME NEW t \in MessageThreads, LookAtPeer(t) PROVE HandsChange
    BY <1>0, <2>5, LookAtPeerDoes, Threads DEF HandsChange, Turns, Fetched
  <2>6. ASSUME NEW t \in MessageThreads, PushCandidate(t) PROVE HandsChange
    BY <1>0, <2>6, PushCandidateDoes, Threads DEF HandsChange, Turns, Fetched
  <2>7. ASSUME NEW t \in MessageThreads, CreatePeer(t) PROVE HandsChange
    BY <1>0, <2>7, CreatePeerDoes, NotNone, Threads
    DEF HandsChange, Turns, Fetched
  <2>8. ASSUME NEW t \in MessageThreads, SetSession(t) PROVE HandsChange
    BY <1>0, <2>8, SetSessionDoes, Threads DEF HandsChange, Turns, Fetched
  <2>9. ASSUME NEW t \in MessageThreads, Describe(t) PROVE HandsChange
    BY <1>0, <2>9, DescribeDoes, Threads DEF HandsChange, Turns, Fetched
  <2>10. ASSUME NEW t \in MessageThreads, Drain(t) PROVE HandsChange
    BY <1>0, <2>10, DrainDoes, Threads DEF HandsChange, Turns, Fetched
  <2>11. ASSUME NEW t \in MessageThreads, Claim(t) PROVE HandsChange
    BY <1>0, <2>11, ClaimDoes, Threads DEF HandsChange, Turns, Fetched
  <2>12. ASSUME NEW t \in PeerThreads, MarkRetired(t) PROVE HandsChange
    BY <1>0, <2>12, MarkRetiredDoes, Threads DEF HandsChange, Turns, Fetched
  <2>13. ASSUME NEW t \in PeerThreads, Unlist(t) PROVE HandsChange
    BY <1>0, <2>13, UnlistDoes, Threads DEF HandsChange, Turns, Fetched
  <2>14. ASSUME NEW t \in PeerThreads, EraseQueue(t) PROVE HandsChange
    BY <1>0, <2>14, EraseQueueDoes, Threads DEF HandsChange, Turns, Fetched
  <2>15. ASSUME NEW t \in PeerThreads, RemovePeer(t) PROVE HandsChange
    BY <1>0, <2>15, RemovePeerDoes, Threads DEF HandsChange, Turns, Fetched
  <2>16. ASSUME NEW g \in Generations, StateEnds(g) PROVE HandsChange
    BY <1>0, <2>16, StateEndsDoes, NotNone, Threads
    DEF HandsChange, Turns, Fetched
  <2>17. ASSUME NEW g \in Generations, LocalCandidate(g) PROVE HandsChange
    BY <1>0, <2>17, LocalCandidateDoes, Threads
    DEF HandsChange, Turns, Fetched
  <2>18. ASSUME SendCandidates PROVE HandsChange
    BY <1>0, <2>18, SendCandidatesDoes, Threads
    DEF HandsChange, Turns, Fetched
  <2>19. ASSUME CandidateLost PROVE HandsChange
    BY <1>0, <2>19, Threads DEF CandidateLost, HandsChange, Turns, Fetched
  <2>20. ASSUME OwnerDisconnects PROVE HandsChange
    BY <1>0, <2>20, OwnerDisconnectsDoes, Threads
    DEF HandsChange, Turns, Fetched
  <2>21. ASSUME StopViewing PROVE HandsChange
    BY <1>0, <2>21, StopViewingDoes, Threads DEF HandsChange, Turns, Fetched
  <2> QED
    BY <1>2, <2>1, <2>2, <2>3, <2>4, <2>5, <2>6, <2>7, <2>8, <2>9, <2>10,
       <2>11,
       <2>12, <2>13, <2>14, <2>15, <2>16, <2>17, <2>18, <2>19, <2>20, <2>21 DEF
       RemoteNext, MessageThreads, PeerThreads
<1> QED BY <1>1, <1>2

\* The generations are given out in order.
LEMMA OrderStep == RemoteTypes /\ InOrder /\ FlagsChange => InOrder'
<1> SUFFICES ASSUME RemoteTypes, InOrder, FlagsChange PROVE InOrder'
  OBVIOUS
<1>1. CASE \A h \in Generations : info'[h].registered = info[h].registered
  <2>1. Registered' = Registered
    BY <1>1 DEF Registered
  <2> QED BY <2>1 DEF InOrder
<1>2. ASSUME NEW g \in Generations, Joined(g) PROVE InOrder'
  <2>1. PICK n \in 0..MaxPeers : Registered = 1..n
    BY DEF InOrder
  <2>2. g = n + 1
    <3>1. n \in Nat
      BY <2>1
    <3>2. Cardinality(1..n) = n
      BY <3>1, FS_Interval
    <3> QED BY <1>2, <2>1, <3>2 DEF Joined
  <2>3. Registered' = Registered \cup {g}
    BY <1>2 DEF Joined, Registered
  <2>4. Registered' = 1..(n + 1) /\ n + 1 \in 0..MaxPeers
    <3>1. MaxPeers \in Nat /\ n \in Nat /\ n + 1 \in 1..MaxPeers
      <4>1. MaxPeers \in Nat
        BY RemoteAssumption
      <4> QED BY <4>1, <1>2, <2>1, <2>2 DEF Generations
    <3>2. 1..(n + 1) = (1..n) \cup {n + 1}
      BY <3>1
    <3> QED BY <3>1, <3>2, <2>1, <2>2, <2>3
  <2> QED BY <2>4 DEF InOrder
<1> QED BY <1>1, <1>2 DEF FlagsChange, SameFlags, Left

\* What a thread has in hand was given out.
LEMMA InHandStep ==
  RemoteTypes /\ InHand /\ Ungiven /\ FlagsChange /\ HandsChange /\ RemoteTypes' =>
          InHand'
<1> SUFFICES ASSUME RemoteTypes, InHand, Ungiven, FlagsChange, HandsChange, RemoteTypes'
      PROVE  InHand'
  OBVIOUS
<1>1. \A h \in Generations : info[h].registered => info'[h].registered
  BY DEF FlagsChange, SameFlags, Left, Joined
<1>2. current' # 0 => info'[current'].registered
  BY <1>1
  DEF FlagsChange, SameFlags, Left, Joined, InHand, RemoteTypes, PlaceTypes,
      AnyPeer
<1>3. ASSUME NEW u \in PeerThreads, handler'[u].at \in Fetched
      PROVE  info'[handler'[u].g].registered
  <2>1. handler[u].at \in Fetched => handler[u].g \in Generations
    BY DEF RemoteTypes, JobInv
  <2>2. current # 0 => current \in Generations
    BY DEF RemoteTypes, PlaceTypes, AnyPeer
  <2>3. \/ handler[u].at \in Fetched /\ handler'[u].g = handler[u].g
        \/ current # 0 /\ handler'[u].g = current
        \/ current' # 0 /\ handler'[u].g = current'
        \/ handler'[u].g \in Generations /\ info[handler'[u].g].described
    BY <1>3 DEF HandsChange
  <2> QED BY <1>1, <1>2, <2>1, <2>2, <2>3 DEF InHand, Ungiven
<1> QED BY <1>2, <1>3 DEF InHand

\* No step touches a generation that was not given out.
LEMMA TouchedStep ==
  RemoteTypes /\ InHand /\ Ungiven /\ [RemoteNext]_remoteVars => Touched
<1> SUFFICES ASSUME RemoteTypes /\ InHand /\ Ungiven, [RemoteNext]_remoteVars
      PROVE  Touched
  OBVIOUS
<1>0. RemoteTypes
  OBVIOUS
<1>1. CASE UNCHANGED remoteVars
  BY <1>1 DEF remoteVars, Touched
<1>2. CASE RemoteNext
  <2>1. ASSUME NEW t \in MessageThreads, NEW s \in PeerSessions, Candidate(t,
               s)
        PROVE  Touched
    <3>1. UNCHANGED <<current, info, bundle>>
      BY <1>0, <2>1, CandidateDoes DEF Marks
    <3> QED BY <3>1 DEF Touched
  <2>2. ASSUME NEW t \in MessageThreads, NEW s \in PeerSessions, Offered(t, s)
        PROVE  Touched
    <3>1. \/ UNCHANGED <<info, bundle>>
          \/ /\ current \in Generations /\ info'[current].registered
             /\ \A h \in Generations \ {current} :
                  info'[h] = info[h] /\ bundle'[h] = bundle[h]
      BY <1>0, <2>2, OfferedDoes, Threads
      DEF Marks, Others, Taken, Packs, InHand,
         Fetched, RemoteTypes, PlaceTypes, AnyPeer
    <3> QED BY <3>1 DEF Touched
  <2>3. ASSUME NEW t \in MessageThreads, NEW s \in PeerSessions,
               ClaimIdentity(t, s)
        PROVE  Touched
    <3>1. UNCHANGED <<current, info, bundle>>
      BY <1>0, <2>3, ClaimIdentityDoes DEF Marks
    <3> QED BY <3>1 DEF Touched
  <2>4. ASSUME NEW t \in MessageThreads, NEW s \in PeerSessions,
               NEW epoch \in 0..2, Cleanup(t, s, epoch)
        PROVE  Touched
    <3>1. UNCHANGED <<current, info, bundle>>
      BY <1>0, <2>4, CleanupDoes DEF Marks
    <3> QED BY <3>1 DEF Touched
  <2>5. ASSUME NEW t \in MessageThreads, LookAtPeer(t) PROVE Touched
    <3>1. UNCHANGED <<current, info, bundle>>
      BY <1>0, <2>5, LookAtPeerDoes DEF Marks
    <3> QED BY <3>1 DEF Touched
  <2>6. ASSUME NEW t \in MessageThreads, PushCandidate(t) PROVE Touched
    <3>1. UNCHANGED <<current, info, bundle>>
      BY <1>0, <2>6, PushCandidateDoes DEF Marks
    <3> QED BY <3>1 DEF Touched
  <2>7. ASSUME NEW t \in MessageThreads, CreatePeer(t) PROVE Touched
    <3>1. \/ UNCHANGED <<info, bundle>>
          \/ /\ current' \in Generations /\ info'[current'].registered
             /\ \A h \in Generations \ {current'} :
                  info'[h] = info[h] /\ bundle'[h] = bundle[h]
      BY <1>0, <2>7, CreatePeerDoes, Threads
      DEF Marks, Others, Taken, Packs, InHand,
         Fetched, RemoteTypes, PlaceTypes, AnyPeer
    <3> QED BY <3>1 DEF Touched
  <2>8. ASSUME NEW t \in MessageThreads, SetSession(t) PROVE Touched
    <3>1. /\ handler[t].g \in Generations /\ info[handler[t].g].registered
            /\ info'[handler[t].g].registered
          /\ \A h \in Generations \ {handler[t].g} :
               info'[h] = info[h] /\ bundle'[h] = bundle[h]
      BY <1>0, <2>8, SetSessionDoes, Threads
      DEF Marks, Others, Taken, Packs, InHand,
         Fetched, RemoteTypes, PlaceTypes, AnyPeer
    <3> QED BY <3>1 DEF Touched
  <2>9. ASSUME NEW t \in MessageThreads, Describe(t) PROVE Touched
    <3>1. \/ UNCHANGED <<info, bundle>>
          \/ /\ handler[t].g \in Generations /\ info'[handler[t].g].registered
             /\ \A h \in Generations \ {handler[t].g} :
                  info'[h] = info[h] /\ bundle'[h] = bundle[h]
      BY <1>0, <2>9, DescribeDoes, Threads
      DEF Marks, Others, Taken, Packs, InHand,
         Fetched, RemoteTypes, PlaceTypes, AnyPeer
    <3> QED BY <3>1 DEF Touched
  <2>10. ASSUME NEW t \in MessageThreads, Drain(t) PROVE Touched
    <3>1. UNCHANGED <<current, info, bundle>>
      BY <1>0, <2>10, DrainDoes DEF Marks
    <3> QED BY <3>1 DEF Touched
  <2>11. ASSUME NEW t \in MessageThreads, Claim(t) PROVE Touched
    <3>1. \/ UNCHANGED <<info, bundle>>
          \/ /\ handler[t].g \in Generations /\ info'[handler[t].g].registered
             /\ \A h \in Generations \ {handler[t].g} :
                  info'[h] = info[h] /\ bundle'[h] = bundle[h]
      BY <1>0, <2>11, ClaimDoes, Threads
      DEF Marks, Others, Taken, Packs, InHand,
         Fetched, RemoteTypes, PlaceTypes, AnyPeer
    <3> QED BY <3>1 DEF Touched
  <2>12. ASSUME NEW t \in PeerThreads, MarkRetired(t) PROVE Touched
    <3>1. /\ handler[t].g \in Generations /\ info[handler[t].g].registered
            /\ info'[handler[t].g].registered
          /\ \A h \in Generations \ {handler[t].g} :
               info'[h] = info[h] /\ bundle'[h] = bundle[h]
      BY <1>0, <2>12, MarkRetiredDoes, Threads
      DEF Marks, Others, Taken, Packs, InHand,
         Fetched, RemoteTypes, PlaceTypes, AnyPeer
    <3> QED BY <3>1 DEF Touched
  <2>13. ASSUME NEW t \in PeerThreads, Unlist(t) PROVE Touched
    <3>1. /\ handler[t].g \in Generations /\ info[handler[t].g].registered
            /\ info'[handler[t].g].registered
          /\ \A h \in Generations \ {handler[t].g} :
               info'[h] = info[h] /\ bundle'[h] = bundle[h]
      BY <1>0, <2>13, UnlistDoes, Threads
      DEF Marks, Others, Taken, Packs, InHand,
         Fetched, RemoteTypes, PlaceTypes, AnyPeer
    <3> QED BY <3>1 DEF Touched
  <2>14. ASSUME NEW t \in PeerThreads, EraseQueue(t) PROVE Touched
    <3>1. UNCHANGED <<current, info, bundle>>
      BY <1>0, <2>14, EraseQueueDoes DEF Marks
    <3> QED BY <3>1 DEF Touched
  <2>15. ASSUME NEW t \in PeerThreads, RemovePeer(t) PROVE Touched
    <3>1. \/ UNCHANGED <<info, bundle>>
          \/ /\ current \in Generations /\ info'[current].registered
             /\ \A h \in Generations \ {current} :
                  info'[h] = info[h] /\ bundle'[h] = bundle[h]
      BY <1>0, <2>15, RemovePeerDoes, Threads
      DEF Marks, Others, Taken, Packs, InHand,
         Fetched, RemoteTypes, PlaceTypes, AnyPeer
    <3> QED BY <3>1 DEF Touched
  <2>16. ASSUME NEW g \in Generations, StateEnds(g) PROVE Touched
    <3>1. /\ g \in Generations /\ info[g].registered /\ info'[g].registered
          /\ \A h \in Generations \ {g} :
               info'[h] = info[h] /\ bundle'[h] = bundle[h]
      BY <1>0, <2>16, StateEndsDoes, Threads, NotNone
      DEF Marks, Others, Taken, Packs,
         InHand, Fetched, RemoteTypes, PlaceTypes, AnyPeer
    <3> QED BY <3>1 DEF Touched
  <2>17. ASSUME NEW g \in Generations, LocalCandidate(g) PROVE Touched
    <3>1. \/ UNCHANGED <<info, bundle>>
          \/ /\ g \in Generations /\ info'[g].registered
             /\ \A h \in Generations \ {g} :
                  info'[h] = info[h] /\ bundle'[h] = bundle[h]
      BY <1>0, <2>17, LocalCandidateDoes, Threads
      DEF Marks, Others, Taken, Packs,
         InHand, Fetched, RemoteTypes, PlaceTypes, AnyPeer, Ungiven
    <3> QED BY <3>1 DEF Touched
  <2>18. ASSUME SendCandidates PROVE Touched
    <3>1. \/ UNCHANGED <<info, bundle>>
          \/ /\ handler["rtc"].g \in Generations /\ info'[handler["rtc"].g].registered
             /\ \A h \in Generations \ {handler["rtc"].g} :
                  info'[h] = info[h] /\ bundle'[h] = bundle[h]
      BY <1>0, <2>18, SendCandidatesDoes, Threads
      DEF Marks, Others, Taken, Packs,
         InHand, Fetched, RemoteTypes, PlaceTypes, AnyPeer
    <3> QED BY <3>1 DEF Touched
  <2>19. ASSUME CandidateLost PROVE Touched
    <3>1. UNCHANGED <<current, info, bundle>>
      BY <1>0, <2>19 DEF CandidateLost
    <3> QED BY <3>1 DEF Touched
  <2>20. ASSUME OwnerDisconnects PROVE Touched
    <3>1. UNCHANGED <<current, info, bundle>>
      BY <1>0, <2>20, OwnerDisconnectsDoes DEF Marks
    <3> QED BY <3>1 DEF Touched
  <2>21. ASSUME StopViewing PROVE Touched
    <3>1. /\ current \in Generations /\ info[current].registered
            /\ info'[current].registered
          /\ \A h \in Generations \ {current} :
               info'[h] = info[h] /\ bundle'[h] = bundle[h]
      BY <1>0, <2>21, StopViewingDoes, Threads
      DEF Marks, Others, Taken, Packs, InHand,
         Fetched, RemoteTypes, PlaceTypes, AnyPeer
    <3> QED BY <3>1 DEF Touched
  <2> QED
    BY <1>2, <2>1, <2>2, <2>3, <2>4, <2>5, <2>6, <2>7, <2>8, <2>9, <2>10,
       <2>11,
       <2>12, <2>13, <2>14, <2>15, <2>16, <2>17, <2>18, <2>19, <2>20, <2>21 DEF
       RemoteNext, MessageThreads, PeerThreads
<1> QED BY <1>1, <1>2

\* A generation not given out stays as it was.
LEMMA UngivenStep == RemoteTypes /\ Ungiven /\ FlagsChange /\ Touched => Ungiven'
<1> SUFFICES ASSUME RemoteTypes, Ungiven, FlagsChange, Touched, NEW g \in Generations,
        ~info'[g].registered
             PROVE  /\ info'[g].sent = <<>> /\ info'[g].locals = 0
                     /\ bundle'[g].candidates = <<>>
                    /\ ~info'[g].active /\ info'[g].ended.why = ""
                            /\ ~info'[g].described
  BY DEF Ungiven
<1>1. info'[g] = info[g] /\ bundle'[g] = bundle[g]
  BY DEF Touched
<1> QED BY <1>1 DEF Ungiven

\* Of none and a peer, the first is the peer.
LEMMA OneOrNone == \A x, c : x = 1 /\ x \in {0, c} => c = 1
OBVIOUS

\* A step ends one peer at most, the present one, and a clean-up with cause.
LEMMA EndingsStep ==
  RemoteTypes /\ InHand /\ Ungiven /\ WorkForCause /\ [RemoteNext]_remoteVars =>
     EndingsChange
<1> SUFFICES ASSUME RemoteTypes /\ InHand /\ Ungiven /\ WorkForCause, [RemoteNext]_remoteVars
      PROVE  EndingsChange
  OBVIOUS
<1>0. RemoteTypes
  OBVIOUS
<1>1. CASE UNCHANGED remoteVars
  BY <1>1 DEF remoteVars, EndingsChange, SameEndings
<1>2. CASE RemoteNext
  <2>1. ASSUME NEW t \in MessageThreads, NEW s \in PeerSessions, Candidate(t,
               s)
        PROVE  EndingsChange
    <3>1. UNCHANGED <<current, info, bundle>>
      BY <1>0, <2>1, CandidateDoes DEF Marks
    <3> QED BY <3>1 DEF EndingsChange, SameEndings
  <2>2. ASSUME NEW t \in MessageThreads, NEW s \in PeerSessions, Offered(t, s)
        PROVE  EndingsChange
    <3>1. SameEndings \/ OneEnding("offer", s)
      BY <1>0, <2>2, OfferedDoes
      DEF Others, Marks, Taken, SameEndings, OneEnding,
         RemoteTypes, PlaceTypes, AnyPeer
    <3>2. "offer" \in Reasons /\ s \in PeerSessions
      BY <1>0, NoneIs DEF Reasons, RemoteTypes, JobTypes, Jobs
    <3> QED BY <3>1, <3>2 DEF EndingsChange
  <2>3. ASSUME NEW t \in MessageThreads, NEW s \in PeerSessions,
               ClaimIdentity(t, s)
        PROVE  EndingsChange
    <3>1. UNCHANGED <<current, info, bundle>>
      BY <1>0, <2>3, ClaimIdentityDoes DEF Marks
    <3> QED BY <3>1 DEF EndingsChange, SameEndings
  <2>4. ASSUME NEW t \in MessageThreads, NEW s \in PeerSessions,
               NEW epoch \in 0..2, Cleanup(t, s, epoch)
        PROVE  EndingsChange
    <3>1. UNCHANGED <<current, info, bundle>>
      BY <1>0, <2>4, CleanupDoes DEF Marks
    <3> QED BY <3>1 DEF EndingsChange, SameEndings
  <2>5. ASSUME NEW t \in MessageThreads, LookAtPeer(t) PROVE EndingsChange
    <3>1. UNCHANGED <<current, info, bundle>>
      BY <1>0, <2>5, LookAtPeerDoes DEF Marks
    <3> QED BY <3>1 DEF EndingsChange, SameEndings
  <2>6. ASSUME NEW t \in MessageThreads, PushCandidate(t) PROVE EndingsChange
    <3>1. UNCHANGED <<current, info, bundle>>
      BY <1>0, <2>6, PushCandidateDoes DEF Marks
    <3> QED BY <3>1 DEF EndingsChange, SameEndings
  <2>7. ASSUME NEW t \in MessageThreads, CreatePeer(t) PROVE EndingsChange
    <3>1. SameEndings
      BY <1>0, <2>7, CreatePeerDoes DEF Others, SameEndings
    <3> QED BY <3>1 DEF EndingsChange
  <2>8. ASSUME NEW t \in MessageThreads, SetSession(t) PROVE EndingsChange
    <3>1. SameEndings
      BY <1>0, <2>8, SetSessionDoes DEF Others, SameEndings
    <3> QED BY <3>1 DEF EndingsChange
  <2>9. ASSUME NEW t \in MessageThreads, Describe(t) PROVE EndingsChange
    <3>1. SameEndings
      BY <1>0, <2>9, DescribeDoes DEF Others, SameEndings
    <3> QED BY <3>1 DEF EndingsChange
  <2>10. ASSUME NEW t \in MessageThreads, Drain(t) PROVE EndingsChange
    <3>1. UNCHANGED <<current, info, bundle>>
      BY <1>0, <2>10, DrainDoes DEF Marks
    <3> QED BY <3>1 DEF EndingsChange, SameEndings
  <2>11. ASSUME NEW t \in MessageThreads, Claim(t) PROVE EndingsChange
    <3>1. SameEndings
      BY <1>0, <2>11, ClaimDoes DEF Others, SameEndings
    <3> QED BY <3>1 DEF EndingsChange
  <2>12. ASSUME NEW t \in PeerThreads, MarkRetired(t) PROVE EndingsChange
    <3>1. SameEndings
      BY <1>0, <2>12, MarkRetiredDoes DEF Others, SameEndings
    <3> QED BY <3>1 DEF EndingsChange
  <2>13. ASSUME NEW t \in PeerThreads, Unlist(t) PROVE EndingsChange
    <3>1. SameEndings \/ OneEnding(handler[t].why, "")
      BY <1>0, <2>13, UnlistDoes
      DEF Others, Marks, Taken, SameEndings, OneEnding,
         RemoteTypes, PlaceTypes, AnyPeer, WorkForCause
    <3>2. handler[t].why \in Reasons /\ "" \in PeerSessions
      BY <1>0, NoneIs DEF Reasons, RemoteTypes, JobTypes, Jobs
    <3> QED BY <3>1, <3>2 DEF EndingsChange
  <2>14. ASSUME NEW t \in PeerThreads, EraseQueue(t) PROVE EndingsChange
    <3>1. UNCHANGED <<current, info, bundle>>
      BY <1>0, <2>14, EraseQueueDoes DEF Marks
    <3> QED BY <3>1 DEF EndingsChange, SameEndings
  <2>15. ASSUME NEW t \in PeerThreads, RemovePeer(t) PROVE EndingsChange
    <3>0. handler[t].at = "remove"
      BY <1>0, <2>15, RemovePeerDoes
    <3>1. CASE ~Meant(handler[t])
      <4>1. SameEndings
        BY <1>0, <2>15, <3>1, RemovePeerDoes DEF SameEndings, Taken
      <4> QED BY <4>1 DEF EndingsChange
    <3>2. CASE Meant(handler[t])
      <4>1. /\ current' = 0 /\ current \in Generations
            /\ Taken(current, handler[t].why, handler[t].session)
        BY <1>0, <2>15, <3>2, RemovePeerDoes
        DEF RemoteTypes, PlaceTypes, AnyPeer
      <4>2. handler[t].why = "cleanup" =>
              IF handler[t].session # "" THEN info[current].session = handler[t].session
              ELSE current = 1
        <5>1. current # 0 /\ handler[t].g \in {0, current} /\ Names(handler[t].own,
                current)
          BY <3>2 DEF Meant
        <5>2. handler[t].g = 1 => current = 1
          BY <5>1, OneOrNone
        <5> QED BY <3>0, <5>1, <5>2 DEF WorkForCause, Names
      <4>3. OneEnding(handler[t].why, handler[t].session)
        BY <4>1, <4>2 DEF OneEnding, Taken, Marks, Others
      <4>4. handler[t].why \in Reasons /\ handler[t].session \in PeerSessions
        BY <1>0 DEF RemoteTypes, JobTypes, Jobs
      <4> QED BY <4>3, <4>4 DEF EndingsChange
    <3> QED BY <3>1, <3>2
  <2>16. ASSUME NEW g \in Generations, StateEnds(g) PROVE EndingsChange
    <3>1. SameEndings
      BY <1>0, <2>16, StateEndsDoes DEF Others, SameEndings
    <3> QED BY <3>1 DEF EndingsChange
  <2>17. ASSUME NEW g \in Generations, LocalCandidate(g) PROVE EndingsChange
    <3>1. SameEndings
      BY <1>0, <2>17, LocalCandidateDoes DEF Others, SameEndings
    <3> QED BY <3>1 DEF EndingsChange
  <2>18. ASSUME SendCandidates PROVE EndingsChange
    <3>1. SameEndings
      BY <1>0, <2>18, SendCandidatesDoes DEF Others, SameEndings
    <3> QED BY <3>1 DEF EndingsChange
  <2>19. ASSUME CandidateLost PROVE EndingsChange
    <3>1. UNCHANGED <<current, info, bundle>>
      BY <1>0, <2>19 DEF CandidateLost
    <3> QED BY <3>1 DEF EndingsChange, SameEndings
  <2>20. ASSUME OwnerDisconnects PROVE EndingsChange
    <3>1. UNCHANGED <<current, info, bundle>>
      BY <1>0, <2>20, OwnerDisconnectsDoes DEF Marks
    <3> QED BY <3>1 DEF EndingsChange, SameEndings
  <2>21. ASSUME StopViewing PROVE EndingsChange
    <3>1. SameEndings \/ OneEnding("owner", "")
      BY <1>0, <2>21, StopViewingDoes
      DEF Others, Marks, Taken, SameEndings, OneEnding,
         RemoteTypes, PlaceTypes, AnyPeer
    <3>2. "owner" \in Reasons /\ "" \in PeerSessions
      BY <1>0, NoneIs DEF Reasons, RemoteTypes, JobTypes, Jobs
    <3> QED BY <3>1, <3>2 DEF EndingsChange
  <2> QED
    BY <1>2, <2>1, <2>2, <2>3, <2>4, <2>5, <2>6, <2>7, <2>8, <2>9, <2>10,
       <2>11,
       <2>12, <2>13, <2>14, <2>15, <2>16, <2>17, <2>18, <2>19, <2>20, <2>21 DEF
       RemoteNext, MessageThreads, PeerThreads
<1> QED BY <1>1, <1>2

\* A peer that is registered has a new generation.
LEMMA JoinedIsNew == InOrder => \A h \in Generations : Joined(h) => ~info[h].registered
<1> SUFFICES ASSUME InOrder
      PROVE  \A h \in Generations : Joined(h) => ~info[h].registered
  OBVIOUS
<1>1. PICK n \in 0..MaxPeers : Registered = 1..n
  BY DEF InOrder
<1>2. n \in Nat
  BY <1>1, MaxIsNat
<1>3. Cardinality(Registered) = n
  BY <1>1, <1>2, FS_Interval
<1>4. n + 1 \notin Registered
  BY <1>1, <1>2
<1> QED BY <1>3, <1>4 DEF Joined, Registered

\* A peer that was ended does not send again.
LEMMA EndedStep ==
  RemoteTypes /\ InOrder /\ InHand /\ Ungiven /\ Ended /\ FlagsChange
          /\ EndingsChange => Ended'
<1> SUFFICES ASSUME RemoteTypes, InOrder, InHand, Ungiven, Ended, FlagsChange,
        EndingsChange,
                    NEW g \in Generations, info'[g].ended.why # ""
             PROVE  info'[g].registered /\ ~info'[g].active
  BY DEF Ended
<1>2. \A h \in Generations : Joined(h) => ~info[h].registered
  BY JoinedIsNew
<1>3. CASE info[g].ended.why # ""
  BY <1>2, <1>3 DEF Ended, FlagsChange, SameFlags, Left, Joined
<1>4. CASE info[g].ended.why = ""
  <2>1. g = current /\ ~info'[g].active /\ info'[g].registered = info[g].registered
    BY <1>4 DEF EndingsChange, SameEndings, OneEnding
  <2>2. current # 0
    BY <2>1, NotNone
  <2> QED BY <2>1, <2>2 DEF InHand
<1> QED BY <1>3, <1>4

\* EndedForCause, from the endings.
LEMMA EndedForCauseStep == EndedForCause /\ EndingsChange => EndedForCause'
<1> SUFFICES ASSUME EndedForCause, EndingsChange, NEW g \in Generations,
        info'[g].ended.why = "cleanup"
             PROVE  IF info'[g].ended.session # ""
                     THEN info'[g].ended.own = info'[g].ended.session
                    ELSE g = 1
  BY DEF EndedForCause
<1>1. CASE info'[g].ended = info[g].ended
  BY <1>1 DEF EndedForCause
<1>2. CASE info'[g].ended # info[g].ended
  <2>1. PICK why \in Reasons, session \in PeerSessions : g = current /\ OneEnding(why,
          session)
    BY <1>2 DEF EndingsChange, SameEndings, OneEnding
  <2>2. info'[g].ended.why = why /\ info'[g].ended.session = session
        /\ info'[g].ended.own = info[g].session
    <3>1. info'[g].ended = [why |-> why, session |-> session, own |-> info[g].session,
                            sent |-> Len(info[g].sent)]
      BY <2>1 DEF OneEnding
    <3> QED BY <3>1
  <2> QED BY <2>1, <2>2 DEF OneEnding
<1> QED BY <1>1, <1>2

\* A peer that is the only one ever registered is the first.
LEMMA OneRegistered ==
  InOrder /\ InHand /\ RemoteTypes /\ current # 0 /\ Cardinality(Registered) <= 1 =>
          current = 1
<1> SUFFICES ASSUME InOrder, InHand, RemoteTypes, current # 0,
        Cardinality(Registered) <= 1
             PROVE  current = 1
  OBVIOUS
<1>1. PICK n \in 0..MaxPeers : Registered = 1..n
  BY DEF InOrder
<1>2. n \in Nat
  BY <1>1, MaxIsNat
<1>3. Cardinality(Registered) = n
  BY <1>1, <1>2, FS_Interval
<1>4. current \in Registered
  BY DEF InHand, RemoteTypes, PlaceTypes, AnyPeer, Registered
<1> QED BY <1>1, <1>2, <1>3, <1>4

\* WorkForCause, when one thread's work changes.
LEMMA CauseKept ==
  ASSUME WorkForCause, NEW t \in PeerThreads, NEW at, NEW g, NEW session, NEW own,
          NEW epoch, NEW why,
         Turns(t, at, g, session, own, epoch, why),
         why = "cleanup" =>
           /\ at \in {"claim", "disconnect", "remove"} =>
                IF session # "" THEN own = session ELSE g = 1
           /\ at \in {"retire", "unlist"} => current' # g,
         \A u \in PeerThreads \ {t} :
           handler[u].at \in {"retire", "unlist"} =>
                   current' = current \/ current' # handler[u].g
  PROVE  WorkForCause'
BY DEF WorkForCause, Turns

\* The present peer is never one that another thread is about to retire.
LEMMA CurrentMoves ==
  RemoteTypes /\ InOrder /\ InHand /\ FlagsChange =>
    \A u \in PeerThreads :
      handler[u].at \in {"retire", "unlist"} =>
              current' = current \/ current' # handler[u].g
<1> SUFFICES ASSUME RemoteTypes, InOrder, InHand, FlagsChange, NEW u \in PeerThreads,
                    handler[u].at \in {"retire", "unlist"}
             PROVE  current' = current \/ current' # handler[u].g
  OBVIOUS
<1>1. handler[u].g \in Generations /\ info[handler[u].g].registered
  BY DEF RemoteTypes, JobInv, InHand, Fetched
<1>2. handler[u].g # 0
  BY <1>1, NotNone
<1> QED BY <1>1, <1>2, JoinedIsNew DEF FlagsChange, SameFlags, Left, Joined

\* A clean-up keeps its cause from its admission to the peer's end.
LEMMA WorkForCauseStep ==
  RemoteTypes /\ InOrder /\ InHand /\ WorkForCause /\ FlagsChange /\
     [RemoteNext]_remoteVars => WorkForCause'
<1> SUFFICES ASSUME RemoteTypes /\ InOrder /\ InHand /\ WorkForCause /\ FlagsChange, [RemoteNext]_remoteVars
      PROVE  WorkForCause'
  OBVIOUS
<1>0. RemoteTypes
  OBVIOUS
<1>a. \A u \in PeerThreads :
       handler[u].at \in {"retire", "unlist"} =>
               current' = current \/ current' # handler[u].g
  BY CurrentMoves
<1>1. CASE UNCHANGED remoteVars
  BY <1>1 DEF remoteVars, WorkForCause
<1>2. CASE RemoteNext
  <2>1. ASSUME NEW t \in MessageThreads, NEW s \in PeerSessions, Candidate(t,
               s)
        PROVE  WorkForCause'
    <3>1. CASE current = 0
      <4>1. UNCHANGED <<handler, current>>
        BY <1>0, <2>1, <3>1, CandidateDoes
      <4> QED BY <4>1 DEF WorkForCause
    <3>2. CASE current # 0
      BY <1>0, <1>a, <2>1, <3>2, CandidateDoes, CauseKept, Threads
    <3> QED BY <3>1, <3>2
  <2>2. ASSUME NEW t \in MessageThreads, NEW s \in PeerSessions, Offered(t, s)
        PROVE  WorkForCause'
    BY <1>0, <1>a, <2>2, OfferedDoes, CauseKept, Threads DEF Fetched
  <2>3. ASSUME NEW t \in MessageThreads, NEW s \in PeerSessions,
               ClaimIdentity(t, s)
        PROVE  WorkForCause'
    <3>1. CASE UNCHANGED <<handler, current>>
      BY <3>1 DEF WorkForCause
    <3>2. CASE ~UNCHANGED <<handler, current>>
      <4>1. /\ Turns(t, "disconnect", current, s, info[current].session, 0, "cleanup")
            /\ current # 0 /\ Names(s, current) /\ current' = current
            /\ s = "" => Cardinality(Registered) <= 1
        BY <1>0, <2>3, <3>2, ClaimIdentityDoes
      <4>2. IF s # "" THEN info[current].session = s ELSE current = 1
        BY <1>0, <4>1, OneRegistered DEF Names
      <4> QED BY <1>0, <1>a, <4>1, <4>2, CauseKept, Threads
    <3> QED BY <3>1, <3>2
  <2>4. ASSUME NEW t \in MessageThreads, NEW s \in PeerSessions,
               NEW epoch \in 0..2, Cleanup(t, s, epoch)
        PROVE  WorkForCause'
    <3>1. CASE UNCHANGED <<handler, current>>
      BY <3>1 DEF WorkForCause
    <3>2. CASE ~UNCHANGED <<handler, current>>
      <4>1. /\ Turns(t, "claim", current, s, info[current].session, epoch, "cleanup")
            /\ current # 0 /\ Names(s, current) /\ current' = current
            /\ s = "" => Cardinality(Registered) <= 1
        BY <1>0, <2>4, <3>2, CleanupDoes
      <4>2. IF s # "" THEN info[current].session = s ELSE current = 1
        BY <1>0, <4>1, OneRegistered DEF Names
      <4> QED BY <1>0, <1>a, <4>1, <4>2, CauseKept, Threads
    <3> QED BY <3>1, <3>2
  <2>5. ASSUME NEW t \in MessageThreads, LookAtPeer(t) PROVE WorkForCause'
    BY <1>0, <1>a, <2>5, LookAtPeerDoes, CauseKept, Threads DEF Fetched
  <2>6. ASSUME NEW t \in MessageThreads, PushCandidate(t) PROVE WorkForCause'
    BY <1>0, <1>a, <2>6, PushCandidateDoes, CauseKept, Threads DEF Fetched
  <2>7. ASSUME NEW t \in MessageThreads, CreatePeer(t) PROVE WorkForCause'
    BY <1>0, <1>a, <2>7, CreatePeerDoes, CauseKept, Threads DEF Fetched
  <2>8. ASSUME NEW t \in MessageThreads, SetSession(t) PROVE WorkForCause'
    BY <1>0, <1>a, <2>8, SetSessionDoes, CauseKept, Threads DEF Fetched
  <2>9. ASSUME NEW t \in MessageThreads, Describe(t) PROVE WorkForCause'
    BY <1>0, <1>a, <2>9, DescribeDoes, CauseKept, Threads DEF Fetched
  <2>10. ASSUME NEW t \in MessageThreads, Drain(t) PROVE WorkForCause'
    BY <1>0, <1>a, <2>10, DrainDoes, CauseKept, Threads DEF Fetched
  <2>11. ASSUME NEW t \in MessageThreads, Claim(t) PROVE WorkForCause'
    <3>1. CASE Turns(t, "idle", 0, "", "", 0, "")
      BY <1>0, <1>a, <3>1, CauseKept, Threads
    <3>2. CASE ~Turns(t, "idle", 0, "", "", 0, "")
      <4>1. /\ handler[t].at = "claim" /\ current' = current
            /\ Turns(t, "disconnect", handler[t].g, handler[t].session, handler[t].own,
                     handler[t].epoch, handler[t].why)
        BY <1>0, <2>11, <3>2, ClaimDoes
      <4> QED BY <1>0, <1>a, <4>1, CauseKept, Threads DEF WorkForCause
    <3> QED BY <3>1, <3>2
  <2>12. ASSUME NEW t \in PeerThreads, MarkRetired(t) PROVE WorkForCause'
    <3>1. /\ handler[t].at = "retire" /\ current' = current
          /\ Turns(t, "unlist", handler[t].g, handler[t].session, handler[t].own,
                   handler[t].epoch, handler[t].why)
      BY <1>0, <2>12, MarkRetiredDoes
    <3> QED BY <1>0, <1>a, <3>1, CauseKept, Threads DEF WorkForCause
  <2>13. ASSUME NEW t \in PeerThreads, Unlist(t) PROVE WorkForCause'
    BY <1>0, <1>a, <2>13, UnlistDoes, CauseKept, Threads DEF Fetched
  <2>14. ASSUME NEW t \in PeerThreads, EraseQueue(t) PROVE WorkForCause'
    <3>1. /\ handler[t].at = "disconnect" /\ current' = current
          /\ Turns(t, "remove", handler[t].g, handler[t].session, handler[t].own,
                   handler[t].epoch, handler[t].why)
      BY <1>0, <2>14, EraseQueueDoes
    <3> QED BY <1>0, <1>a, <3>1, CauseKept, Threads DEF WorkForCause
  <2>15. ASSUME NEW t \in PeerThreads, RemovePeer(t) PROVE WorkForCause'
    BY <1>0, <1>a, <2>15, RemovePeerDoes, CauseKept, Threads DEF Fetched
  <2>16. ASSUME NEW g \in Generations, StateEnds(g) PROVE WorkForCause'
    BY <1>0, <1>a, <2>16, StateEndsDoes, CauseKept, Threads DEF Fetched
  <2>17. ASSUME NEW g \in Generations, LocalCandidate(g) PROVE WorkForCause'
    <3>1. CASE Dying(g)
      <4>1. UNCHANGED <<handler, current>>
        BY <1>0, <2>17, <3>1, LocalCandidateDoes
      <4> QED BY <4>1 DEF WorkForCause
    <3>2. CASE ~Dying(g)
      BY <1>0, <1>a, <2>17, <3>2, LocalCandidateDoes, CauseKept, Threads
    <3> QED BY <3>1, <3>2
  <2>18. ASSUME SendCandidates PROVE WorkForCause'
    BY <1>0, <1>a, <2>18, SendCandidatesDoes, CauseKept, Threads DEF Fetched
  <2>19. ASSUME CandidateLost PROVE WorkForCause'
    BY <1>a, <2>19 DEF CandidateLost, WorkForCause
  <2>20. ASSUME OwnerDisconnects PROVE WorkForCause'
    BY <1>0, <1>a, <2>20, OwnerDisconnectsDoes, CauseKept, Threads DEF Fetched
  <2>21. ASSUME StopViewing PROVE WorkForCause'
    BY <1>0, <1>a, <2>21, StopViewingDoes, CauseKept, Threads DEF Fetched
  <2> QED
    BY <1>2, <2>1, <2>2, <2>3, <2>4, <2>5, <2>6, <2>7, <2>8, <2>9, <2>10,
       <2>11,
       <2>12, <2>13, <2>14, <2>15, <2>16, <2>17, <2>18, <2>19, <2>20, <2>21 DEF
       RemoteNext, MessageThreads, PeerThreads
<1> QED BY <1>1, <1>2

\* Candidates are found and sent on RTC's thread alone.
LEMMA CandidatesStep == RemoteTypes /\ [RemoteNext]_remoteVars => CandidatesChange
<1> SUFFICES ASSUME RemoteTypes, [RemoteNext]_remoteVars PROVE CandidatesChange
  OBVIOUS
<1>0. RemoteTypes
  OBVIOUS
<1>1. CASE UNCHANGED remoteVars
  BY <1>1 DEF remoteVars, CandidatesChange, NoCandidate
<1>2. CASE RemoteNext
  <2>1. ASSUME NEW t \in MessageThreads, NEW s \in PeerSessions, Candidate(t,
               s)
        PROVE  CandidatesChange
    <3>1. NoCandidate
      BY <1>0, <2>1, CandidateDoes, Threads
      DEF NoCandidate, Turns, Holds, Marks,
         Others, Taken, Packs, MessageThreads
    <3> QED BY <3>1 DEF CandidatesChange
  <2>2. ASSUME NEW t \in MessageThreads, NEW s \in PeerSessions, Offered(t, s)
        PROVE  CandidatesChange
    <3>1. NoCandidate
      BY <1>0, <2>2, OfferedDoes, Threads
      DEF NoCandidate, Turns, Holds, Marks, Others,
         Taken, Packs, MessageThreads
    <3> QED BY <3>1 DEF CandidatesChange
  <2>3. ASSUME NEW t \in MessageThreads, NEW s \in PeerSessions,
               ClaimIdentity(t, s)
        PROVE  CandidatesChange
    <3>1. NoCandidate
      BY <1>0, <2>3, ClaimIdentityDoes, Threads
      DEF NoCandidate, Turns, Holds, Marks,
         Others, Taken, Packs, MessageThreads
    <3> QED BY <3>1 DEF CandidatesChange
  <2>4. ASSUME NEW t \in MessageThreads, NEW s \in PeerSessions,
               NEW epoch \in 0..2, Cleanup(t, s, epoch)
        PROVE  CandidatesChange
    <3>1. NoCandidate
      <4>1. /\ UNCHANGED <<info, bundle>>
            /\ \/ Turns(t, "claim", current, s, info[current].session, epoch, "cleanup")
               \/ UNCHANGED handler
        <5> HIDE DEF RemoteTypes
        <5> QED BY <1>0, <2>4, CleanupDoes
      <4>2. handler'["rtc"] = handler["rtc"]
        BY <4>1, Threads DEF Turns, MessageThreads
      <4> QED BY <4>1, <4>2 DEF NoCandidate
    <3> QED BY <3>1 DEF CandidatesChange
  <2>5. ASSUME NEW t \in MessageThreads, LookAtPeer(t) PROVE CandidatesChange
    <3>1. NoCandidate
      BY <1>0, <2>5, LookAtPeerDoes, Threads
      DEF NoCandidate, Turns, Holds, Marks,
         Others, Taken, Packs, MessageThreads
    <3> QED BY <3>1 DEF CandidatesChange
  <2>6. ASSUME NEW t \in MessageThreads, PushCandidate(t)
        PROVE  CandidatesChange
    <3>1. NoCandidate
      BY <1>0, <2>6, PushCandidateDoes, Threads
      DEF NoCandidate, Turns, Holds, Marks,
         Others, Taken, Packs, MessageThreads
    <3> QED BY <3>1 DEF CandidatesChange
  <2>7. ASSUME NEW t \in MessageThreads, CreatePeer(t) PROVE CandidatesChange
    <3>1. NoCandidate
      BY <1>0, <2>7, CreatePeerDoes, Threads
      DEF NoCandidate, Turns, Holds, Marks,
         Others, Taken, Packs, MessageThreads
    <3> QED BY <3>1 DEF CandidatesChange
  <2>8. ASSUME NEW t \in MessageThreads, SetSession(t) PROVE CandidatesChange
    <3>1. NoCandidate
      <4> DEFINE g == handler[t].g
      <4>1. /\ Turns(t, "describe", g, handler[t].session, handler[t].own,
                     handler[t].epoch, handler[t].why)
            /\ Others(g) /\ Holds(g, handler[t].session, info[g].locals, info[g].sent)
            /\ Marks(g, info[g].registered, info[g].active, info[g].retired,
                     info[g].terminal, FALSE)
            /\ Packs(g, handler[t].session, bundle[g].candidates)
        BY <1>0, <2>8, SetSessionDoes
      <4>2. t # "rtc" /\ "rtc" \in PeerThreads
        BY Threads DEF MessageThreads
      <4> HIDE DEF g
      <4>3. handler'["rtc"] = handler["rtc"]
        BY <4>1, <4>2 DEF Turns
      <4>4. \A h \in Generations :
              /\ info'[h].sent = info[h].sent /\ info'[h].locals = info[h].locals
              /\ bundle'[h].candidates = bundle[h].candidates
              /\ info'[h].retired = info[h].retired /\ info'[h].terminal = info[h].terminal
        BY <4>1 DEF Holds, Marks, Others, Packs
      <4> QED BY <4>3, <4>4 DEF NoCandidate
    <3> QED BY <3>1 DEF CandidatesChange
  <2>9. ASSUME NEW t \in MessageThreads, Describe(t) PROVE CandidatesChange
    <3>1. NoCandidate
      BY <1>0, <2>9, DescribeDoes, Threads
      DEF NoCandidate, Turns, Holds, Marks, Others,
         Taken, Packs, MessageThreads
    <3> QED BY <3>1 DEF CandidatesChange
  <2>10. ASSUME NEW t \in MessageThreads, Drain(t) PROVE CandidatesChange
    <3>1. NoCandidate
      BY <1>0, <2>10, DrainDoes, Threads
      DEF NoCandidate, Turns, Holds, Marks, Others,
         Taken, Packs, MessageThreads
    <3> QED BY <3>1 DEF CandidatesChange
  <2>11. ASSUME NEW t \in MessageThreads, Claim(t) PROVE CandidatesChange
    <3>1. NoCandidate
      BY <1>0, <2>11, ClaimDoes, Threads
      DEF NoCandidate, Turns, Holds, Marks, Others,
         Taken, Packs, MessageThreads
    <3> QED BY <3>1 DEF CandidatesChange
  <2>12. ASSUME NEW t \in PeerThreads, MarkRetired(t) PROVE CandidatesChange
    <3>1. NoCandidate
      <4> DEFINE g == handler[t].g
      <4>1. /\ handler[t].at = "retire"
            /\ Turns(t, "unlist", g, handler[t].session, handler[t].own,
                     handler[t].epoch, handler[t].why)
            /\ Others(g) /\ Holds(g, info[g].session, info[g].locals, info[g].sent)
            /\ Marks(g, info[g].registered, info[g].active, TRUE,
                     info[g].terminal, info[g].described)
            /\ bundle' = bundle
        BY <1>0, <2>12, MarkRetiredDoes
      <4> HIDE DEF g
      <4>3. handler["rtc"].at = "send" => handler'["rtc"] = handler["rtc"]
        BY <4>1, Threads DEF Turns
      <4>4. \A h \in Generations :
              /\ info'[h].sent = info[h].sent /\ info'[h].locals = info[h].locals
              /\ info[h].retired => info'[h].retired
              /\ info'[h].terminal = info[h].terminal
        BY <4>1 DEF Holds, Marks, Others
      <4> QED BY <4>1, <4>3, <4>4 DEF NoCandidate
    <3> QED BY <3>1 DEF CandidatesChange
  <2>13. ASSUME NEW t \in PeerThreads, Unlist(t) PROVE CandidatesChange
    <3>1. handler["rtc"].at = "send" => handler'["rtc"] = handler["rtc"]
      BY <1>0, <2>13, UnlistDoes, Threads DEF Turns
    <3>2. NoCandidate
      BY <1>0, <2>13, <3>1, UnlistDoes
      DEF NoCandidate, Holds, Marks, Others, Taken, Packs
    <3> QED BY <3>2 DEF CandidatesChange
  <2>14. ASSUME NEW t \in PeerThreads, EraseQueue(t) PROVE CandidatesChange
    <3>1. NoCandidate
      BY <1>0, <2>14, EraseQueueDoes, Threads
      DEF NoCandidate, Turns, Holds, Marks,
         Others, Taken, Packs, MessageThreads
    <3> QED BY <3>1 DEF CandidatesChange
  <2>15. ASSUME NEW t \in PeerThreads, RemovePeer(t) PROVE CandidatesChange
    <3>1. NoCandidate
      BY <1>0, <2>15, RemovePeerDoes, Threads
      DEF NoCandidate, Turns, Holds, Marks,
         Others, Taken, Packs, MessageThreads
    <3> QED BY <3>1 DEF CandidatesChange
  <2>16. ASSUME NEW g \in Generations, StateEnds(g) PROVE CandidatesChange
    <3>1. NoCandidate
      BY <1>0, <2>16, StateEndsDoes, Threads
      DEF NoCandidate, Turns, Holds, Marks,
         Others, Taken, Packs, MessageThreads
    <3> QED BY <3>1 DEF CandidatesChange
  <2>17. ASSUME NEW g \in Generations, LocalCandidate(g)
         PROVE  CandidatesChange
    <3>1. CASE Dying(g)
      <4>1. UNCHANGED <<handler, current, info, bundle>>
        BY <1>0, <2>17, <3>1, LocalCandidateDoes
      <4> QED BY <4>1 DEF CandidatesChange, NoCandidate
    <3>2. CASE ~Dying(g)
      <4>1. info[g].retired = FALSE /\ info[g].terminal = FALSE
        BY <1>0, <3>2 DEF Dying, RemoteTypes, InfoTypes, PeerRecord
      <4>2. FoundOne(g)
        BY <1>0, <2>17, <3>2, <4>1, LocalCandidateDoes
           DEF FoundOne, Turns, Marks, Holds, Others, Packs, SameFlags
      <4> QED BY <4>2 DEF CandidatesChange
    <3> QED BY <3>1, <3>2
  <2>18. ASSUME SendCandidates PROVE CandidatesChange
    <3> DEFINE g == handler["rtc"].g
    <3>0. g \in Generations
      BY <1>0, <2>18, SendCandidatesDoes
    <3>1. CASE MaySend(g)
      <4>1. info[g].active = TRUE
        BY <1>0, <3>0, <3>1 DEF MaySend, RemoteTypes, InfoTypes, PeerRecord
      <4>2. SentBundle(g)
        BY <1>0, <2>18, <3>1, <4>1, SendCandidatesDoes
           DEF SentBundle, Marks, Holds, Others, Packs, SameFlags
      <4> QED BY <3>0, <4>2 DEF CandidatesChange
    <3>2. CASE ~MaySend(g)
      <4>1. info[g].active = FALSE \/ info[g].retired = TRUE
        BY <1>0, <3>0, <3>2 DEF MaySend, RemoteTypes, InfoTypes, PeerRecord
      <4>2. SentNone(g)
        BY <1>0, <2>18, <3>2, <4>1, SendCandidatesDoes DEF SentNone
      <4> QED BY <3>0, <4>2 DEF CandidatesChange
    <3> QED BY <3>1, <3>2
  <2>19. ASSUME CandidateLost PROVE CandidatesChange
    <3>1. NoCandidate
      BY <2>19 DEF CandidateLost, NoCandidate
    <3> QED BY <3>1 DEF CandidatesChange
  <2>20. ASSUME OwnerDisconnects PROVE CandidatesChange
    <3>1. NoCandidate
      BY <1>0, <2>20, OwnerDisconnectsDoes, Threads
      DEF NoCandidate, Turns, Holds, Marks,
         Others, Taken, Packs, MessageThreads
    <3> QED BY <3>1 DEF CandidatesChange
  <2>21. ASSUME StopViewing PROVE CandidatesChange
    <3>1. NoCandidate
      BY <1>0, <2>21, StopViewingDoes, Threads
      DEF NoCandidate, Turns, Holds, Marks,
         Others, Taken, Packs, MessageThreads
    <3> QED BY <3>1 DEF CandidatesChange
  <2> QED
    BY <1>2, <2>1, <2>2, <2>3, <2>4, <2>5, <2>6, <2>7, <2>8, <2>9, <2>10,
       <2>11,
       <2>12, <2>13, <2>14, <2>15, <2>16, <2>17, <2>18, <2>19, <2>20, <2>21 DEF
       RemoteNext, MessageThreads, PeerThreads
<1> QED BY <1>1, <1>2

\* A sequence and one element more.
LEMMA Appended ==
  ASSUME NEW q \in Seq(Nat), NEW n \in Nat
  PROVE  /\ Append(q, n) \in Seq(Nat) /\ Len(Append(q, n)) = Len(q) + 1
         /\ \A i \in 1..Len(q) : Append(q, n)[i] = q[i]
         /\ Append(q, n)[Len(q) + 1] = n
OBVIOUS

\* Two sequences joined.
LEMMA Joint ==
  ASSUME NEW q \in Seq(Nat), NEW r \in Seq(Nat)
  PROVE  /\ q \o r \in Seq(Nat) /\ Len(q \o r) = Len(q) + Len(r)
         /\ \A i \in 1..Len(q) : (q \o r)[i] = q[i]
         /\ \A i \in Len(q) + 1 .. Len(q) + Len(r) :
              (q \o r)[i] = r[i - Len(q)]
OBVIOUS

\* The bundle follows what was sent.
LEMMA FirstAreSent ==
  ASSUME NEW q \in Seq(Nat), NEW r \in Seq(Nat), \A i \in 1..Len(q) : q[i] = i,
         \A i \in 1..Len(r) : r[i] = Len(q) + i
  PROVE  \A i \in 1..Len(q \o r) : (q \o r)[i] = i
<1> DEFINE m == Len(q)  n == Len(r)  s == q \o r
<1>1. m \in Nat /\ n \in Nat
  OBVIOUS
<1>2. /\ Len(s) = m + n /\ \A i \in 1..m : s[i] = q[i]
      /\ \A i \in m + 1 .. m + n : s[i] = r[i - m]
  BY Joint
<1>3. (\A i \in 1..m : q[i] = i) /\ (\A i \in 1..n : r[i] = m + i)
  OBVIOUS
<1> HIDE DEF m, n, s
<1>4. \A i \in 1..Len(s) : s[i] = i
  <2> SUFFICES ASSUME NEW i \in 1..(m + n) PROVE s[i] = i
    BY <1>2
  <2>1. CASE i \in 1..m
    BY <2>1, <1>2, <1>3
  <2>2. CASE i \in m + 1 .. m + n
    <3>1. i - m \in 1..n /\ m + (i - m) = i
      BY <2>2, <1>1
    <3> QED BY <2>2, <3>1, <1>2, <1>3
  <2> QED BY <2>1, <2>2, <1>1
<1> QED BY <1>4 DEF s

\* A candidate that is found follows the bundle.
LEMMA NextIsAdded ==
  ASSUME NEW m \in Nat, NEW r \in Seq(Nat), NEW k \in Nat, m + Len(r) = k,
         \A i \in 1..Len(r) : r[i] = m + i
  PROVE  LET a == Append(r, k + 1)
         IN m + Len(a) = k + 1 /\ \A i \in 1..Len(a) : a[i] = m + i
<1> DEFINE n == Len(r)  a == Append(r, k + 1)
<1>1. n \in Nat /\ Len(a) = n + 1 /\ (\A i \in 1..n : a[i] = r[i]) /\ a[n + 1] = k + 1
  BY Appended
<1>2. m + n = k /\ \A i \in 1..n : r[i] = m + i
  OBVIOUS
<1> HIDE DEF n, a
<1>3. \A i \in 1..(n + 1) : a[i] = m + i
  <2> SUFFICES ASSUME NEW i \in 1..(n + 1) PROVE a[i] = m + i
    OBVIOUS
  <2>1. i \in 1..n \/ i = n + 1
    BY <1>1
  <2> QED BY <1>1, <1>2, <2>1
<1> QED BY <1>1, <1>2, <1>3 DEF a

\* What is sent is in order.
LEMMA NumberedStep ==
  RemoteTypes /\ Numbered /\ BundleIsNext /\ CandidatesChange => Numbered'
<1> SUFFICES ASSUME RemoteTypes, Numbered, BundleIsNext, CandidatesChange,
        NEW g \in Generations
             PROVE  \A i \in 1..Len(info'[g].sent) : info'[g].sent[i] = i
  BY DEF Numbered
<1>1. CASE info'[g].sent = info[g].sent
  BY <1>1 DEF Numbered
<1>2. CASE info[g].active = TRUE /\ info'[g].sent = info[g].sent \o bundle[g].candidates
  <2>1. info[g].sent \in Seq(Nat) /\ bundle[g].candidates \in Seq(Nat)
    BY PeerFields, BundleFields DEF RemoteTypes
  <2>2. \A i \in 1..Len(bundle[g].candidates) :
          bundle[g].candidates[i] = Len(info[g].sent) + i
    BY <1>2 DEF BundleIsNext
  <2>3. \A i \in 1..Len(info[g].sent) : info[g].sent[i] = i
    BY DEF Numbered
  <2> QED BY <1>2, <2>1, <2>2, <2>3, FirstAreSent
<1> QED
  BY <1>1, <1>2
  DEF CandidatesChange, NoCandidate, FoundOne, SentBundle, SentNone

\* A bundle holds the next candidates.
LEMMA BundleIsNextStep ==
  RemoteTypes /\ InOrder /\ Ungiven /\ BundleIsNext /\ FlagsChange
          /\ CandidatesChange => BundleIsNext'
<1> SUFFICES ASSUME RemoteTypes, InOrder, Ungiven, BundleIsNext, FlagsChange,
        CandidatesChange,
                    NEW g \in Generations, info'[g].active
             PROVE  /\ Len(info'[g].sent) + Len(bundle'[g].candidates) = info'[g].locals
                    /\ \A i \in 1..Len(bundle'[g].candidates) :
                         bundle'[g].candidates[i] = Len(info'[g].sent) + i
  BY DEF BundleIsNext
<1>0. /\ info[g].sent \in Seq(Nat) /\ bundle[g].candidates \in Seq(Nat)
      /\ info[g].locals \in Nat /\ Len(info[g].sent) \in Nat
  <2>1. info[g].sent \in Seq(Nat) /\ bundle[g].candidates \in Seq(Nat)
          /\ info[g].locals \in Nat
    BY PeerFields, BundleFields DEF RemoteTypes
  <2> QED BY <2>1
<1>1. CASE info[g].active
  <2>1. /\ Len(info[g].sent) + Len(bundle[g].candidates) = info[g].locals
        /\ \A i \in 1..Len(bundle[g].candidates) :
             bundle[g].candidates[i] = Len(info[g].sent) + i
    BY <1>1 DEF BundleIsNext
  <2>2. CASE /\ info'[g].sent = info[g].sent /\ info'[g].locals = info[g].locals
             /\ bundle'[g].candidates = bundle[g].candidates
    BY <2>1, <2>2
  <2>3. CASE /\ info'[g].sent = info[g].sent /\ info'[g].locals = info[g].locals + 1
             /\ bundle'[g].candidates = Append(bundle[g].candidates, info[g].locals + 1)
    <3> DEFINE m == Len(info[g].sent)  r == bundle[g].candidates  k == info[g].locals
    <3>1. m \in Nat /\ r \in Seq(Nat) /\ k \in Nat /\ m + Len(r) = k
      BY <1>0, <2>1
    <3>2. \A i \in 1..Len(r) : r[i] = m + i
      BY <2>1
    <3>3. /\ Len(info'[g].sent) = m /\ info'[g].locals = k + 1
          /\ bundle'[g].candidates = Append(r, k + 1)
      BY <2>3
    <3> HIDE DEF m, r, k
    <3>4. /\ m + Len(Append(r, k + 1)) = k + 1
          /\ \A i \in 1..Len(Append(r, k + 1)) : Append(r, k + 1)[i] = m + i
      BY <3>1, <3>2, NextIsAdded
    <3> QED BY <3>3, <3>4
  <2>4. CASE /\ info'[g].sent = info[g].sent \o bundle[g].candidates
             /\ info'[g].locals = info[g].locals /\ bundle'[g].candidates = <<>>
    <3>1. Len(info'[g].sent) = info'[g].locals
      <4>1. Len(info[g].sent \o bundle[g].candidates)
              = Len(info[g].sent) + Len(bundle[g].candidates)
        BY <1>0, Joint
      <4> QED BY <2>1, <2>4, <4>1
    <3>2. Len(bundle'[g].candidates) = 0
      BY <2>4
    <3> QED BY <1>0, <2>4, <3>1, <3>2
  <2> QED BY <2>2, <2>3, <2>4
          DEF CandidatesChange, NoCandidate, FoundOne, SentBundle, SentNone
<1>2. CASE ~info[g].active
  <2>1. Joined(g)
    BY <1>2 DEF FlagsChange, SameFlags, Left, Joined
  <2>2. /\ info[g].sent = <<>> /\ info[g].locals = 0 /\ bundle[g].candidates = <<>>
    BY <2>1, JoinedIsNew DEF Ungiven
  <2>3. info'[g].active /\ ~SameFlags
    BY <2>1, NotNone DEF Joined, SameFlags
  <2>4. info'[g].sent = <<>> /\ info'[g].locals = 0 /\ bundle'[g].candidates = <<>>
    BY <1>2, <2>2, <2>3
    DEF CandidatesChange, NoCandidate, FoundOne, SentBundle, SentNone
  <2> QED BY <2>4
<1> QED BY <1>1, <1>2

\* A bundle has its callback.
LEMMA BundleGoesStep ==
  RemoteTypes /\ InOrder /\ Ungiven /\ BundleGoes /\ FlagsChange /\ CandidatesChange =>
          BundleGoes'
<1> SUFFICES ASSUME RemoteTypes, InOrder, Ungiven, BundleGoes, FlagsChange,
        CandidatesChange,
                    NEW g \in Generations, info'[g].active, ~info'[g].retired,
                            ~info'[g].terminal,
                    bundle'[g].candidates # <<>>
             PROVE  handler'["rtc"].at = "send" /\ handler'["rtc"].g = g
  BY DEF BundleGoes
<1>1. CASE NoCandidate
  <2>1. bundle[g].candidates # <<>> /\ ~info[g].retired /\ ~info[g].terminal
    BY <1>1 DEF NoCandidate
  <2>2. info[g].active
    <3> SUFFICES ASSUME ~info[g].active PROVE FALSE
      OBVIOUS
    <3>1. Joined(g)
      BY DEF FlagsChange, SameFlags, Left, Joined
    <3> QED BY <2>1, <3>1, JoinedIsNew DEF Ungiven
  <2> QED BY <1>1, <2>1, <2>2 DEF BundleGoes, NoCandidate
<1>2. ASSUME NEW h \in Generations, FoundOne(h)
      PROVE  handler'["rtc"].at = "send" /\ handler'["rtc"].g = g
  <2>1. CASE g = h
    BY <1>2, <2>1 DEF FoundOne
  <2>2. CASE g # h
    <3>1. info'[g] = info[g] /\ bundle'[g] = bundle[g] /\ handler["rtc"].at = "idle"
      BY <1>2, <2>2 DEF FoundOne
    <3> QED BY <3>1 DEF BundleGoes
  <2> QED BY <2>1, <2>2
<1>3. ASSUME NEW h \in Generations, SentBundle(h)
      PROVE  handler'["rtc"].at = "send" /\ handler'["rtc"].g = g
  <2>1. g # h
    BY <1>3 DEF SentBundle
  <2>2. info'[g] = info[g] /\ bundle'[g] = bundle[g] /\ handler["rtc"].g = h
    BY <1>3, <2>1 DEF SentBundle
  <2> QED BY <2>1, <2>2 DEF BundleGoes
<1>4. ASSUME NEW h \in Generations, SentNone(h)
      PROVE  handler'["rtc"].at = "send" /\ handler'["rtc"].g = g
  <2>1. handler["rtc"].g = g
    BY <1>4 DEF SentNone, BundleGoes
  <2> QED BY <1>4, <2>1 DEF SentNone
<1> QED BY <1>1, <1>2, <1>3, <1>4 DEF CandidatesChange

\* What had been sent is noted when a peer is ended.
LEMMA EndingSent ==
  ASSUME NEW why, NEW session, OneEnding(why, session)
  PROVE  info'[current].ended.sent = Len(info[current].sent)
<1> DEFINE n == Len(info[current].sent)  own == info[current].session
<1>1. info'[current].ended = [why |-> why, session |-> session, own |-> own, sent |-> n]
  BY DEF OneEnding
<1> HIDE DEF n, own
<1>2. info'[current].ended.sent = n
  BY <1>1
<1> QED BY <1>2 DEF n

\* A sequence of its own indices.
LEMMA CountedUp ==
  ASSUME NEW q \in Seq(Nat), \A i \in 1..Len(q) : q[i] = i
  PROVE  q = [n \in 1..Len(q) |-> n]
OBVIOUS

\* Nothing is sent after the end.
LEMMA SilentStep ==
  RemoteTypes /\ Ended /\ SilentAfterEnd /\ EndingsChange /\ CandidatesChange =>
          SilentAfterEnd'
<1> SUFFICES ASSUME RemoteTypes, Ended, SilentAfterEnd, EndingsChange, CandidatesChange,
                    NEW g \in Generations, info'[g].ended.why # ""
             PROVE  Len(info'[g].sent) = info'[g].ended.sent
  BY DEF SilentAfterEnd
<1>1. CASE info'[g].ended = info[g].ended
  <2>1. info[g].ended.why # "" /\ ~info[g].active
    BY <1>1 DEF Ended
  <2>2. info'[g].sent = info[g].sent
    BY <2>1 DEF CandidatesChange, NoCandidate, FoundOne, SentBundle, SentNone
  <2> QED BY <1>1, <2>1, <2>2 DEF SilentAfterEnd
<1>2. CASE info'[g].ended # info[g].ended
  <2>1. PICK why \in Reasons, session \in PeerSessions : g = current /\ OneEnding(why,
          session)
    BY <1>2 DEF EndingsChange, SameEndings, OneEnding
  <2>2. /\ info'[g].ended = [why |-> why, session |-> session, own |-> info[g].session,
                             sent |-> Len(info[g].sent)]
        /\ current' # current
    BY <2>1, NotNone DEF OneEnding
  <2>3. info'[g].ended.sent = Len(info[g].sent)
    BY <2>1, EndingSent
  <2>4. info'[g].sent = info[g].sent
    BY <2>2
    DEF CandidatesChange, NoCandidate, FoundOne, SentBundle, SentNone,
        SameFlags
  <2> QED BY <2>3, <2>4
<1> QED BY <1>1, <1>2

(***************************************************************************)
(* The theorems.                                                           *)
(***************************************************************************)
RemoteInv ==
  RemoteTypes /\ InOrder /\ InHand /\ Ungiven /\ ActiveIsCurrent /\ CauseInv /\ LocalInv

\* The invariant holds at first.
LEMMA InvInit == RemoteInit => RemoteInv
<1> SUFFICES ASSUME RemoteInit PROVE RemoteInv
  OBVIOUS
<1>1. NewPeer \in PeerRecord
  <2>1. NotEnded \in Endings
    BY NoneIs DEF NotEnded, Endings
  <2>2. <<>> \in Seq(Nat)
    OBVIOUS
  <2> QED BY <2>1, <2>2, NoneIs DEF NewPeer, PeerRecord
<1>2. /\ current = 0 /\ latest = 0 /\ current \in AnyPeer /\ latest \in Epochs
      /\ \A g \in Generations : info[g] = NewPeer /\ bundle[g] = NoBundle
      /\ \A t \in PeerThreads : handler[t] = RestingJob
  BY NoneIs DEF RemoteInit
<1>3. RemoteTypes
  <2>1. JobTypes
    BY RestingIs DEF RemoteInit, JobTypes
  <2>2. InfoTypes /\ BundleTypes
    BY <1>1, NoBundleIs DEF RemoteInit, InfoTypes, BundleTypes
  <2>3. JobInv
    BY <1>2, RestingIs DEF JobInv, Fetched, Ending
  <2> QED BY <1>2, <2>1, <2>2, <2>3 DEF RemoteTypes, PlaceTypes
<1>4. /\ NewPeer.registered = FALSE /\ NewPeer.active = FALSE
        /\ NewPeer.described = FALSE
      /\ NewPeer.sent = <<>> /\ NewPeer.locals = 0 /\ NewPeer.ended.why = ""
      /\ NewPeer.ended.sent = 0
  BY DEF NewPeer, NotEnded
<1>5. InOrder
  <2>1. Registered = {}
    BY <1>2, <1>4 DEF Registered
  <2>2. 0 \in 0..MaxPeers /\ 1..0 = {}
    BY MaxIsNat
  <2> QED BY <2>1, <2>2 DEF InOrder
<1>6. InHand /\ Ungiven
  BY <1>2, <1>4, RestingIs, NoBundleIs DEF InHand, Ungiven, Fetched
<1>7. ActiveIsCurrent
  BY <1>2, <1>4, NotNone DEF ActiveIsCurrent
<1>8. CauseInv
  BY <1>2, <1>4, RestingIs DEF CauseInv, Ended, WorkForCause, EndedForCause
<1>9. LocalInv
  <2>1. Numbered
    <3>1. \A g \in Generations : Len(info[g].sent) = 0
      <4>1. \A g \in Generations : info[g].sent = <<>>
        BY <1>2, <1>4
      <4>2. Len(<<>>) = 0
        OBVIOUS
      <4> QED BY <4>1, <4>2
    <3>2. 1..0 = {}
      OBVIOUS
    <3> QED BY <3>1, <3>2 DEF Numbered
  <2>2. BundleIsNext /\ SilentAfterEnd
    BY <1>2, <1>4 DEF BundleIsNext, SilentAfterEnd
  <2>3. BundleGoes
    BY <1>2, <1>4 DEF BundleGoes
  <2> QED BY <2>1, <2>2, <2>3 DEF LocalInv
<1> QED BY <1>3, <1>5, <1>6, <1>7, <1>8, <1>9 DEF RemoteInv

\* Every step keeps the invariant.
LEMMA InvStep == RemoteInv /\ [RemoteNext]_remoteVars => RemoteInv'
<1> SUFFICES ASSUME RemoteInv, [RemoteNext]_remoteVars PROVE RemoteInv'
  OBVIOUS
<1>1. RemoteTypes /\ InOrder /\ InHand /\ Ungiven /\ ActiveIsCurrent /\ CauseInv
        /\ LocalInv
  BY DEF RemoteInv
<1>2. RemoteTypes' /\ FlagsChange /\ HandsChange /\ Touched /\ CandidatesChange
  BY <1>1, TypesStep, FlagStep, HandsStep, TouchedStep, CandidatesStep
<1>3. EndingsChange
  BY <1>1, EndingsStep DEF CauseInv
<1>4. InOrder' /\ InHand' /\ Ungiven' /\ ActiveIsCurrent'
  BY <1>1, <1>2, OrderStep, InHandStep, UngivenStep, ActiveStep
<1>5. CauseInv'
  BY <1>1, <1>2, <1>3, EndedStep, WorkForCauseStep, EndedForCauseStep
  DEF CauseInv
<1>6. LocalInv'
  BY <1>1, <1>2, <1>3, NumberedStep, BundleIsNextStep, BundleGoesStep,
     SilentStep
     DEF LocalInv, CauseInv
<1> QED BY <1>2, <1>4, <1>5, <1>6 DEF RemoteInv

\* However late a clean-up comes and whatever replaces the peer meanwhile
\* (processSignalingLifecycleEvent, disconnectPeer), it ends only a peer of the
\* session it names, or the first peer of the uuid when it names none.
THEOREM CleanupsEndTheirOwn == RemoteSpec => []EndedForCause
<1>1. RemoteInv => EndedForCause
  BY DEF RemoteInv, CauseInv
<1> QED BY InvInit, InvStep, <1>1, PTL DEF RemoteSpec

\* Each local candidate of a peer is sent once and in its order, none after the
\* peer was taken out, and none of the present one is left behind
\* (onLocalCandidate, bundleAndSendCandidates).
THEOREM LocalsInOrder == RemoteSpec => []LocalsArrive
<1>1. RemoteInv => LocalsArrive
  <2> SUFFICES ASSUME RemoteInv, NEW g \in Generations
               PROVE  /\ info[g].sent = [n \in 1..Len(info[g].sent) |-> n]
                      /\ info[g].ended.why # "" =>
                              Len(info[g].sent) = info[g].ended.sent
                      /\ g = current /\ ~Dying(g) /\ Working("rtc", "idle") =>
                           Len(info[g].sent) = info[g].locals
    BY DEF LocalsArrive
  <2>1. RemoteTypes /\ ActiveIsCurrent /\ LocalInv
    BY DEF RemoteInv
  <2>2. info[g].sent \in Seq(Nat) /\ bundle[g].candidates \in Seq(Nat)
          /\ info[g].locals \in Nat
    BY <2>1, PeerFields, BundleFields DEF RemoteTypes
  <2>3. info[g].sent = [n \in 1..Len(info[g].sent) |-> n]
    <3>1. \A i \in 1..Len(info[g].sent) : info[g].sent[i] = i
      BY <2>1 DEF LocalInv, Numbered
    <3> QED BY <2>2, <3>1, CountedUp
  <2>4. info[g].ended.why # "" => Len(info[g].sent) = info[g].ended.sent
    BY <2>1 DEF LocalInv, SilentAfterEnd
  <2>5. ASSUME g = current, ~Dying(g), Working("rtc", "idle")
        PROVE  Len(info[g].sent) = info[g].locals
    <3>1. info[g].active /\ ~info[g].retired /\ ~info[g].terminal
            /\ handler["rtc"].at = "idle"
      BY <2>1, <2>5 DEF ActiveIsCurrent, Dying, Working
    <3>2. bundle[g].candidates = <<>>
      BY <2>1, <3>1 DEF LocalInv, BundleGoes
    <3>3. Len(info[g].sent) + Len(bundle[g].candidates) = info[g].locals
      BY <2>1, <3>1 DEF LocalInv, BundleIsNext
    <3>4. Len(info[g].sent) \in Nat /\ Len(bundle[g].candidates) = 0
      BY <2>2, <3>2
    <3> QED BY <3>3, <3>4
  <2> QED BY <2>3, <2>4, <2>5
<1> QED BY InvInit, InvStep, <1>1, PTL DEF RemoteSpec

(***************************************************************************)
(* The queue of remote candidates.                                         *)
(***************************************************************************)
\* It is a sequence, no longer than its limit.
AQueue(q) == (\E S : q \in Seq(S)) /\ Len(q) <= MaxQueued

LEMMA LimitIs == MaxQueued \in Nat /\ MaxQueued > 0
<1>1. MaxQueued \in Nat \ {0}
  BY RemoteAssumption
<1> QED BY <1>1

\* push drops the oldest at the limit.
LEMMA PushedIsQueue ==
  ASSUME AQueue(queued), NEW session PROVE AQueue(Pushed(session))
<1>1. PICK S : queued \in Seq(S)
  BY DEF AQueue
<1> DEFINE q == IF Len(queued) >= MaxQueued THEN Tail(queued) ELSE queued
           T == S \cup {session}
<1>2. q \in Seq(S) /\ Len(q) + 1 <= MaxQueued
  <2>1. CASE Len(queued) >= MaxQueued
    <3>1. q = Tail(queued) /\ queued # <<>> /\ Len(queued) = MaxQueued
      BY <1>1, <2>1, LimitIs DEF AQueue
    <3> QED BY <1>1, <3>1, LimitIs
  <2>2. CASE ~(Len(queued) >= MaxQueued)
    <3>1. q = queued
      BY <2>2
    <3> QED BY <1>1, <2>2, <3>1, LimitIs
  <2> QED BY <2>1, <2>2
<1> HIDE DEF q
<1>3. q \in Seq(T) /\ session \in T
  BY <1>2
<1> HIDE DEF T
<1>4. Append(q, session) \in Seq(T) /\ Len(Append(q, session)) = Len(q) + 1
  BY <1>3
<1>5. Pushed(session) = Append(q, session)
  BY DEF Pushed, q
<1> QED BY <1>2, <1>4, <1>5 DEF AQueue

\* takeCompatible leaves a part of it.
LEMMA NotTakenIsQueue ==
  ASSUME AQueue(queued), NEW session PROVE AQueue(NotTaken(session))
<1>1. PICK S : queued \in Seq(S)
  BY DEF AQueue
<1> DEFINE keep == {c \in PeerSessions : ~Compatible(c, session)}
           places == {i \in DOMAIN queued : queued[i] \in keep}
           m == Cardinality(places)
           T == {queued[Place(places, k)] : k \in 1..m}
<1>2. NotTaken(session) = [k \in 1..m |-> queued[Place(places, k)]]
  BY DEF NotTaken, Sifted
<1>3. m \in Nat /\ m <= Len(queued)
  <2>1. DOMAIN queued = 1..Len(queued) /\ Len(queued) \in Nat
    BY <1>1
  <2>2. IsFiniteSet(1..Len(queued)) /\ Cardinality(1..Len(queued)) = Len(queued)
    <3>1. ASSUME NEW n \in Nat
          PROVE  IsFiniteSet(1..n) /\ Cardinality(1..n) = n
      <4>1. IsFiniteSet(1..n) /\ Cardinality(1..n) = IF 1 > n THEN 0 ELSE n - 1 + 1
        BY FS_Interval
      <4> QED BY <4>1
    <3> QED BY <2>1, <3>1
  <2>3. places \subseteq 1..Len(queued)
    BY <2>1
  <2>4. IsFiniteSet(places) /\ m <= Len(queued)
    BY <2>2, <2>3, FS_Subset
  <2> QED BY <2>4, FS_CardinalityType
<1>4. NotTaken(session) \in [1..m -> T]
  BY <1>2
<1> HIDE DEF m, T
<1>5. NotTaken(session) \in Seq(T) /\ Len(NotTaken(session)) = m
  BY <1>3, <1>4
<1>6. Len(queued) <= MaxQueued /\ Len(queued) \in Nat
  BY <1>1 DEF AQueue
<1>7. Len(NotTaken(session)) <= MaxQueued
  BY <1>3, <1>5, <1>6, LimitIs
<1> QED BY <1>5, <1>7 DEF AQueue

\* Every step keeps it a queue.
LEMMA QueueStep ==
  ASSUME AQueue(queued), [RemoteNext]_remoteVars PROVE AQueue(queued')
<1>1. AQueue(<<>>)
  <2>1. <<>> \in Seq({}) /\ Len(<<>>) = 0
    OBVIOUS
  <2> QED BY <2>1, LimitIs DEF AQueue
<1>2. CASE UNCHANGED remoteVars
  BY <1>2 DEF remoteVars
<1>3. ASSUME NEW t \in MessageThreads, NEW s \in PeerSessions,
             Candidate(t, s) \/ Offered(t, s) \/ ClaimIdentity(t, s)
      PROVE  AQueue(queued')
  BY <1>3, PushedIsQueue DEF Candidate, Offered, ClaimIdentity
<1>4. ASSUME NEW t \in MessageThreads, NEW s \in PeerSessions, NEW epoch,
             Cleanup(t, s, epoch)
      PROVE  AQueue(queued')
  BY <1>4 DEF Cleanup
<1>5. ASSUME NEW t \in MessageThreads,
             \/ LookAtPeer(t) \/ PushCandidate(t) \/ CreatePeer(t) \/ SetSession(t)
             \/ Describe(t) \/ Claim(t)
      PROVE  AQueue(queued')
  BY <1>5, PushedIsQueue
  DEF LookAtPeer, PushCandidate, CreatePeer, SetSession, Describe, Claim
<1>6. ASSUME NEW t \in MessageThreads, Drain(t) PROVE AQueue(queued')
  BY <1>6, NotTakenIsQueue DEF Drain
<1>7. ASSUME NEW t \in PeerThreads,
             MarkRetired(t) \/ Unlist(t) \/ EraseQueue(t) \/ RemovePeer(t)
      PROVE  AQueue(queued')
  <2>1. MarkRetired(t) => queued' = queued
    BY Zenon DEF MarkRetired
  <2>2. Unlist(t) => queued' = queued
    BY Zenon DEF Unlist
  <2>3. EraseQueue(t) => queued' = <<>>
    BY Zenon DEF EraseQueue
  <2>4. RemovePeer(t) => queued' = queued
    BY Zenon DEF RemovePeer
  <2> QED BY <1>1, <1>7, <2>1, <2>2, <2>3, <2>4
<1>8. ASSUME NEW g \in Generations, StateEnds(g) \/ LocalCandidate(g)
      PROVE  AQueue(queued')
  BY <1>8 DEF StateEnds, LocalCandidate
<1>9. CASE SendCandidates \/ OwnerDisconnects \/ StopViewing
  BY <1>9 DEF SendCandidates, OwnerDisconnects, StopViewing
<1>10. CASE CandidateLost
  <2>1. PICK S : queued \in Seq(S)
    BY DEF AQueue
  <2>2. queued' = Tail(queued) /\ queued # <<>>
    BY <1>10 DEF CandidateLost
  <2>3. Tail(queued) \in Seq(S) /\ Len(Tail(queued)) = Len(queued) - 1 /\ Len(queued) \in Nat
    BY <2>1, <2>2
  <2>4. Len(queued) <= MaxQueued
    BY DEF AQueue
  <2> QED BY <2>2, <2>3, <2>4, LimitIs DEF AQueue
<1> QED BY <1>2, <1>3, <1>4, <1>5, <1>6, <1>7, <1>8, <1>9, <1>10 DEF RemoteNext

\* The peers, threads and bundles have their types, the queue keeps its limit,
\* and of the registered peers only the present one may send.
THEOREM RemoteTypeOKHolds == RemoteSpec => []RemoteTypeOK
<1>1. RemoteInit => RemoteInv /\ AQueue(queued)
  <2>1. <<>> \in Seq({}) /\ Len(<<>>) = 0
    OBVIOUS
  <2> QED BY <2>1, InvInit, LimitIs DEF AQueue, RemoteInit
<1>2. (RemoteInv /\ AQueue(queued)) /\ [RemoteNext]_remoteVars
        => (RemoteInv /\ AQueue(queued))'
  BY InvStep, QueueStep
<1>3. RemoteInv /\ AQueue(queued) => RemoteTypeOK
  BY DEF RemoteInv, RemoteTypes, PlaceTypes, AnyPeer, Epochs, ActiveIsCurrent, AQueue,
     RemoteTypeOK
<1> QED BY <1>1, <1>2, <1>3, PTL DEF RemoteSpec

(***************************************************************************)
(* The track slots: types.                                                 *)
(***************************************************************************)
AnyTrack == Tracks \cup {NoTrack}
HookLeases == {NoHook} \cup [kind : SlotKinds, rev : Nat]
\* The events of the first n changes of slots.
EventsTo(n) ==
  [kind : SlotKinds \cup {"none"}, rev : Nat, seq : 0..n, track : AnyTrack,
   retired : AnyTrack]
SlotRecord ==
  [registered : BOOLEAN, retired : BOOLEAN, released : BOOLEAN,
   slot : [SlotKinds -> AnyTrack], rev : [SlotKinds -> Nat], seq : Nat]
TrackRecord ==
  [made : BOOLEAN, closed : BOOLEAN, owed : SUBSET EndHooks, hooks : [EndHooks -> HookLeases]]
SlotStages ==
  {"idle", "install", "installError", "reinstall", "reinstallError", "dispatch", "tell",
   "clear", "detach", "recheck", "sections", "add", "store", "connected", "unregister",
   "slots"}
JobsTo(n) ==
  [at : SlotStages, event : EventsTo(n), queue : Seq(EventsTo(n)), todo : Seq(Tracks),
   lease : HookLeases, sections : Seq(Sections), shut : SUBSET SlotKinds,
   inside : (Tracks \X EndHooks) \cup {<<NoTrack, "none">>}]
Words(n) == [SlotKinds -> [seq : 0..n, track : AnyTrack]]
Allowances ==
  [offers : Seq(Seq({"video", "alpha", "audio"})), tracks : Nat, ends : Nat,
   connects : Nat]

\* A thread has what the step it is at works on.
Fresh == {"install", "installError", "dispatch"}
Clearing == {"clear", "detach", "recheck", "reinstall", "reinstallError"}
HasWork(j) ==
  /\ j.at \in Fresh =>
       /\ j.event.track \in Tracks /\ j.event.kind \in SlotKinds
       /\ j.lease = [kind |-> j.event.kind, rev |-> j.event.rev]
  /\ j.at \in Clearing => j.todo # <<>>
  /\ j.at = "add" => j.event.kind \in SlotKinds /\ j.sections # <<>>
  /\ j.at = "store" => j.event.track \in Tracks
GoodJob(n, j) == j \in JobsTo(n) /\ HasWork(j)

SlotTypes ==
  /\ slots \in SlotRecord
  /\ tracks \in [Tracks -> TrackRecord]
  /\ task \in [SlotThreads -> JobsTo(slots.seq)]
  /\ \A t \in SlotThreads : HasWork(task[t])
  /\ told \in Words(slots.seq)
  /\ allowance \in Allowances

LEMMA IdleIs == \A n \in Nat : GoodJob(n, IdleJob)
<1> SUFFICES ASSUME NEW n \in Nat PROVE GoodJob(n, IdleJob)
  OBVIOUS
<1>1. NoEvent \in EventsTo(n)
  BY DEF NoEvent, EventsTo, AnyTrack
<1>2. <<>> \in Seq(EventsTo(n)) /\ <<>> \in Seq(Tracks) /\ <<>> \in Seq(Sections)
  OBVIOUS
<1>3. IdleJob \in JobsTo(n)
  BY <1>1, <1>2 DEF IdleJob, JobsTo, SlotStages, HookLeases
<1>4. IdleJob.at = "idle"
  BY DEF IdleJob
<1> QED BY <1>3, <1>4 DEF GoodJob, HasWork, Fresh, Clearing

\* A job stays one when more slots have changed.
LEMMA MoreEvents ==
  ASSUME NEW n \in Nat, NEW m \in Nat, n <= m
  PROVE  EventsTo(n) \subseteq EventsTo(m) /\ JobsTo(n) \subseteq JobsTo(m)
         /\ Words(n) \subseteq Words(m)
<1>1. 0..n \subseteq 0..m
  OBVIOUS
<1>2. EventsTo(n) \subseteq EventsTo(m)
  BY <1>1 DEF EventsTo
<1>3. Seq(EventsTo(n)) \subseteq Seq(EventsTo(m))
  BY <1>2
<1>4. JobsTo(n) \subseteq JobsTo(m)
  BY <1>2, <1>3 DEF JobsTo
<1>5. Words(n) \subseteq Words(m)
  BY <1>1 DEF Words
<1> QED BY <1>2, <1>4, <1>5

\* A thread that goes on with a job of its own.
LEMMA SetKeeps ==
  ASSUME SlotTypes, NEW t \in SlotThreads, NEW j, Set(t, j), slots' \in SlotRecord,
         slots.seq <= slots'.seq, GoodJob(slots'.seq, j)
  PROVE  /\ task' \in [SlotThreads -> JobsTo(slots'.seq)]
         /\ \A u \in SlotThreads : HasWork(task'[u])
<1>1. slots.seq \in Nat /\ slots'.seq \in Nat
  BY DEF SlotTypes, SlotRecord
<1>2. JobsTo(slots.seq) \subseteq JobsTo(slots'.seq)
  BY <1>1, MoreEvents
<1>3. task' = [task EXCEPT ![t] = j]
  BY DEF Set
<1>4. task \in [SlotThreads -> JobsTo(slots'.seq)] /\ j \in JobsTo(slots'.seq) /\ HasWork(j)
      /\ \A u \in SlotThreads : HasWork(task[u])
  BY <1>2 DEF SlotTypes, GoodJob
<1>5. \A u \in SlotThreads : task'[u] = IF u = t THEN j ELSE task[u]
  BY <1>3, <1>4
<1> QED BY <1>3, <1>4, <1>5

\* A slot is written, and the event that says so.
LEMMA StoredIs ==
  ASSUME slots \in SlotRecord, NEW kind \in SlotKinds, NEW h \in AnyTrack
  PROVE  /\ Stored(kind, h) \in SlotRecord /\ Stored(kind, h).seq = slots.seq + 1
         /\ EventFor(kind, h) \in EventsTo(slots.seq + 1)
         /\ EventFor(kind, h).kind = kind /\ EventFor(kind, h).track = h
         /\ slots.seq \in Nat
<1>1. slots.slot \in [SlotKinds -> AnyTrack] /\ slots.rev \in [SlotKinds -> Nat]
      /\ slots.seq \in Nat
  BY DEF SlotRecord
<1> DEFINE a == [slots.slot EXCEPT ![kind] = h]
           b == [slots.rev EXCEPT ![kind] = @ + 1]
<1>2. /\ slots.slot[kind] \in AnyTrack /\ slots.rev[kind] \in Nat
      /\ a \in [SlotKinds -> AnyTrack] /\ b \in [SlotKinds -> Nat]
  BY <1>1
<1>3. Stored(kind, h) = [slots EXCEPT !.slot = a, !.rev = b, !.seq = @ + 1]
  BY DEF Stored, SlotRecord
<1> HIDE DEF a, b
<1>4. Stored(kind, h) \in SlotRecord /\ Stored(kind, h).seq = slots.seq + 1
  <2>1. slots.seq + 1 \in Nat
    BY <1>1
  <2> DEFINE n == slots.seq + 1
  <2>2. n \in Nat /\ Stored(kind, h) = [slots EXCEPT !.slot = a, !.rev = b, !.seq = n]
    BY <1>3, <2>1
  <2> HIDE DEF n
  <2>3. Stored(kind, h) \in SlotRecord /\ Stored(kind, h).seq = n
    BY <1>2, <2>2 DEF SlotRecord
  <2> QED BY <2>3 DEF n
<1>5. EventFor(kind, h) \in EventsTo(slots.seq + 1)
  BY <1>1, <1>2 DEF EventFor, EventsTo
<1>6. EventFor(kind, h).kind = kind /\ EventFor(kind, h).track = h
  BY DEF EventFor
<1> QED BY <1>1, <1>4, <1>5, <1>6

\* The tracks of an event.
LEMMA TracksOfIs ==
  ASSUME NEW n \in Nat, NEW event \in EventsTo(n)
  PROVE  /\ TracksOf(event) \in Seq(Tracks)
         /\ event.track \in Tracks => TracksOf(event) # <<>>
<1>1. event.track \in AnyTrack /\ event.retired \in AnyTrack
  BY DEF EventsTo
<1>2. NoTrack \notin Tracks
  BY DEF NoTrack, Tracks, Sections
<1>3. ASSUME NEW h \in AnyTrack
      PROVE  /\ Only(h) \in Seq(Tracks)
             /\ h \in Tracks => Len(Only(h)) = 1
  BY <1>2 DEF Only, AnyTrack
<1>4. Only(event.track) \in Seq(Tracks) /\ Only(event.retired) \in Seq(Tracks)
      /\ (event.track \in Tracks => Len(Only(event.track)) = 1)
  BY <1>1, <1>3
<1>5. TracksOf(event) \in Seq(Tracks)
      /\ Len(TracksOf(event)) = Len(Only(event.track)) + Len(Only(event.retired))
  BY <1>4 DEF TracksOf
<1>6. Len(Only(event.retired)) \in Nat /\ Len(<<>>) = 0
  BY <1>4
<1>7. ASSUME event.track \in Tracks PROVE Len(TracksOf(event)) # 0
  <2>1. Len(Only(event.track)) = 1
    BY <1>4, <1>7
  <2>2. Len(TracksOf(event)) = Len(Only(event.track)) + Len(Only(event.retired))
    BY <1>5
  <2>3. Len(Only(event.retired)) \in Nat
    BY <1>6
  <2> QED BY <2>1, <2>2, <2>3
<1> QED BY <1>5, <1>6, <1>7

\* The steps of a thread that has stored an event.
LEMMA CommittedIs ==
  ASSUME NEW n \in Nat, NEW j \in JobsTo(n), NEW event \in EventsTo(n),
         event.kind \in SlotKinds
  PROVE  GoodJob(n, Committed(j, event))
<1> DEFINE c == Committed(j, event)
<1>1. event.rev \in Nat /\ event.track \in AnyTrack
  BY DEF EventsTo
<1>2. [kind |-> event.kind, rev |-> event.rev] \in HookLeases
  BY <1>1 DEF HookLeases
<1>3. /\ c \in JobsTo(n) /\ c.at = (IF event.track = NoTrack THEN "tell" ELSE "install")
      /\ c.event = event /\ c.lease = [kind |-> event.kind, rev |-> event.rev]
  BY <1>2 DEF Committed, JobsTo, SlotStages
<1>4. c.at = "install" => event.track \in Tracks
  BY <1>1, <1>3 DEF AnyTrack
<1>5. HasWork(c)
  BY <1>3, <1>4 DEF HasWork, Fresh, Clearing
<1> QED BY <1>3, <1>5 DEF GoodJob

\* What a thread does after an event, and after a track of it.
LEMMA ClearNextIs ==
  ASSUME NEW n \in Nat, NEW j \in JobsTo(n), NEW t
  PROVE  GoodJob(n, ClearNext(t, j))
<1>1. CASE j.todo # <<>>
  <2>1. ClearNext(t, j) = [j EXCEPT !.at = "clear"]
    BY <1>1 DEF ClearNext
  <2>2. ClearNext(t, j) \in JobsTo(n) /\ ClearNext(t, j).at = "clear"
        /\ ClearNext(t, j).todo = j.todo
    BY <2>1 DEF JobsTo, SlotStages
  <2> QED BY <1>1, <2>2 DEF GoodJob, HasWork, Fresh, Clearing
<1>2. CASE j.todo = <<>> /\ j.queue # <<>>
  <2>1. ClearNext(t, j)
          = [j EXCEPT !.at = "tell", !.event = Head(j.queue), !.queue = Tail(@)]
    BY <1>2 DEF ClearNext
  <2>2. j.queue \in Seq(EventsTo(n))
    BY DEF JobsTo
  <2>3. Head(j.queue) \in EventsTo(n) /\ Tail(j.queue) \in Seq(EventsTo(n))
    BY <1>2, <2>2
  <2>4. ClearNext(t, j) \in JobsTo(n) /\ ClearNext(t, j).at = "tell"
    BY <2>1, <2>3 DEF JobsTo, SlotStages
  <2> QED BY <2>4 DEF GoodJob, HasWork, Fresh, Clearing
<1>3. CASE j.todo = <<>> /\ j.queue = <<>>
  <2>1. ClearNext(t, j) =
          [IdleJob EXCEPT !.at = IF t = "offer" THEN "sections" ELSE "idle",
                          !.sections = j.sections]
    BY <1>3 DEF ClearNext
  <2>2. IdleJob \in JobsTo(n) /\ j.sections \in Seq(Sections)
    BY IdleIs DEF GoodJob, JobsTo
  <2>3. ClearNext(t, j) \in JobsTo(n) /\ ClearNext(t, j).at \in {"sections", "idle"}
    BY <2>1, <2>2 DEF JobsTo, SlotStages
  <2> QED BY <2>3 DEF GoodJob, HasWork, Fresh, Clearing
<1> QED BY <1>1, <1>2, <1>3

LEMMA AfterTrackIs ==
  ASSUME NEW n \in Nat, NEW j \in JobsTo(n), j.todo # <<>>, NEW t
  PROVE  GoodJob(n, AfterTrack(t, j))
<1>1. j.todo \in Seq(Tracks)
  BY DEF JobsTo
<1>2. Tail(j.todo) \in Seq(Tracks)
  BY <1>1
<1>3. [j EXCEPT !.todo = Tail(@)] \in JobsTo(n)
  BY <1>2 DEF JobsTo
<1> QED BY <1>3, ClearNextIs DEF AfterTrack

\* A step in which a thread goes on, the slots are as they were and the rest
\* keeps its type.
LEMMA StaysTyped ==
  ASSUME SlotTypes, NEW t \in SlotThreads, NEW j, Set(t, j), UNCHANGED slots,
         GoodJob(slots.seq, j), tracks' \in [Tracks -> TrackRecord],
         told' \in Words(slots.seq), allowance' \in Allowances
  PROVE  SlotTypes'
<1>1. slots' \in SlotRecord /\ slots'.seq = slots.seq /\ slots.seq \in Nat
  BY DEF SlotTypes, SlotRecord
<1>2. slots.seq <= slots'.seq /\ GoodJob(slots'.seq, j)
  BY <1>1
<1>3. /\ task' \in [SlotThreads -> JobsTo(slots'.seq)]
      /\ \A u \in SlotThreads : HasWork(task'[u])
  BY <1>1, <1>2, SetKeeps
<1> QED BY <1>1, <1>3 DEF SlotTypes

\* A step in which a slot is written and its thread goes on.
LEMMA StoresTyped ==
  ASSUME SlotTypes, NEW t \in SlotThreads, NEW j, Set(t, j),
         NEW kind \in SlotKinds, NEW h \in AnyTrack, slots' = Stored(kind, h),
         GoodJob(slots.seq + 1, j), tracks' \in [Tracks -> TrackRecord],
         UNCHANGED told, allowance' \in Allowances
  PROVE  SlotTypes'
<1>1. slots \in SlotRecord
  BY DEF SlotTypes
<1>2. slots' \in SlotRecord /\ slots'.seq = slots.seq + 1 /\ slots.seq \in Nat
  BY <1>1, StoredIs
<1>3. slots.seq <= slots'.seq /\ slots'.seq \in Nat /\ GoodJob(slots'.seq, j)
  BY <1>2
<1>4. /\ task' \in [SlotThreads -> JobsTo(slots'.seq)]
      /\ \A u \in SlotThreads : HasWork(task'[u])
  BY <1>2, <1>3, SetKeeps
<1>5. told' \in Words(slots'.seq)
  BY <1>2, <1>3, MoreEvents DEF SlotTypes
<1> QED BY <1>2, <1>4, <1>5 DEF SlotTypes

\* What the types say of a thread.
LEMMA JobIs ==
  ASSUME SlotTypes, NEW t \in SlotThreads
  PROVE  /\ task[t] \in JobsTo(slots.seq) /\ HasWork(task[t]) /\ slots.seq \in Nat
         /\ task[t].event \in EventsTo(slots.seq) /\ task[t].todo \in Seq(Tracks)
         /\ task[t].sections \in Seq(Sections) /\ task[t].queue \in Seq(EventsTo(slots.seq))
         /\ task[t].lease \in HookLeases /\ task[t].at \in SlotStages
         /\ task[t].shut \subseteq SlotKinds
         /\ slots \in SlotRecord /\ tracks \in [Tracks -> TrackRecord]
         /\ told \in Words(slots.seq) /\ allowance \in Allowances
<1>1. task[t] \in JobsTo(slots.seq) /\ HasWork(task[t]) /\ slots.seq \in Nat
  BY DEF SlotTypes, SlotRecord
<1> QED BY <1>1 DEF SlotTypes, JobsTo

\* A track's hook is set.
LEMMA HookIsSet ==
  ASSUME tracks \in [Tracks -> TrackRecord], NEW h \in Tracks, NEW hook \in EndHooks,
         NEW lease \in HookLeases
  PROVE  [tracks EXCEPT ![h].hooks[hook] = lease] \in [Tracks -> TrackRecord]
<1>1. tracks[h] \in TrackRecord /\ tracks[h].hooks \in [EndHooks -> HookLeases]
  BY DEF TrackRecord
<1> DEFINE a == [tracks[h].hooks EXCEPT ![hook] = lease]
           p == [tracks[h] EXCEPT !.hooks = a]
<1>2. a \in [EndHooks -> HookLeases]
  BY <1>1
<1>3. [tracks EXCEPT ![h].hooks[hook] = lease] = [tracks EXCEPT ![h] = p]
  BY <1>1 DEF TrackRecord
<1> HIDE DEF a
<1>4. p \in TrackRecord
  BY <1>1, <1>2 DEF TrackRecord
<1> HIDE DEF p
<1> QED BY <1>3, <1>4

\* A track's hooks are taken away.
LEMMA HooksGo ==
  ASSUME tracks \in [Tracks -> TrackRecord], NEW h \in Tracks
  PROVE  [tracks EXCEPT ![h].hooks = [hook \in EndHooks |-> NoHook]]
           \in [Tracks -> TrackRecord]
<1> DEFINE a == [hook \in EndHooks |-> NoHook]
           p == [tracks[h] EXCEPT !.hooks = a]
<1>1. tracks[h] \in TrackRecord /\ a \in [EndHooks -> HookLeases]
  BY DEF HookLeases
<1>3. [tracks EXCEPT ![h].hooks = a] = [tracks EXCEPT ![h] = p]
  OBVIOUS
<1> HIDE DEF a
<1>4. p \in TrackRecord
  BY <1>1 DEF TrackRecord
<1> HIDE DEF p
<1>5. [tracks EXCEPT ![h] = p] \in [Tracks -> TrackRecord]
  BY <1>4
<1> QED BY <1>3, <1>5 DEF a

\* installTrackLifecycleCallbacks
LEMMA InstallTrackHookTyped ==
  ASSUME SlotTypes, NEW t \in SlotThreads, InstallTrackHook(t) PROVE SlotTypes'
<1> DEFINE j == task[t]
           h == HookedTrack(j)
           hook == IF j.at \in {"install", "reinstall"} THEN "closed" ELSE "error"
           lasts == HasLease(h, j.lease)
<1>1. /\ j \in JobsTo(slots.seq) /\ HasWork(j) /\ slots.seq \in Nat
      /\ j.event \in EventsTo(slots.seq) /\ j.todo \in Seq(Tracks) /\ j.lease \in HookLeases
      /\ tracks \in [Tracks -> TrackRecord] /\ told \in Words(slots.seq)
      /\ allowance \in Allowances
  BY JobIs
<1>2. /\ Installing(j) /\ tracks' = [tracks EXCEPT ![h].hooks[hook] = j.lease]
      /\ UNCHANGED <<slots, told, allowance>>
  BY DEF InstallTrackHook
<1>3. h \in Tracks /\ hook \in EndHooks
  <2>1. CASE j.at \in {"install", "installError"}
    BY <1>1, <2>1 DEF HookedTrack, HasWork, Fresh, EndHooks
  <2>2. CASE j.at \in {"reinstall", "reinstallError"}
    <3>1. j.todo # <<>> /\ h = Head(j.todo)
      BY <1>1, <2>2 DEF HookedTrack, HasWork, Clearing
    <3> QED BY <1>1, <3>1 DEF EndHooks
  <2> QED BY <1>2, <2>1, <2>2 DEF Installing
<1>4. tracks' \in [Tracks -> TrackRecord]
  BY <1>1, <1>2, <1>3, HookIsSet
<1>5. PICK k : Set(t, k) /\ GoodJob(slots.seq, k)
  <2>1. CASE j.at = "install" /\ lasts
    <3>1. Set(t, [j EXCEPT !.at = "installError"])
      BY <2>1 DEF InstallTrackHook
    <3>2. GoodJob(slots.seq, [j EXCEPT !.at = "installError"])
      BY <1>1, <2>1 DEF GoodJob, HasWork, Fresh, Clearing, JobsTo, SlotStages
    <3> QED BY <3>1, <3>2
  <2>2. CASE j.at = "reinstall" /\ lasts
    <3>1. Set(t, [j EXCEPT !.at = "reinstallError"])
      BY <2>2 DEF InstallTrackHook
    <3>2. GoodJob(slots.seq, [j EXCEPT !.at = "reinstallError"])
      BY <1>1, <2>2 DEF GoodJob, HasWork, Fresh, Clearing, JobsTo, SlotStages
    <3> QED BY <3>1, <3>2
  <2>3. CASE j.at = "installError" /\ lasts
    <3>1. Set(t, [j EXCEPT !.at = "dispatch"])
      BY <2>3 DEF InstallTrackHook
    <3>2. GoodJob(slots.seq, [j EXCEPT !.at = "dispatch"])
      BY <1>1, <2>3 DEF GoodJob, HasWork, Fresh, Clearing, JobsTo, SlotStages
    <3> QED BY <3>1, <3>2
  <2>4. CASE j.at = "reinstallError" /\ lasts
    <3>1. Set(t, AfterTrack(t, j))
      BY <2>4 DEF InstallTrackHook
    <3>2. j.todo # <<>>
      BY <1>1, <2>4 DEF HasWork, Clearing
    <3> QED BY <1>1, <3>1, <3>2, AfterTrackIs
  <2>5. CASE j.at \in {"install", "installError"} /\ ~lasts
    <3>1. Set(t, [j EXCEPT !.at = "clear", !.todo = TracksOf(j.event)])
      BY <2>5 DEF InstallTrackHook
    <3>2. TracksOf(j.event) \in Seq(Tracks) /\ TracksOf(j.event) # <<>>
      BY <1>1, <2>5, TracksOfIs DEF HasWork, Fresh
    <3>3. GoodJob(slots.seq, [j EXCEPT !.at = "clear", !.todo = TracksOf(j.event)])
      BY <1>1, <3>2 DEF GoodJob, HasWork, Fresh, Clearing, JobsTo, SlotStages
    <3> QED BY <3>1, <3>3
  <2>6. CASE j.at \in {"reinstall", "reinstallError"} /\ ~lasts
    <3>1. Set(t, [j EXCEPT !.at = "detach"])
      BY <2>6 DEF InstallTrackHook
    <3>2. GoodJob(slots.seq, [j EXCEPT !.at = "detach"])
      BY <1>1, <2>6 DEF GoodJob, HasWork, Fresh, Clearing, JobsTo, SlotStages
    <3> QED BY <3>1, <3>2
  <2> QED BY <1>2, <2>1, <2>2, <2>3, <2>4, <2>5, <2>6 DEF Installing
<1> QED BY <1>1, <1>2, <1>4, <1>5, StaysTyped

\* clearRetiredTrackCallbacksIfUnused
LEMMA ClearTrackTyped ==
  ASSUME SlotTypes, NEW t \in SlotThreads, ClearTrack(t) PROVE SlotTypes'
<1> DEFINE j == task[t]
<1>1. /\ j \in JobsTo(slots.seq) /\ HasWork(j) /\ slots.seq \in Nat
      /\ tracks \in [Tracks -> TrackRecord] /\ told \in Words(slots.seq)
      /\ allowance \in Allowances
  BY JobIs
<1>2. j.at = "clear" /\ UNCHANGED <<slots, tracks, told, allowance>>
  BY DEF ClearTrack, Does
<1>3. j.todo # <<>>
  BY <1>1, <1>2 DEF HasWork, Clearing
<1>4. PICK k : Set(t, k) /\ k \in {AfterTrack(t, j), [j EXCEPT !.at = "detach"]}
  BY DEF ClearTrack
<1>5. GoodJob(slots.seq, [j EXCEPT !.at = "detach"])
  BY <1>1, <1>3 DEF GoodJob, HasWork, Fresh, Clearing, JobsTo, SlotStages
<1>6. GoodJob(slots.seq, k)
  BY <1>1, <1>3, <1>4, <1>5, AfterTrackIs
<1> QED BY <1>1, <1>2, <1>4, <1>6, StaysTyped

LEMMA DetachTyped ==
  ASSUME SlotTypes, NEW t \in SlotThreads, Detach(t) PROVE SlotTypes'
<1> DEFINE j == task[t]
<1>1. /\ j \in JobsTo(slots.seq) /\ HasWork(j) /\ slots.seq \in Nat
      /\ j.todo \in Seq(Tracks)
      /\ tracks \in [Tracks -> TrackRecord] /\ told \in Words(slots.seq)
      /\ allowance \in Allowances
  BY JobIs
<1>2. /\ j.at = "detach" /\ UNCHANGED <<slots, told, allowance>>
      /\ tracks' = [tracks EXCEPT ![Head(j.todo)].hooks = [hook \in EndHooks |-> NoHook]]
      /\ Set(t, [j EXCEPT !.at = "recheck"])
  BY DEF Detach, Does
<1>3. j.todo # <<>>
  BY <1>1, <1>2 DEF HasWork, Clearing
<1>4. Head(j.todo) \in Tracks
  BY <1>1, <1>3
<1>5. tracks' \in [Tracks -> TrackRecord]
  BY <1>1, <1>2, <1>4, HooksGo
<1>6. GoodJob(slots.seq, [j EXCEPT !.at = "recheck"])
  BY <1>1, <1>3 DEF GoodJob, HasWork, Fresh, Clearing, JobsTo, SlotStages
<1> QED BY <1>1, <1>2, <1>5, <1>6, StaysTyped

LEMMA RecheckTyped ==
  ASSUME SlotTypes, NEW t \in SlotThreads, Recheck(t) PROVE SlotTypes'
<1> DEFINE j == task[t]
           back(k) == [j EXCEPT !.at = "reinstall",
                                !.lease = [kind |-> k, rev |-> slots.rev[k]]]
<1>1. /\ j \in JobsTo(slots.seq) /\ HasWork(j) /\ slots.seq \in Nat
      /\ slots \in SlotRecord
      /\ tracks \in [Tracks -> TrackRecord] /\ told \in Words(slots.seq)
      /\ allowance \in Allowances
  BY JobIs
<1>2. j.at = "recheck" /\ UNCHANGED <<slots, tracks, told, allowance>>
  BY DEF Recheck, Does
<1>3. j.todo # <<>>
  BY <1>1, <1>2 DEF HasWork, Clearing
<1>4. CASE CurrentKinds(Head(j.todo)) = {}
  <2>1. Set(t, AfterTrack(t, j))
    BY <1>4 DEF Recheck
  <2>2. GoodJob(slots.seq, AfterTrack(t, j))
    BY <1>1, <1>3, AfterTrackIs
  <2> QED BY <1>1, <1>2, <2>1, <2>2, StaysTyped
<1>5. CASE CurrentKinds(Head(j.todo)) # {}
  <2>1. PICK k \in SlotKinds : Set(t, back(k))
    BY <1>5 DEF Recheck, CurrentKinds
  <2>2. slots.rev[k] \in Nat
    BY <1>1 DEF SlotRecord
  <2> DEFINE lease == [kind |-> k, rev |-> slots.rev[k]]
  <2>3. lease \in HookLeases
    BY <2>2 DEF HookLeases
  <2> HIDE DEF lease
  <2>4. GoodJob(slots.seq, [j EXCEPT !.at = "reinstall", !.lease = lease])
    BY <1>1, <1>3, <2>3 DEF GoodJob, HasWork, Fresh, Clearing, JobsTo, SlotStages
  <2>5. Set(t, [j EXCEPT !.at = "reinstall", !.lease = lease])
    BY <2>1 DEF lease
  <2> QED BY <1>1, <1>2, <2>4, <2>5, StaysTyped
<1> QED BY <1>4, <1>5

\* dispatchCommittedTrackSlotEvent
LEMMA DispatchTyped ==
  ASSUME SlotTypes, NEW t \in SlotThreads, Dispatch(t) PROVE SlotTypes'
<1> DEFINE j == task[t]
           lasts == HasLease(j.event.track, j.lease)
           kind == j.event.kind
           both == TracksOf(j.event)
<1>1. /\ j \in JobsTo(slots.seq) /\ HasWork(j) /\ slots.seq \in Nat
      /\ j.event \in EventsTo(slots.seq) /\ slots \in SlotRecord
      /\ tracks \in [Tracks -> TrackRecord] /\ told \in Words(slots.seq)
      /\ allowance \in Allowances
  BY JobIs
<1>2. j.at = "dispatch" /\ UNCHANGED <<tracks, told, allowance>>
  BY DEF Dispatch, Does
<1>3. j.event.track \in Tracks /\ kind \in SlotKinds
  BY <1>1, <1>2 DEF HasWork, Fresh
<1>4. both \in Seq(Tracks) /\ both # <<>>
  BY <1>1, <1>3, TracksOfIs
<1>5. CASE lasts /\ tracks[j.event.track].closed
  <2> DEFINE event == EventFor(kind, NoTrack)
             k == [j EXCEPT !.at = "tell", !.event = event, !.todo = both]
  <2>1. slots' = Stored(kind, NoTrack) /\ Set(t, k)
    BY <1>5 DEF Dispatch
  <2>2. NoTrack \in AnyTrack
    BY DEF AnyTrack
  <2>3. event \in EventsTo(slots.seq + 1)
    BY <1>1, <1>3, <2>2, StoredIs
  <2>4. j \in JobsTo(slots.seq + 1)
    BY <1>1, MoreEvents
  <2> HIDE DEF event, both
  <2>5. GoodJob(slots.seq + 1, k)
    BY <1>4, <2>3, <2>4 DEF GoodJob, HasWork, Fresh, Clearing, JobsTo, SlotStages
  <2> HIDE DEF k
  <2> QED BY <1>1, <1>2, <1>3, <2>1, <2>2, <2>5, StoresTyped
<1>6. CASE ~(lasts /\ tracks[j.event.track].closed)
  <2>1. UNCHANGED slots
        /\ \/ Set(t, [j EXCEPT !.at = "tell"])
           \/ Set(t, [j EXCEPT !.at = "clear", !.todo = both])
    BY <1>6 DEF Dispatch
  <2>2. GoodJob(slots.seq, [j EXCEPT !.at = "tell"])
    BY <1>1 DEF GoodJob, HasWork, Fresh, Clearing, JobsTo, SlotStages
  <2> HIDE DEF both
  <2>3. GoodJob(slots.seq, [j EXCEPT !.at = "clear", !.todo = both])
    BY <1>1, <1>4 DEF GoodJob, HasWork, Fresh, Clearing, JobsTo, SlotStages
  <2> QED BY <1>1, <1>2, <2>1, <2>2, <2>3, StaysTyped
<1> QED BY <1>5, <1>6

\* dispatchTrackSlotEvent
LEMMA TellTyped ==
  ASSUME SlotTypes, NEW t \in SlotThreads, Tell(t) PROVE SlotTypes'
<1> DEFINE j == task[t]
           event == j.event
           k == [j EXCEPT !.todo = TracksOf(event) \o @]
<1>1. /\ j \in JobsTo(slots.seq) /\ HasWork(j) /\ slots.seq \in Nat
      /\ event \in EventsTo(slots.seq) /\ j.todo \in Seq(Tracks)
      /\ tracks \in [Tracks -> TrackRecord] /\ told \in Words(slots.seq)
      /\ allowance \in Allowances
  BY JobIs
<1>2. /\ UNCHANGED <<slots, tracks, allowance>> /\ Set(t, ClearNext(t, k))
      /\ \/ told' = told
         \/ told' = [told EXCEPT ![event.kind] = [seq |-> event.seq, track |-> event.track]]
  BY DEF Tell
<1>3. told' \in Words(slots.seq)
  <2>1. event.seq \in 0..slots.seq /\ event.track \in AnyTrack
    BY <1>1 DEF EventsTo
  <2>2. [seq |-> event.seq, track |-> event.track] \in [seq : 0..slots.seq, track : AnyTrack]
    BY <2>1
  <2> QED BY <1>1, <1>2, <2>2 DEF Words
<1>4. TracksOf(event) \o j.todo \in Seq(Tracks)
  <2>1. TracksOf(event) \in Seq(Tracks)
    BY <1>1, TracksOfIs
  <2> QED BY <1>1, <2>1
<1>5. k \in JobsTo(slots.seq)
  BY <1>1, <1>4 DEF JobsTo
<1>6. GoodJob(slots.seq, ClearNext(t, k))
  BY <1>1, <1>5, ClearNextIs
<1> QED BY <1>1, <1>2, <1>3, <1>6, StaysTyped

\* A job made of the idle one.
LEMMA FromIdle ==
  ASSUME NEW n \in Nat
  PROVE  /\ IdleJob \in JobsTo(n) /\ GoodJob(n, IdleJob)
         /\ \A at \in {"connected", "unregister", "slots"} :
              GoodJob(n, [IdleJob EXCEPT !.at = at])
         /\ \A s \in Seq(Sections) :
              GoodJob(n, [IdleJob EXCEPT !.sections = s, !.at = "sections"])
<1>1. IdleJob \in JobsTo(n) /\ GoodJob(n, IdleJob)
  BY IdleIs DEF GoodJob
<1>2. ASSUME NEW at \in {"connected", "unregister", "slots"}
      PROVE  GoodJob(n, [IdleJob EXCEPT !.at = at])
  BY <1>1 DEF GoodJob, HasWork, Fresh, Clearing, JobsTo, SlotStages
<1>3. ASSUME NEW s \in Seq(Sections)
      PROVE  GoodJob(n, [IdleJob EXCEPT !.sections = s, !.at = "sections"])
  BY <1>1 DEF GoodJob, HasWork, Fresh, Clearing, JobsTo, SlotStages
<1> QED BY <1>1, <1>2, <1>3

\* What the types say of what the threads share.
LEMMA SharedIs ==
  ASSUME SlotTypes
  PROVE  /\ slots \in SlotRecord /\ slots.seq \in Nat
         /\ slots.slot \in [SlotKinds -> AnyTrack] /\ slots.rev \in [SlotKinds -> Nat]
         /\ tracks \in [Tracks -> TrackRecord] /\ told \in Words(slots.seq)
         /\ allowance \in Allowances /\ NoTrack \in AnyTrack
         /\ Tracks \subseteq AnyTrack
BY DEF SlotTypes, SlotRecord, AnyTrack

\* prepareViewerTracks
LEMMA OfferTyped ==
  ASSUME SlotTypes, Offer PROVE SlotTypes'
<1> DEFINE sections == Head(allowance.offers)
           j == [IdleJob EXCEPT !.sections = sections, !.at = "sections"]
           event == EventFor("alpha", NoTrack)
<1>1. /\ slots \in SlotRecord /\ slots.seq \in Nat /\ NoTrack \in AnyTrack
      /\ tracks \in [Tracks -> TrackRecord] /\ told \in Words(slots.seq)
      /\ allowance \in Allowances
  BY SharedIs
<1>2. /\ allowance.offers # <<>> /\ UNCHANGED <<tracks, told>>
      /\ allowance' = [allowance EXCEPT !.offers = Tail(@)]
  BY DEF Offer
<1>3. allowance.offers \in Seq(Seq(Sections))
  BY <1>1 DEF Allowances, Sections
<1>4. sections \in Seq(Sections) /\ Tail(allowance.offers) \in Seq(Seq(Sections))
  BY <1>2, <1>3
<1>5. allowance' \in Allowances
  BY <1>1, <1>2, <1>4 DEF Allowances, Sections
<1>6. GoodJob(slots.seq, j) /\ GoodJob(slots.seq + 1, j) /\ j \in JobsTo(slots.seq + 1)
  <2>1. slots.seq + 1 \in Nat
    BY <1>1
  <2> QED BY <1>1, <1>4, <2>1, FromIdle DEF GoodJob
<1>7. "alpha" \in SlotKinds /\ "offer" \in SlotThreads
  BY DEF SlotKinds, SlotThreads
<1>8. event \in EventsTo(slots.seq + 1) /\ event.kind = "alpha"
  BY <1>1, <1>7, StoredIs
<1> HIDE DEF sections, event
<1>9. \/ slots' = Stored("alpha", NoTrack) /\ Set("offer", Committed(j, event))
      \/ UNCHANGED slots /\ Set("offer", j)
  BY DEF Offer, sections, event
<1> HIDE DEF j
<1>10. GoodJob(slots.seq + 1, Committed(j, event))
  BY <1>1, <1>6, <1>7, <1>8, CommittedIs
<1>11. CASE slots' = Stored("alpha", NoTrack) /\ Set("offer", Committed(j, event))
  <2> DEFINE k == Committed(j, event)
  <2>1. Set("offer", k) /\ GoodJob(slots.seq + 1, k)
    BY <1>10, <1>11
  <2> HIDE DEF k
  <2> QED BY <1>1, <1>2, <1>5, <1>7, <1>11, <2>1, StoresTyped
<1>12. CASE UNCHANGED slots /\ Set("offer", j)
  BY <1>1, <1>2, <1>5, <1>6, <1>7, <1>12, StaysTyped
<1> QED BY <1>9, <1>11, <1>12

LEMMA ReadSectionTyped ==
  ASSUME SlotTypes, ReadSection PROVE SlotTypes'
<1> DEFINE j == task["offer"]
           kind == SlotFor(Head(j.sections))
           read == slots.slot[IF kind = "alpha" THEN "video" ELSE kind]
           skip == [j EXCEPT !.sections = Tail(@)]
           add == [j EXCEPT !.at = "add", !.event.kind = kind, !.event.track = read]
<1>1. "offer" \in SlotThreads
  BY DEF SlotThreads
<1>2. /\ j \in JobsTo(slots.seq) /\ HasWork(j) /\ slots.seq \in Nat
      /\ j.event \in EventsTo(slots.seq) /\ j.sections \in Seq(Sections)
      /\ tracks \in [Tracks -> TrackRecord] /\ told \in Words(slots.seq)
      /\ allowance \in Allowances
  BY <1>1, JobIs
<1>3. j.at = "sections" /\ UNCHANGED <<slots, tracks, told, allowance>>
  BY DEF ReadSection, Does
<1>4. kind \in SlotKinds \cup {"none"}
  BY DEF SlotFor, SlotKinds
<1> HIDE DEF kind
<1>5. CASE j.sections = <<>>
  <2>1. Set("offer", IdleJob) /\ GoodJob(slots.seq, IdleJob)
    BY <1>2, <1>5, IdleIs DEF ReadSection
  <2> QED BY <1>1, <1>2, <1>3, <2>1, StaysTyped
<1>6. CASE j.sections # <<>> /\ kind = "none"
  <2>1. Set("offer", skip)
    BY <1>6 DEF ReadSection, kind
  <2>2. Tail(j.sections) \in Seq(Sections)
    BY <1>2, <1>6
  <2>3. GoodJob(slots.seq, skip)
    BY <1>2, <1>3, <2>2 DEF GoodJob, HasWork, Fresh, Clearing, JobsTo, SlotStages
  <2> QED BY <1>1, <1>2, <1>3, <2>1, <2>3, StaysTyped
<1>7. CASE j.sections # <<>> /\ kind # "none"
  <2> DEFINE event == [j.event EXCEPT !.kind = kind, !.track = read]
  <2>1. kind \in SlotKinds /\ read \in AnyTrack
    <3>1. kind \in SlotKinds /\ "video" \in SlotKinds
      BY <1>4, <1>7 DEF SlotKinds
    <3> QED BY <3>1, SharedIs
  <2> HIDE DEF read
  <2>2. event \in EventsTo(slots.seq) /\ event.kind = kind
    BY <1>2, <2>1 DEF EventsTo
  <2>3. Set("offer", [j EXCEPT !.at = "add", !.event = event])
    <3>1. Set("offer", add)
      BY <1>7 DEF ReadSection, kind, read
    <3>2. add = [j EXCEPT !.at = "add", !.event = event]
      BY <1>2 DEF JobsTo
    <3> QED BY <3>1, <3>2
  <2> HIDE DEF event
  <2>4. GoodJob(slots.seq, [j EXCEPT !.at = "add", !.event = event])
    BY <1>2, <1>7, <2>1, <2>2 DEF GoodJob, HasWork, Fresh, Clearing, JobsTo, SlotStages
  <2> QED BY <1>1, <1>2, <1>3, <2>3, <2>4, StaysTyped
<1> QED BY <1>5, <1>6, <1>7

\* Flags of a track change.
LEMMA TrackChanges ==
  ASSUME tracks \in [Tracks -> TrackRecord], NEW h \in Tracks, NEW p \in TrackRecord
  PROVE  [tracks EXCEPT ![h] = p] \in [Tracks -> TrackRecord]
OBVIOUS

LEMMA AddTrackTyped ==
  ASSUME SlotTypes, AddTrack PROVE SlotTypes'
<1> DEFINE j == task["offer"]
           section == Head(j.sections)
           rest == [IdleJob EXCEPT !.sections = Tail(j.sections)]
           last == [rest EXCEPT !.at = "sections"]
<1>1. "offer" \in SlotThreads
  BY DEF SlotThreads
<1>2. /\ j \in JobsTo(slots.seq) /\ HasWork(j) /\ slots.seq \in Nat
      /\ j.event \in EventsTo(slots.seq) /\ j.sections \in Seq(Sections)
      /\ tracks \in [Tracks -> TrackRecord] /\ told \in Words(slots.seq)
      /\ allowance \in Allowances
  BY <1>1, JobIs
<1>3. j.at = "add" /\ UNCHANGED <<told, allowance>>
  BY DEF AddTrack, Does
<1>4. j.event.kind \in SlotKinds /\ j.sections # <<>>
  BY <1>2, <1>3 DEF HasWork
<1>5. Tail(j.sections) \in Seq(Sections)
  BY <1>2, <1>4
<1>6. /\ rest \in JobsTo(slots.seq + 1) /\ GoodJob(slots.seq, last)
      /\ slots \in SlotRecord
  <2>1. IdleJob \in JobsTo(slots.seq + 1) /\ IdleJob \in JobsTo(slots.seq)
    <3>1. slots.seq + 1 \in Nat
      BY <1>2
    <3> QED BY <1>2, <3>1, FromIdle
  <2>2. rest \in JobsTo(slots.seq + 1) /\ rest \in JobsTo(slots.seq)
    BY <1>5, <2>1 DEF JobsTo
  <2> HIDE DEF rest
  <2>3. GoodJob(slots.seq, last)
    BY <2>2 DEF GoodJob, HasWork, Fresh, Clearing, JobsTo, SlotStages
  <2> QED BY <2>2, <2>3, SharedIs
<1> HIDE DEF last
<1>7. PICK h \in Tracks, kind \in SlotKinds :
        /\ tracks' = [tracks EXCEPT ![h].made = TRUE]
        /\ \/ /\ slots' = Stored(kind, h)
              /\ Set("offer", Committed(rest, EventFor(kind, h)))
           \/ Set("offer", last) /\ UNCHANGED slots
  <2>1. PICK h \in Tracks :
          LET kind == IF j.event.kind = "alpha" /\ h.mid # section THEN "video"
                      ELSE j.event.kind
          IN /\ tracks' = [tracks EXCEPT ![h].made = TRUE]
             /\ \/ /\ slots' = Stored(kind, h)
                   /\ Set("offer", Committed(rest, EventFor(kind, h)))
                \/ Set("offer", last) /\ UNCHANGED slots
    BY DEF AddTrack, last
  <2> DEFINE kind == IF j.event.kind = "alpha" /\ h.mid # section THEN "video"
                     ELSE j.event.kind
  <2>2. kind \in SlotKinds
    BY <1>4 DEF SlotKinds
  <2> QED BY <2>1, <2>2
<1> HIDE DEF rest
<1>8. tracks' \in [Tracks -> TrackRecord]
  <2> DEFINE p == [tracks[h] EXCEPT !.made = TRUE]
  <2>1. tracks' = [tracks EXCEPT ![h] = p]
    BY <1>7
  <2>2. p \in TrackRecord
    BY <1>2 DEF TrackRecord
  <2> QED BY <1>2, <2>1, <2>2, TrackChanges
<1>9. CASE slots' = Stored(kind, h) /\ Set("offer", Committed(rest, EventFor(kind, h)))
  <2> DEFINE event == EventFor(kind, h)
             k == Committed(rest, event)
  <2>1. h \in AnyTrack
    BY DEF AnyTrack
  <2>2. event \in EventsTo(slots.seq + 1) /\ event.kind = kind
    BY <1>6, <2>1, StoredIs
  <2> HIDE DEF event
  <2>3. GoodJob(slots.seq + 1, k)
    BY <1>2, <1>6, <2>2, CommittedIs
  <2>4. Set("offer", k)
    BY <1>9 DEF event
  <2> HIDE DEF k
  <2> QED BY <1>1, <1>2, <1>3, <1>8, <1>9, <2>1, <2>3, <2>4, StoresTyped
<1>10. CASE Set("offer", last) /\ UNCHANGED slots
  BY <1>1, <1>2, <1>3, <1>6, <1>8, <1>10, StaysTyped
<1> QED BY <1>7, <1>9, <1>10

\* handleIncomingTrack
LEMMA TrackComesTyped ==
  ASSUME SlotTypes, TrackComes PROVE SlotTypes'
<1>1. /\ slots.seq \in Nat /\ told \in Words(slots.seq)
      /\ tracks \in [Tracks -> TrackRecord] /\ allowance \in Allowances
      /\ "track" \in SlotThreads
  BY SharedIs DEF SlotThreads
<1>2. PICK h \in Tracks :
        /\ tracks' = [tracks EXCEPT ![h].made = TRUE]
        /\ Set("track", [IdleJob EXCEPT !.at = "store", !.event.track = h])
  BY DEF TrackComes
<1>3. /\ allowance.tracks > 0 /\ allowance' = [allowance EXCEPT !.tracks = @ - 1]
      /\ UNCHANGED <<slots, told>>
  BY DEF TrackComes
<1>4. allowance' \in Allowances
  <2> DEFINE n == allowance.tracks - 1
  <2>1. allowance \in Allowances /\ allowance' = [allowance EXCEPT !.tracks = n]
    BY <1>1, <1>3
  <2>2. n \in Nat
    BY <1>1, <1>3 DEF Allowances
  <2> HIDE DEF n
  <2> QED BY <2>1, <2>2 DEF Allowances
<1>5. tracks' \in [Tracks -> TrackRecord]
  <2> DEFINE p == [tracks[h] EXCEPT !.made = TRUE]
  <2>1. tracks' = [tracks EXCEPT ![h] = p]
    BY <1>2
  <2>2. p \in TrackRecord
    BY <1>1 DEF TrackRecord
  <2> QED BY <1>1, <2>1, <2>2, TrackChanges
<1> DEFINE event == [IdleJob.event EXCEPT !.track = h]
           k == [IdleJob EXCEPT !.at = "store", !.event = event]
<1>6. IdleJob \in JobsTo(slots.seq) /\ HasWork(IdleJob)
  BY <1>1, FromIdle DEF GoodJob
<1>7. Set("track", k)
  <2>1. [IdleJob EXCEPT !.at = "store", !.event.track = h] = k
    BY <1>6 DEF JobsTo
  <2> QED BY <1>2, <2>1
<1>8. event \in EventsTo(slots.seq) /\ event.track = h
  <2>1. IdleJob.event \in EventsTo(slots.seq)
    BY <1>6 DEF JobsTo
  <2> QED BY <2>1 DEF EventsTo, AnyTrack
<1> HIDE DEF event
<1>9. GoodJob(slots.seq, k)
  BY <1>6, <1>8 DEF GoodJob, HasWork, Fresh, Clearing, JobsTo, SlotStages
<1> HIDE DEF k
<1> QED BY <1>1, <1>3, <1>4, <1>5, <1>7, <1>9, StaysTyped

LEMMA StoreTrackTyped ==
  ASSUME SlotTypes, StoreTrack PROVE SlotTypes'
<1> DEFINE h == task["track"].event.track
           kind == SlotOf(h)
           event == EventFor(kind, h)
           k == Committed(IdleJob, event)
<1>1. "track" \in SlotThreads
  BY DEF SlotThreads
<1>2. /\ HasWork(task["track"]) /\ slots.seq \in Nat /\ slots \in SlotRecord
      /\ tracks \in [Tracks -> TrackRecord] /\ told \in Words(slots.seq)
      /\ allowance \in Allowances
  BY <1>1, JobIs
<1>3. task["track"].at = "store" /\ UNCHANGED <<told, allowance>>
  BY DEF StoreTrack, Does
<1>4. h \in Tracks
  BY <1>2, <1>3 DEF HasWork
<1>5. kind \in SlotKinds /\ h \in AnyTrack
  BY <1>4 DEF SlotOf, SlotKinds, AnyTrack
<1> HIDE DEF h, kind
<1>6. CASE slots.slot[kind] # h /\ ~slots.retired
  <2>1. slots' = Stored(kind, h) /\ Set("track", k) /\ UNCHANGED tracks
    BY <1>6 DEF StoreTrack, h, kind
  <2>2. event \in EventsTo(slots.seq + 1) /\ event.kind = kind
    BY <1>2, <1>5, StoredIs
  <2>3. slots.seq + 1 \in Nat
    BY <1>2
  <2> HIDE DEF event
  <2>4. GoodJob(slots.seq + 1, k)
    BY <1>5, <2>2, <2>3, CommittedIs, FromIdle
  <2> HIDE DEF k
  <2> QED BY <1>1, <1>2, <1>3, <1>5, <2>1, <2>4, StoresTyped
<1>7. CASE ~(slots.slot[kind] # h /\ ~slots.retired)
  <2>1. /\ tracks' = IF slots.retired
                     THEN [tracks EXCEPT ![h].hooks = [hook \in EndHooks |-> NoHook]]
                     ELSE tracks
        /\ Set("track", IdleJob) /\ UNCHANGED slots
    BY <1>7 DEF StoreTrack, h, kind
  <2>2. tracks' \in [Tracks -> TrackRecord]
    BY <1>2, <1>4, <2>1, HooksGo
  <2>3. GoodJob(slots.seq, IdleJob)
    BY <1>2, FromIdle
  <2> QED BY <1>1, <1>2, <1>3, <2>1, <2>2, <2>3, StaysTyped
<1> QED BY <1>6, <1>7

\* RTC ends a track.
LEMMA TrackEndsTyped ==
  ASSUME SlotTypes, TrackEnds PROVE SlotTypes'
<1>1. tracks \in [Tracks -> TrackRecord] /\ allowance \in Allowances
  BY SharedIs
<1>2. PICK h \in Tracks, how \in EndHooks :
        tracks' = [tracks EXCEPT ![h].closed = (how = "closed"), ![h].owed = @ \cup {how}]
  BY DEF TrackEnds
<1>3. /\ allowance.ends > 0 /\ allowance' = [allowance EXCEPT !.ends = @ - 1]
      /\ UNCHANGED <<slots, task, told>>
  BY DEF TrackEnds
<1>4. allowance' \in Allowances
  <2> DEFINE n == allowance.ends - 1
  <2>1. allowance \in Allowances /\ allowance' = [allowance EXCEPT !.ends = n]
    BY <1>1, <1>3
  <2>2. n \in Nat
    BY <1>1, <1>3 DEF Allowances
  <2> HIDE DEF n
  <2> QED BY <2>1, <2>2 DEF Allowances
<1>5. tracks' \in [Tracks -> TrackRecord]
  <2> DEFINE a == (how = "closed")
             b == tracks[h].owed \cup {how}
             p == [tracks[h] EXCEPT !.closed = a, !.owed = b]
  <2>1. tracks' = [tracks EXCEPT ![h] = p]
    BY <1>1, <1>2 DEF TrackRecord
  <2>2. a \in BOOLEAN /\ b \subseteq EndHooks
    BY <1>1 DEF TrackRecord
  <2> HIDE DEF a, b
  <2>3. p \in TrackRecord
    BY <1>1, <2>2 DEF TrackRecord
  <2> HIDE DEF p
  <2> QED BY <1>1, <2>1, <2>3, TrackChanges
<1> QED BY <1>3, <1>4, <1>5 DEF SlotTypes

\* handleTrackTerminal
LEMMA EndCallbackTyped ==
  ASSUME SlotTypes, EndCallback PROVE SlotTypes'
<1>1. /\ slots.seq \in Nat /\ told \in Words(slots.seq) /\ slots \in SlotRecord
      /\ tracks \in [Tracks -> TrackRecord] /\ allowance \in Allowances
      /\ "end" \in SlotThreads /\ NoTrack \in AnyTrack
  BY SharedIs DEF SlotThreads
<1> DEFINE inner(h, hook) == [IdleJob EXCEPT !.inside = <<h, hook>>]
<1>2. PICK h \in Tracks, hook \in EndHooks :
        LET lease == tracks[h].hooks[hook]
        IN /\ lease # NoHook
           /\ \/ tracks' = [tracks EXCEPT ![h].closed = TRUE, ![h].owed = {"closed"}]
              \/ tracks' = [tracks EXCEPT ![h].owed = @ \ {hook}]
           /\ \/ /\ slots' = Stored(lease.kind, NoTrack)
                 /\ Set("end", Committed(inner(h, hook), EventFor(lease.kind, NoTrack)))
              \/ UNCHANGED <<slots, task>>
  BY DEF EndCallback
<1>3. UNCHANGED <<told, allowance>>
  BY DEF EndCallback
<1> DEFINE lease == tracks[h].hooks[hook]
<1>4. lease.kind \in SlotKinds
  <2>1. tracks[h].hooks \in [EndHooks -> HookLeases]
    BY <1>1 DEF TrackRecord
  <2>2. lease \in HookLeases /\ lease # NoHook
    BY <1>2, <2>1
  <2> QED BY <2>2 DEF HookLeases
<1>5. tracks' \in [Tracks -> TrackRecord]
  <2>1. CASE tracks' = [tracks EXCEPT ![h].closed = TRUE, ![h].owed = {"closed"}]
    <3> DEFINE p == [tracks[h] EXCEPT !.closed = TRUE, !.owed = {"closed"}]
    <3>1. tracks' = [tracks EXCEPT ![h] = p]
      BY <1>1, <2>1 DEF TrackRecord
    <3>2. p \in TrackRecord
      BY <1>1 DEF TrackRecord, EndHooks
    <3> HIDE DEF p
    <3> QED BY <1>1, <3>1, <3>2, TrackChanges
  <2>2. CASE tracks' = [tracks EXCEPT ![h].owed = @ \ {hook}]
    <3> DEFINE b == tracks[h].owed \ {hook}
               p == [tracks[h] EXCEPT !.owed = b]
    <3>1. tracks' = [tracks EXCEPT ![h] = p]
      BY <1>1, <2>2 DEF TrackRecord
    <3>2. b \subseteq EndHooks
      BY <1>1 DEF TrackRecord
    <3> HIDE DEF b
    <3>3. p \in TrackRecord
      BY <1>1, <3>2 DEF TrackRecord
    <3> HIDE DEF p
    <3> QED BY <1>1, <3>1, <3>3, TrackChanges
  <2> QED BY <1>2, <2>1, <2>2
<1>6. CASE /\ slots' = Stored(lease.kind, NoTrack)
           /\ Set("end", Committed(inner(h, hook), EventFor(lease.kind, NoTrack)))
  <2> DEFINE kind == lease.kind
             event == EventFor(kind, NoTrack)
             k == Committed(inner(h, hook), event)
  <2>1. kind \in SlotKinds /\ slots' = Stored(kind, NoTrack) /\ Set("end", k)
    BY <1>4, <1>6
  <2> HIDE DEF kind
  <2>2. event \in EventsTo(slots.seq + 1) /\ event.kind = kind
    BY <1>1, <2>1, StoredIs
  <2>3. slots.seq + 1 \in Nat
    BY <1>1
  <2>4. inner(h, hook) \in JobsTo(slots.seq + 1)
    <3>1. IdleJob \in JobsTo(slots.seq + 1) /\ <<h, hook>> \in Tracks \X EndHooks
      BY <2>3, FromIdle
    <3> QED BY <3>1 DEF JobsTo
  <2> HIDE DEF event
  <2>5. GoodJob(slots.seq + 1, k)
    BY <2>1, <2>2, <2>3, <2>4, CommittedIs
  <2> HIDE DEF k
  <2> QED BY <1>1, <1>3, <1>5, <2>1, <2>5, StoresTyped
<1>7. CASE UNCHANGED <<slots, task>>
  BY <1>1, <1>3, <1>5, <1>7 DEF SlotTypes
<1> QED BY <1>2, <1>6, <1>7

\* RTC connects.
LEMMA ConnectedTyped ==
  ASSUME SlotTypes, Connected \/ StoreConnected PROVE SlotTypes'
<1>1. /\ slots.seq \in Nat /\ told \in Words(slots.seq) /\ slots \in SlotRecord
      /\ tracks \in [Tracks -> TrackRecord] /\ allowance \in Allowances
      /\ "state" \in SlotThreads
  BY SharedIs DEF SlotThreads
<1>2. CASE Connected
  <2> DEFINE n == allowance.connects - 1
             k == [IdleJob EXCEPT !.at = "connected"]
  <2>1. /\ allowance.connects > 0 /\ allowance' = [allowance EXCEPT !.connects = n]
        /\ UNCHANGED <<slots, tracks, told>> /\ Set("state", k)
    BY <1>2 DEF Connected
  <2>2. n \in Nat
    BY <1>1, <2>1 DEF Allowances
  <2> HIDE DEF n
  <2>3. allowance' \in Allowances
    BY <1>1, <2>1, <2>2 DEF Allowances
  <2>4. GoodJob(slots.seq, k)
    BY <1>1, FromIdle
  <2> HIDE DEF k
  <2> QED BY <1>1, <2>1, <2>3, <2>4, StaysTyped
<1>3. CASE StoreConnected
  <2>1. /\ slots' = [slots EXCEPT !.retired = FALSE] /\ Set("state", IdleJob)
        /\ UNCHANGED <<tracks, told, allowance>>
    BY <1>3 DEF StoreConnected
  <2>2. slots' \in SlotRecord /\ slots'.seq = slots.seq
    BY <1>1, <2>1 DEF SlotRecord
  <2>3. GoodJob(slots'.seq, IdleJob) /\ slots.seq <= slots'.seq
    <3>1. GoodJob(slots.seq, IdleJob)
      BY <1>1, FromIdle
    <3>2. slots.seq <= slots.seq
      BY <1>1
    <3> QED BY <2>2, <3>1, <3>2, Zenon
  <2>4. /\ task' \in [SlotThreads -> JobsTo(slots'.seq)]
        /\ \A u \in SlotThreads : HasWork(task'[u])
    BY <1>1, <2>1, <2>2, <2>3, SetKeeps
  <2> QED BY <1>1, <2>1, <2>2, <2>4 DEF SlotTypes
<1> QED BY <1>2, <1>3, Zenon

\* Only flags of the peer change, and the manager goes on.
LEMMA FlagsTyped ==
  ASSUME SlotTypes, slots' \in SlotRecord, slots'.seq = slots.seq, NEW k,
         Set("manager", k), GoodJob(slots.seq, k), UNCHANGED <<tracks, told, allowance>>
  PROVE  SlotTypes'
<1>1. /\ slots.seq \in Nat /\ told \in Words(slots.seq) /\ tracks \in [Tracks -> TrackRecord]
      /\ allowance \in Allowances /\ "manager" \in SlotThreads
  BY SharedIs DEF SlotThreads
<1>2. slots.seq <= slots'.seq /\ GoodJob(slots'.seq, k)
  BY <1>1
<1>3. /\ task' \in [SlotThreads -> JobsTo(slots'.seq)]
      /\ \A u \in SlotThreads : HasWork(task'[u])
  BY <1>1, <1>2, SetKeeps
<1> QED BY <1>1, <1>3 DEF SlotTypes

\* retirePeerForDeferredCleanup, releasePeerResources
LEMMA RetirementTyped ==
  ASSUME SlotTypes, RetireViewer \/ Unregister \/ ReleaseTracks PROVE SlotTypes'
<1>1. slots \in SlotRecord /\ slots.seq \in Nat
  BY SharedIs
<1> DEFINE k == [IdleJob EXCEPT !.at = "slots", !.shut = SlotKinds]
<1>2. GoodJob(slots.seq, k)
  <2>1. IdleJob \in JobsTo(slots.seq)
    BY <1>1, FromIdle
  <2> QED BY <2>1 DEF GoodJob, HasWork, Fresh, Clearing, JobsTo, SlotStages
<1> HIDE DEF k
<1>3. CASE RetireViewer
  <2> DEFINE l == [IdleJob EXCEPT !.at = "unregister"]
  <2>1. /\ slots' = [slots EXCEPT !.retired = TRUE] /\ Set("manager", l)
        /\ UNCHANGED <<tracks, told, allowance>>
    BY <1>3 DEF RetireViewer
  <2>2. slots' \in SlotRecord /\ slots'.seq = slots.seq
    BY <1>1, <2>1 DEF SlotRecord
  <2>3. GoodJob(slots.seq, l)
    BY <1>1, FromIdle
  <2> HIDE DEF l
  <2> QED BY <2>1, <2>2, <2>3, FlagsTyped
<1>4. CASE Unregister
  <2>1. /\ slots' = [slots EXCEPT !.registered = FALSE] /\ Set("manager", k)
        /\ UNCHANGED <<tracks, told, allowance>>
    BY <1>4 DEF Unregister, k
  <2>2. slots' \in SlotRecord /\ slots'.seq = slots.seq
    BY <1>1, <2>1 DEF SlotRecord
  <2> QED BY <1>2, <2>1, <2>2, FlagsTyped
<1>5. CASE ReleaseTracks
  <2>1. /\ slots' = [slots EXCEPT !.retired = TRUE, !.released = TRUE] /\ Set("manager", k)
        /\ UNCHANGED <<tracks, told, allowance>>
    BY <1>5 DEF ReleaseTracks, k
  <2>2. slots' \in SlotRecord /\ slots'.seq = slots.seq
    BY <1>1, <2>1 DEF SlotRecord
  <2> QED BY <1>2, <2>1, <2>2, FlagsTyped
<1> QED BY <1>3, <1>4, <1>5, Zenon

\* clearTrackSlots
LEMMA ClearSlotsTyped ==
  ASSUME SlotTypes, ClearSlots PROVE SlotTypes'
<1> DEFINE j == task["manager"]
<1>1. "manager" \in SlotThreads
  BY DEF SlotThreads
<1>2. /\ j \in JobsTo(slots.seq) /\ HasWork(j) /\ slots.seq \in Nat
      /\ slots \in SlotRecord /\ j.shut \subseteq SlotKinds
      /\ tracks \in [Tracks -> TrackRecord] /\ told \in Words(slots.seq)
      /\ allowance \in Allowances
  BY <1>1, JobIs
<1>3. j.at = "slots" /\ UNCHANGED <<tracks, told, allowance>>
  BY DEF ClearSlots, Does
<1>4. CASE j.shut = {}
  <2>1. Set("manager", ClearNext("manager", j)) /\ UNCHANGED slots
    BY <1>4 DEF ClearSlots
  <2>2. GoodJob(slots.seq, ClearNext("manager", j))
    BY <1>2, ClearNextIs
  <2> QED BY <1>1, <1>2, <1>3, <2>1, <2>2, StaysTyped
<1>5. CASE j.shut # {}
  <2> DEFINE kind == CHOOSE k \in j.shut : TRUE
             shut == j.shut \ {kind}
             queue == j.queue \o Cleared(kind)
             k == [j EXCEPT !.shut = shut, !.queue = queue]
  <2>1. /\ slots' = IF slots.slot[kind] = NoTrack THEN slots ELSE Stored(kind, NoTrack)
        /\ Set("manager", k)
    BY <1>5 DEF ClearSlots
  <2>2. kind \in SlotKinds /\ shut \subseteq SlotKinds
    BY <1>2, <1>5
  <2>3. NoTrack \in AnyTrack /\ slots.seq + 1 \in Nat
    BY <1>2 DEF AnyTrack
  <2> HIDE DEF kind, shut
  <2>4. CASE slots.slot[kind] = NoTrack
    <3>1. j.queue \in Seq(EventsTo(slots.seq)) /\ Cleared(kind) = <<>>
      BY <1>2, <2>4 DEF JobsTo, Cleared
    <3>2. queue \in Seq(EventsTo(slots.seq))
      BY <3>1
    <3> HIDE DEF queue
    <3>3. GoodJob(slots.seq, k)
      BY <1>2, <1>3, <2>2, <3>2 DEF GoodJob, HasWork, Fresh, Clearing, JobsTo, SlotStages
    <3> HIDE DEF k
    <3> QED BY <1>1, <1>2, <1>3, <2>1, <2>4, <3>3, StaysTyped
  <2>5. CASE slots.slot[kind] # NoTrack
    <3>1. j \in JobsTo(slots.seq + 1)
      BY <1>2, <2>3, MoreEvents
    <3>2. EventFor(kind, NoTrack) \in EventsTo(slots.seq + 1)
      BY <1>2, <2>2, <2>3, StoredIs
    <3>3. j.queue \in Seq(EventsTo(slots.seq + 1))
          /\ Cleared(kind) = <<EventFor(kind, NoTrack)>>
      BY <2>5, <3>1 DEF JobsTo, Cleared
    <3>4. queue \in Seq(EventsTo(slots.seq + 1))
      BY <3>2, <3>3
    <3> HIDE DEF queue
    <3>5. GoodJob(slots.seq + 1, k)
      BY <1>3, <2>2, <3>1, <3>4 DEF GoodJob, HasWork, Fresh, Clearing, JobsTo, SlotStages
    <3> HIDE DEF k
    <3> QED BY <1>1, <1>2, <1>3, <2>1, <2>2, <2>3, <2>5, <3>5, StoresTyped
  <2> QED BY <2>4, <2>5
<1> QED BY <1>4, <1>5

LEMMA SlotInitTyped == SlotInit => SlotTypes
<1> SUFFICES ASSUME SlotInit PROVE SlotTypes
  OBVIOUS
<1>1. slots \in SlotRecord /\ slots.seq = 0
  BY DEF SlotInit, SlotRecord, AnyTrack
<1>2. tracks \in [Tracks -> TrackRecord]
  BY DEF SlotInit, TrackRecord, HookLeases
<1>3. task \in [SlotThreads -> JobsTo(0)] /\ \A t \in SlotThreads : HasWork(task[t])
  BY IdleIs DEF SlotInit, GoodJob
<1>4. told \in Words(0)
  BY DEF SlotInit, Words, AnyTrack
<1>5. allowance \in Allowances
  BY SlotAssumption DEF SlotInit, Allowances
<1> QED BY <1>1, <1>2, <1>3, <1>4, <1>5 DEF SlotTypes

LEMMA SlotStepTyped == SlotTypes /\ [SlotNext]_slotVars => SlotTypes'
<1> SUFFICES ASSUME SlotTypes, [SlotNext]_slotVars PROVE SlotTypes'
  OBVIOUS
<1>1. CASE UNCHANGED slotVars
  BY <1>1 DEF SlotTypes, slotVars
<1>2. ASSUME NEW t \in SlotThreads,
             \/ InstallTrackHook(t) \/ ClearTrack(t) \/ Detach(t) \/ Recheck(t)
             \/ Dispatch(t) \/ Tell(t)
      PROVE  SlotTypes'
  BY <1>2, InstallTrackHookTyped, ClearTrackTyped, DetachTyped, RecheckTyped,
     DispatchTyped, TellTyped
<1>3. CASE Offer \/ ReadSection \/ AddTrack \/ TrackComes \/ StoreTrack \/ TrackEnds
            \/ EndCallback
  BY <1>3, OfferTyped, ReadSectionTyped, AddTrackTyped, TrackComesTyped,
     StoreTrackTyped, TrackEndsTyped, EndCallbackTyped
<1>4. CASE Connected \/ StoreConnected \/ RetireViewer \/ Unregister \/ ReleaseTracks
            \/ ClearSlots
  BY <1>4, ConnectedTyped, RetirementTyped, ClearSlotsTyped
<1> QED BY <1>1, <1>2, <1>3, <1>4 DEF SlotNext

\* The slots, tracks and threads have their types, and the application has heard
\* of no change of the slots that was not made.
THEOREM SlotTypeOKHolds == SlotSpec => []SlotTypeOK
<1>1. SlotTypes => SlotTypeOK
  <2> SUFFICES ASSUME SlotTypes PROVE SlotTypeOK
    OBVIOUS
  <2>1. slots.slot \in [SlotKinds -> AnyTrack] /\ slots.rev \in [SlotKinds -> Nat]
        /\ slots.seq \in Nat
    BY SharedIs
  <2>2. \A h \in Tracks : tracks[h].owed \subseteq EndHooks
    BY SharedIs DEF TrackRecord
  <2>3. \A k \in SlotKinds : told[k].seq \in 0..slots.seq
    BY SharedIs DEF Words
  <2> QED BY <2>1, <2>2, <2>3 DEF SlotTypeOK, AnyTrack
<1> QED BY <1>1, SlotInitTyped, SlotStepTyped, PTL DEF SlotSpec

(***************************************************************************)
(* The composition (MCPeers).                                              *)
(***************************************************************************)
\* A behaviour of the specification that the run checks is one of each of its
\* components: whoever the subject is, the others take no step.
LEMMA ComponentsAre == Spec => ChannelSpec /\ SlotSpec /\ RemoteSpec
<1>1. Init => ChannelInit /\ SlotInit /\ RemoteInit
  BY DEF Init, channelIdle, slotIdle, remoteIdle
<1>2. [Next]_<<subject, channelVars, slotVars, remoteVars>>
        => [ChannelNext]_channelVars /\ [SlotNext]_slotVars /\ [RemoteNext]_remoteVars
  BY DEF Next
<1> QED BY <1>1, <1>2, PTL DEF Spec, ChannelSpec, SlotSpec, RemoteSpec

\* Every variable of the peer's channel, its slots and its identity has its type.
THEOREM PeersTyped == Spec => []PeersTypeOK
<1>1. ChannelTypeOK /\ SlotTypeOK /\ RemoteTypeOK => PeersTypeOK
  BY DEF PeersTypeOK
<1> QED
  BY <1>1, ComponentsAre, ChannelTypeOKHolds, SlotTypeOKHolds, RemoteTypeOKHolds, PTL
==================================================================================
