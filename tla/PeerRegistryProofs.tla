--------------------------- MODULE PeerRegistryProofs ---------------------------
(***************************************************************************)
(* Theorems about PeerRegistry, for any finite number of handlers and      *)
(* viewers and any bounds.                                                 *)
(*                                                                         *)
(* Types first: a thread that is to use a viewer or a peer has one         *)
(* (Equipped), which makes the type invariant inductive.  Then the flag    *)
(* that lets a peer send: it follows the registry because a peer has at    *)
(* most one entry, the one of its own viewer (Entries), which holds        *)
(* because a handler registers only peers of the viewer it works for       *)
(* (Owned), and the viewer of a peer never changes (UuidsKept).            *)
(*                                                                         *)
(* A connection is in somebody's hands until it is released (Custody): a   *)
(* handler that made it and has not registered it, the registry, a thread  *)
(* that retires it, the list of retired peers or stop.  Reports come in    *)
(* order (Told) because only its own thread and, after that, the one that  *)
(* retires it move it to "disconnected" (OwnThread).  What is registered   *)
(* is open (OpenInv) as long as a late callback of the peer does not clear *)
(* the mark of its retirement (MarksStay): see AccountedWhileMarksStay.    *)
(***************************************************************************)
EXTENDS PeerRegistry, TLAPS

PeerPlaces ==
  {"claim", "resend", "describe", "sendCached", "describing", "answering",
   "rebuild", "recheck", "swap", "offer", "sendFresh", "describeFresh",
   "rollback", "restore", "close", "changed", "dispatch", "send",
   "retirePeer", "erasePeer"}

FreshPlaces ==
  {"register", "recheck", "swap", "offer", "sendFresh", "describeFresh",
   "rollback", "restore", "retireFresh", "eraseFresh"}

UuidPlaces ==
  {"lookup", "admit", "create", "register", "restart", "rebuild", "recheck",
   "swap", "offer", "sendFresh", "describeFresh", "rollback", "restore"}

\* A thread has the viewer and the peers its next steps work on.
Equipped(j) ==
  /\ j.at \in PeerPlaces \/ j.next \in {"claim", "retirePeer"} => j.peer \in Generations
  /\ j.at \in FreshPlaces => j.fresh \in Generations
  /\ j.at \in UuidPlaces \/ j.next = "admit" => j.uuid \in Uuids

JobInv == job \in [Threads -> Jobs] /\ \A t \in Threads : Equipped(job[t])

InfoInv == info \in [Generations -> PeerInfo]

StopInv ==
  /\ stop \in [at: {"idle", "collect", "close", "release"},
               todo: SUBSET Generations, peer: Generations \cup {None}]
  /\ stop.at = "release" => stop.peer \in Generations

RestInv ==
  /\ publishing \in BOOLEAN
  /\ peers \in [Uuids -> Generations \cup {None}]
  /\ active \in [Generations -> BOOLEAN]
  /\ generation \in 1..(MaxGenerations + 1)
  /\ retiredPeers \subseteq Generations
  /\ messages \in 0..MaxMessages /\ starts \in 0..MaxStarts

TypeInv == JobInv /\ InfoInv /\ StopInv /\ RestInv
------------------------------------------------------------------------------
\* A thread that gets one well-formed job leaves the others as they are.
LEMMA OneJob ==
  ASSUME JobInv, NEW t \in Threads, NEW j \in Jobs, Equipped(j),
         job' = [job EXCEPT ![t] = j]
  PROVE  JobInv'
BY DEF JobInv

\* The handlers and the connections are threads.
LEMMA Threaded == Handlers \subseteq Threads /\ Generations \subseteq Threads
BY DEF Threads

\* A thread with nothing to do needs nothing.
LEMMA IdleJob == Idle \in Jobs /\ Equipped(Idle)
BY DEF Idle, Jobs, Equipped, Places, Returns, PeerPlaces, FreshPlaces, UuidPlaces

\* A thread that is done needs nothing.
LEMMA LeaveJob ==
  ASSUME JobInv, NEW t \in Threads, Leave(t)
  PROVE  JobInv'
BY OneJob, IdleJob DEF Leave

\* A thread may go where it has what it needs.
LEMMA GoJob ==
  ASSUME JobInv, NEW t \in Threads, NEW place \in Places, Go(t, place),
         place \in PeerPlaces => job[t].peer \in Generations,
         place \in FreshPlaces => job[t].fresh \in Generations,
         place \in UuidPlaces => job[t].uuid \in Uuids
  PROVE  JobInv'
<1> DEFINE j == [job[t] EXCEPT !.at = place]
<1>1. j \in Jobs
  BY DEF JobInv, Jobs
<1>2. Equipped(j)
  BY DEF JobInv, Jobs, Equipped
<1>3. job' = [job EXCEPT ![t] = j]
  BY DEF Go, JobInv
<1> QED BY <1>1, <1>2, <1>3, OneJob
------------------------------------------------------------------------------
\* No step leaves a thread without what its next step needs.
LEMMA JobStep ==
  ASSUME TypeInv, [Next]_vars
  PROVE  JobInv'
<1> USE DEF TypeInv, Places, Returns, PeerPlaces, FreshPlaces, UuidPlaces
<1>1. ASSUME NEW h \in Handlers, OfferRequest(h) PROVE JobInv'
  <2> DEFINE j(u, s) == [Idle EXCEPT !.at = "lookup", !.uuid = u,
                                  !.session = s]
  <2>1. PICK u \in Uuids, s \in Named :
          /\ job' = [job EXCEPT ![h] = j(u, s)]
    BY <1>1 DEF OfferRequest
  <2>2. j(u, s) \in Jobs /\ Equipped(j(u, s))
    BY <2>1, RegistryAssumption DEF Idle, Jobs, Equipped, RestInv
  <2> QED BY <2>1, <2>2, OneJob, Threaded
<1>2. ASSUME NEW h \in Handlers, LookupNobody(h) PROVE JobInv'
  BY <1>2, GoJob, LeaveJob, Threaded DEF LookupNobody, JobInv, Equipped, At
<1>3. ASSUME NEW h \in Handlers, LookupStale(h) PROVE JobInv'
  <2> DEFINE j == [job[h] EXCEPT !.peer = peers[job[h].uuid], !.at = "retirePeer",
                           !.next = "admit"]
  <2>1. job' = [job EXCEPT ![h] = j]
    BY <1>3 DEF LookupStale, JobInv
  <2>2. j \in Jobs /\ Equipped(j)
    BY <1>3, Threaded DEF LookupStale, At, JobInv, RestInv, Jobs, Equipped
  <2> QED BY <2>1, <2>2, OneJob, Threaded
<1>4. ASSUME NEW h \in Handlers, LookupPeer(h) PROVE JobInv'
  <2> DEFINE j == [job[h] EXCEPT !.peer = peers[job[h].uuid], !.at = "claim"]
  <2>1. job' = [job EXCEPT ![h] = j]
    BY <1>4 DEF LookupPeer, JobInv
  <2>2. j \in Jobs /\ Equipped(j)
    BY <1>4, Threaded DEF LookupPeer, At, JobInv, RestInv, Jobs, Equipped
  <2> QED BY <2>1, <2>2, OneJob, Threaded
<1>5. ASSUME NEW h \in Handlers, Admit(h) PROVE JobInv'
  BY <1>5, GoJob, LeaveJob, Threaded DEF Admit, JobInv, Equipped, At
<1>6. ASSUME NEW h \in Handlers, Create(h) PROVE JobInv'
  BY <1>6, OneJob, Threaded, LeaveJob
  DEF Create, JobInv, Equipped, At, Jobs, Construct, ConstructThrows
<1>7. ASSUME NEW h \in Handlers, Register(h) PROVE JobInv'
  <2> DEFINE j == [job[h] EXCEPT !.peer = job[h].fresh, !.at = "claim"]
  <2>1. job' = [job EXCEPT ![h] = j]
    BY <1>7 DEF Register, JobInv
  <2>2. j \in Jobs /\ Equipped(j)
    BY <1>7, Threaded DEF Register, At, JobInv, Jobs, Equipped
  <2> QED BY <2>1, <2>2, OneJob, Threaded
<1>8. ASSUME NEW h \in Handlers, RegisterConcurrent(h) PROVE JobInv'
  <2> DEFINE j == [job[h] EXCEPT !.peer = peers[job[h].uuid], !.at = "retireFresh",
                           !.next = "claim"]
  <2>1. job' = [job EXCEPT ![h] = j]
    BY <1>8 DEF RegisterConcurrent, JobInv, WithLoser
  <2>2. j \in Jobs /\ Equipped(j)
    BY <1>8, Threaded
    DEF RegisterConcurrent, At, JobInv, RestInv, Jobs, Equipped, WithLoser
  <2> QED BY <2>1, <2>2, OneJob, Threaded
<1>9. ASSUME NEW h \in Handlers, Claim(h) PROVE JobInv'
  BY <1>9, GoJob, LeaveJob, Threaded DEF Claim, JobInv, Equipped, At
<1>10. ASSUME NEW h \in Handlers, Resend(h) PROVE JobInv'
  BY <1>10, LeaveJob, Threaded DEF Resend
<1>11. ASSUME NEW h \in Handlers, Describe(h) PROVE JobInv'
  BY <1>11, GoJob, LeaveJob, Threaded DEF Describe, JobInv, Equipped, At
<1>12. ASSUME NEW h \in Handlers, SendCached(h) PROVE JobInv'
  BY <1>12, LeaveJob, Threaded DEF SendCached
<1>13. ASSUME NEW h \in Handlers, SetLocalDescription(h) PROVE JobInv'
  BY <1>13, LeaveJob, Threaded DEF SetLocalDescription
<1>14. ASSUME NEW h \in Handlers, Answer(h) PROVE JobInv'
  <2> DEFINE j(u, s) == [Idle EXCEPT !.at = "answering", !.uuid = u,
                                  !.peer = peers[u]]
  <2>1. PICK u \in Uuids, s \in Named :
          /\ job' = [job EXCEPT ![h] = j(u, s)]
          /\ peers[u] # None
    BY <1>14 DEF Answer
  <2>2. j(u, s) \in Jobs /\ Equipped(j(u, s))
    BY <2>1 DEF Idle, Jobs, Equipped, RestInv
  <2> QED BY <2>1, <2>2, OneJob, Threaded
<1>15. ASSUME NEW h \in Handlers, SetRemoteDescription(h) PROVE JobInv'
  BY <1>15, LeaveJob, Threaded DEF SetRemoteDescription
<1>16. ASSUME NEW h \in Handlers, IceRestart(h) PROVE JobInv'
  <2> DEFINE j(u, s) == [Idle EXCEPT !.at = "restart", !.uuid = u,
                                  !.session = s]
  <2>1. PICK u \in Uuids, s \in Named :
          /\ job' = [job EXCEPT ![h] = j(u, s)]
    BY <1>16 DEF IceRestart
  <2>2. j(u, s) \in Jobs /\ Equipped(j(u, s))
    BY <2>1, RegistryAssumption DEF Idle, Jobs, Equipped, RestInv
  <2> QED BY <2>1, <2>2, OneJob, Threaded
<1>17. ASSUME NEW h \in Handlers, RestartPeer(h) PROVE JobInv'
  <2> DEFINE g == peers[job[h].uuid]
             j == [job[h] EXCEPT !.at = "rebuild", !.peer = g,
                                 !.session = info[g].session]
  <2>1. CASE MayRebuild(h, g)
    <3>1. job' = [job EXCEPT ![h] = j]
      BY <1>17, <2>1 DEF RestartPeer, JobInv
    <3>2. g \in Generations /\ job[h].uuid \in Uuids
      BY <1>17, <2>1, Threaded
      DEF RestartPeer, MayRebuild, At, JobInv, RestInv, Equipped
    <3>3. job[h] \in Jobs /\ info[g].session \in Sessions \cup {None}
      BY <3>2, Threaded DEF JobInv, InfoInv, PeerInfo
    <3>4. j \in Jobs
      BY <3>2, <3>3 DEF Jobs
    <3>5. Equipped(j)
      BY <3>2, <3>3, Threaded DEF JobInv, Jobs, Equipped
    <3> QED BY <3>1, <3>4, <3>5, OneJob, Threaded
  <2> QED BY <1>17, <2>1, LeaveJob, Threaded DEF RestartPeer
<1>18. ASSUME NEW h \in Handlers, Rebuild(h) PROVE JobInv'
  BY <1>18, OneJob, Threaded, LeaveJob
  DEF Rebuild, JobInv, Equipped, At, Jobs, Construct, ConstructThrows
<1>19. ASSUME NEW h \in Handlers, Recheck(h) PROVE JobInv'
  BY <1>19, GoJob, LeaveJob, Threaded DEF Recheck, JobInv, Equipped, At
<1>20. ASSUME NEW h \in Handlers, Swap(h) PROVE JobInv'
  BY <1>20, GoJob, LeaveJob, Threaded DEF Swap, JobInv, Equipped, At
<1>21. ASSUME NEW h \in Handlers, Superseded(h) PROVE JobInv'
  BY <1>21, GoJob, LeaveJob, Threaded DEF Superseded, JobInv, Equipped, At
<1>22. ASSUME NEW h \in Handlers, RestartOffer(h) PROVE JobInv'
  BY <1>22, GoJob, LeaveJob, Threaded DEF RestartOffer, JobInv, Equipped, At
<1>23. ASSUME NEW h \in Handlers, SendFresh(h) PROVE JobInv'
  BY <1>23, GoJob, LeaveJob, Threaded DEF SendFresh, JobInv, Equipped, At
<1>24. ASSUME NEW h \in Handlers, DescribeFresh(h) PROVE JobInv'
  BY <1>24, GoJob, LeaveJob, Threaded DEF DescribeFresh, JobInv, Equipped, At
<1>25. ASSUME NEW h \in Handlers, Rollback(h) PROVE JobInv'
  BY <1>25, GoJob, LeaveJob, Threaded DEF Rollback, JobInv, Equipped, At
<1>26. ASSUME NEW h \in Handlers, Restore(h) PROVE JobInv'
  <2> DEFINE j == [job[h] EXCEPT !.at = "retireFresh", !.next = "retirePeer"]
  <2>1. CASE MayRestore(h)
    BY <1>26, <2>1, GoJob, Threaded DEF Restore, JobInv, Equipped, At
  <2>2. CASE ~MayRestore(h)
    <3>1. job' = [job EXCEPT ![h] = j]
      BY <1>26, <2>2 DEF Restore, JobInv
    <3>2. job[h] \in Jobs /\ job[h].peer \in Generations
            /\ job[h].fresh \in Generations /\ job[h].uuid \in Uuids
      BY <1>26, Threaded DEF Restore, At, JobInv, Equipped
    <3>3. j \in Jobs /\ Equipped(j)
      BY <3>2 DEF Jobs, Equipped
    <3> QED BY <3>1, <3>3, OneJob, Threaded
  <2> QED BY <2>1, <2>2
<1>27. ASSUME NEW h \in Handlers, Disconnect(h) PROVE JobInv'
  <2> DEFINE j(u) == [Idle EXCEPT !.at = "close", !.uuid = u,
                                  !.peer = peers[u]]
  <2>1. PICK u \in Uuids :
          /\ job' = [job EXCEPT ![h] = j(u)]
          /\ peers[u] # None
    BY <1>27 DEF Disconnect
  <2>2. j(u) \in Jobs /\ Equipped(j(u))
    BY <2>1 DEF Idle, Jobs, Equipped, RestInv
  <2> QED BY <2>1, <2>2, OneJob, Threaded
<1>28. ASSUME NEW h \in Handlers, Close(h) PROVE JobInv'
  BY <1>28, GoJob, LeaveJob, Threaded DEF Close, JobInv, Equipped, At
<1>29. ASSUME NEW g \in Generations, StateChange(g) PROVE JobInv'
  BY <1>29, OneJob, Threaded, LeaveJob DEF StateChange, Idle, Jobs, Equipped
<1>30. ASSUME NEW g \in Generations, Connected(g) PROVE JobInv'
  BY <1>30, LeaveJob, Threaded DEF Connected
<1>31. ASSUME NEW g \in Generations, Disconnected(g) PROVE JobInv'
  BY <1>31, GoJob, LeaveJob, Threaded DEF Disconnected, JobInv, Equipped, At
<1>32. ASSUME NEW g \in Generations, DispatchDisconnected(g) PROVE JobInv'
  BY <1>32, GoJob, LeaveJob, Threaded DEF DispatchDisconnected, JobInv, Equipped, At
<1>33. ASSUME NEW g \in Generations, LocalDescription(g) PROVE JobInv'
  BY <1>33, OneJob, Threaded, LeaveJob DEF LocalDescription, Idle, Jobs, Equipped
<1>34. ASSUME NEW g \in Generations, SendLocal(g) PROVE JobInv'
  BY <1>34, LeaveJob, Threaded DEF SendLocal
<1>35. ASSUME NEW t \in Threads, BeginRetire(t) PROVE JobInv'
  <2> DEFINE j == [job[t] EXCEPT !.already = info[Target(t)].retired,
                           !.at = IF @ = "retirePeer" THEN "erasePeer" ELSE "eraseFresh"]
  <2>1. job' = [job EXCEPT ![t] = j]
    BY <1>35 DEF BeginRetire, JobInv, Target, InfoInv, PeerInfo
  <2>2. j \in Jobs /\ Equipped(j)
    BY <1>35, Threaded
    DEF BeginRetire, At, JobInv, RestInv, Jobs, Equipped, Target, InfoInv, PeerInfo
  <2> QED BY <2>1, <2>2, OneJob, Threaded
<1>36. ASSUME NEW t \in Threads, FinishRetire(t) PROVE JobInv'
  BY <1>36, OneJob, Threaded, LeaveJob DEF FinishRetire, JobInv, Equipped, Jobs
<1>37. ASSUME StartPublishing PROVE JobInv'
  BY <1>37 DEF StartPublishing, JobInv
<1>38. ASSUME StopPublishing PROVE JobInv'
  BY <1>38 DEF StopPublishing, JobInv
<1>39. ASSUME Collect PROVE JobInv'
  BY <1>39 DEF Collect, JobInv
<1>40. ASSUME MarkRetired PROVE JobInv'
  BY <1>40 DEF MarkRetired, JobInv
<1>41. ASSUME ReleaseOne PROVE JobInv'
  BY <1>41 DEF ReleaseOne, JobInv
<1>42. ASSUME FinishStop PROVE JobInv'
  BY <1>42 DEF FinishStop, JobInv
<1>43. CASE UNCHANGED vars
  BY <1>43 DEF vars, JobInv
<1> QED
  BY <1>1, <1>2, <1>3, <1>4, <1>5, <1>6, <1>7, <1>8, <1>9, <1>10, <1>11, <1>12,
     <1>13, <1>14, <1>15, <1>16, <1>17, <1>18, <1>19, <1>20, <1>21, <1>22, <1>23,
     <1>24, <1>25, <1>26, <1>27, <1>28, <1>29, <1>30, <1>31, <1>32, <1>33, <1>34,
     <1>35, <1>36, <1>37, <1>38, <1>39, <1>40, <1>41, <1>42, <1>43
  DEF Next, Request, Restart, Leaving, Callback, Retire, Control
------------------------------------------------------------------------------
\* The updates of a peer's fields keep their types.
LEMMA OfferedType ==
  ASSUME InfoInv, NEW g \in Generations
  PROVE  Offered(g) \in [Generations -> PeerInfo]
<1>1. info[g] \in PeerInfo
  BY DEF InfoInv
<1>2. [info[g] EXCEPT !.offered = TRUE, !.dispatched = TRUE] \in PeerInfo
  BY <1>1 DEF PeerInfo
<1>3. Offered(g) = [info EXCEPT ![g] = [info[g] EXCEPT !.offered = TRUE, !.dispatched = TRUE]]
  BY <1>1 DEF Offered, InfoInv
<1> QED BY <1>2, <1>3 DEF InfoInv

LEMMA UnclaimedType ==
  ASSUME InfoInv, NEW g \in Generations
  PROVE  Unclaimed(g) \in [Generations -> PeerInfo]
<1>1. info[g] \in PeerInfo
  BY DEF InfoInv
<1>2. [info[g] EXCEPT !.requested = FALSE, !.cached = FALSE] \in PeerInfo
  BY <1>1 DEF PeerInfo
<1>3. Unclaimed(g) = [info EXCEPT ![g] = [info[g] EXCEPT !.requested = FALSE, !.cached = FALSE]]
  BY <1>1 DEF Unclaimed, InfoInv
<1> QED BY <1>2, <1>3 DEF InfoInv

LEMMA DescribedType ==
  ASSUME InfoInv, NEW g \in Generations
  PROVE  Described(g) \in [Generations -> PeerInfo]
BY DEF Described, InfoInv, PeerInfo, OfferStates

LEMMA ReleasedType ==
  ASSUME InfoInv, NEW S
  PROVE  Released(S) \in [Generations -> PeerInfo]
<1>1. ASSUME NEW i \in PeerInfo
      PROVE  [i EXCEPT !.retired = TRUE, !.cached = FALSE, !.conn = "released"] \in PeerInfo
  BY DEF PeerInfo, ConnStates
<1>2. \A g \in Generations : info[g] \in PeerInfo
  BY DEF InfoInv
<1> QED BY <1>1, <1>2 DEF Released

\* What releasing a set of peers makes of each.
LEMMA ReleasedDoes ==
  ASSUME InfoInv, NEW S, NEW g \in Generations
  PROVE  /\ g \in S => Released(S)[g].conn = "released" /\ Released(S)[g].retired
         /\ g \notin S => Released(S)[g] = info[g]
<1>1. Released(S)[g] = IF g \in S
                       THEN [info[g] EXCEPT !.retired = TRUE, !.cached = FALSE,
                                            !.conn = "released"]
                       ELSE info[g]
  BY DEF Released
<1>2. ASSUME NEW i \in PeerInfo, NEW j,
             j = [i EXCEPT !.retired = TRUE, !.cached = FALSE, !.conn = "released"]
      PROVE  j.conn = "released" /\ j.retired
  BY <1>2 DEF PeerInfo
<1>3. info[g] \in PeerInfo
  BY DEF InfoInv
<1> QED BY <1>1, <1>2, <1>3

\* Marking and releasing a peer keep the types of its fields.
LEMMA DiscardedType ==
  ASSUME NEW f \in [Generations -> PeerInfo], NEW g
  PROVE  [f EXCEPT ![g].retired = TRUE, ![g].conn = "released"]
           \in [Generations -> PeerInfo]
<1> DEFINE F == [f EXCEPT ![g].retired = TRUE]
<1>1. F \in [Generations -> PeerInfo]
  BY DEF PeerInfo
<1>2. [F EXCEPT ![g].conn = "released"] \in [Generations -> PeerInfo]
  <2> HIDE DEF F
  <2>1. CASE g \notin Generations
    BY <1>1, <2>1
  <2>2. CASE g \in Generations
    <3>1. F[g] \in PeerInfo
      BY <1>1, <2>2
    <3>2. [F[g] EXCEPT !.conn = "released"] \in PeerInfo
      BY <3>1 DEF PeerInfo, ConnStates
    <3>3. [F EXCEPT ![g].conn = "released"]
            = [F EXCEPT ![g] = [F[g] EXCEPT !.conn = "released"]]
      BY <1>1
    <3> QED BY <1>1, <3>2, <3>3
  <2> QED BY <2>1, <2>2
<1> QED BY <1>2

\* A new connection has the fields of a peer.
LEMMA ConstructType ==
  ASSUME InfoInv, RestInv, NEW t, NEW place, Construct(t, place), job[t].uuid \in Uuids
  PROVE  InfoInv'
<1>1. PICK aged \in SUBSET retiredPeers, s \in Sessions :
         info' = [Released(aged) EXCEPT ![generation] = NewPeer(job[t].uuid, s)]
  BY DEF Construct
<1>2. NewPeer(job[t].uuid, s) \in PeerInfo
  BY DEF NewPeer, Uncreated, PeerInfo, PeerStates, OfferStates, ConnStates, Reports
<1>3. Released(aged) \in [Generations -> PeerInfo]
  BY ReleasedType
<1> QED BY <1>1, <1>2, <1>3 DEF InfoInv

\* So has one that is thrown away while it is set up.
LEMMA ThrowType ==
  ASSUME InfoInv, RestInv, NEW t, ConstructThrows(t)
  PROVE  InfoInv'
<1>1. PICK aged \in SUBSET retiredPeers :
         info' = [Released(aged) EXCEPT ![generation].retired = TRUE,
                                        ![generation].conn = "released"]
  BY DEF ConstructThrows
<1>2. Released(aged) \in [Generations -> PeerInfo]
  BY ReleasedType
<1> QED BY <1>1, <1>2, DiscardedType DEF InfoInv

\* No step breaks the types of the fields of a peer.
LEMMA InfoStep ==
  ASSUME TypeInv, [Next]_vars
  PROVE  InfoInv'
<1> USE DEF TypeInv, manager
<1>1. ASSUME NEW h \in Handlers, OfferRequest(h) PROVE InfoInv'
  BY <1>1 DEF OfferRequest, InfoInv
<1>2. ASSUME NEW h \in Handlers, LookupNobody(h) PROVE InfoInv'
  BY <1>2 DEF LookupNobody, InfoInv
<1>3. ASSUME NEW h \in Handlers, LookupStale(h) PROVE InfoInv'
  BY <1>3 DEF LookupStale, InfoInv
<1>4. ASSUME NEW h \in Handlers, LookupPeer(h) PROVE InfoInv'
  BY <1>4 DEF LookupPeer, InfoInv
<1>5. ASSUME NEW h \in Handlers, Admit(h) PROVE InfoInv'
  BY <1>5 DEF Admit, InfoInv
<1>6. ASSUME NEW h \in Handlers, Create(h) PROVE InfoInv'
  <2>1. job[h].uuid \in Uuids
    BY <1>6, Threaded DEF Create, At, JobInv, Equipped, UuidPlaces
  <2> QED BY <1>6, <2>1, ConstructType, ThrowType DEF Create
<1>7. ASSUME NEW h \in Handlers, Register(h) PROVE InfoInv'
  BY <1>7 DEF Register, InfoInv
<1>8. ASSUME NEW h \in Handlers, RegisterConcurrent(h) PROVE InfoInv'
  BY <1>8 DEF RegisterConcurrent, InfoInv
<1>9. ASSUME NEW h \in Handlers, Claim(h) PROVE InfoInv'
  <2>1. job[h].peer \in Generations
    BY <1>9, Threaded DEF Claim, At, JobInv, Equipped, PeerPlaces, FreshPlaces
  <2>2. info[job[h].peer] \in PeerInfo
    BY <2>1 DEF InfoInv
  <2> QED BY <1>9, <2>1, <2>2 DEF Claim, InfoInv, PeerInfo
<1>10. ASSUME NEW h \in Handlers, Resend(h) PROVE InfoInv'
  <2>1. job[h].peer \in Generations
    BY <1>10, Threaded DEF Resend, At, JobInv, Equipped, PeerPlaces, FreshPlaces
  <2>2. info[job[h].peer] \in PeerInfo
    BY <2>1 DEF InfoInv
  <2> QED BY <1>10, <2>1, <2>2 DEF Resend, InfoInv, PeerInfo
<1>11. ASSUME NEW h \in Handlers, Describe(h) PROVE InfoInv'
  <2>1. job[h].peer \in Generations /\ job[h].session \in Sessions \cup {None}
    BY <1>11, Threaded DEF Describe, At, JobInv, Jobs, Equipped, PeerPlaces
  <2> QED BY <1>11, <2>1 DEF Describe, InfoInv, PeerInfo
<1>12. ASSUME NEW h \in Handlers, SendCached(h) PROVE InfoInv'
  BY <1>12, OfferedType, UnclaimedType, Threaded
  DEF SendCached, At, JobInv, Equipped, PeerPlaces, InfoInv
<1>13. ASSUME NEW h \in Handlers, SetLocalDescription(h) PROVE InfoInv'
  BY <1>13, DescribedType, UnclaimedType, Threaded
  DEF SetLocalDescription, At, JobInv, Equipped, PeerPlaces, InfoInv
<1>14. ASSUME NEW h \in Handlers, Answer(h) PROVE InfoInv'
  BY <1>14 DEF Answer, InfoInv
<1>15. ASSUME NEW h \in Handlers, SetRemoteDescription(h) PROVE InfoInv'
  BY <1>15, Threaded
  DEF SetRemoteDescription, At, JobInv, Equipped, PeerPlaces,
                        InfoInv, PeerInfo, OfferStates
<1>16. ASSUME NEW h \in Handlers, IceRestart(h) PROVE InfoInv'
  BY <1>16 DEF IceRestart, InfoInv
<1>17. ASSUME NEW h \in Handlers, RestartPeer(h) PROVE InfoInv'
  BY <1>17 DEF RestartPeer, InfoInv
<1>18. ASSUME NEW h \in Handlers, Rebuild(h) PROVE InfoInv'
  <2>1. job[h].uuid \in Uuids
    BY <1>18, Threaded DEF Rebuild, At, JobInv, Equipped, UuidPlaces
  <2> QED BY <1>18, <2>1, ConstructType, ThrowType DEF Rebuild
<1>19. ASSUME NEW h \in Handlers, Recheck(h) PROVE InfoInv'
  BY <1>19 DEF Recheck, InfoInv
<1>20. ASSUME NEW h \in Handlers, Swap(h) PROVE InfoInv'
  BY <1>20 DEF Swap, InfoInv
<1>21. ASSUME NEW h \in Handlers, Superseded(h) PROVE InfoInv'
  BY <1>21 DEF Superseded, InfoInv
<1>22. ASSUME NEW h \in Handlers, RestartOffer(h) PROVE InfoInv'
  <2>1. job[h].fresh \in Generations
    BY <1>22, Threaded DEF RestartOffer, At, JobInv, Equipped, PeerPlaces, FreshPlaces
  <2>2. info[job[h].fresh] \in PeerInfo
    BY <2>1 DEF InfoInv
  <2> QED BY <1>22, <2>1, <2>2 DEF RestartOffer, InfoInv, PeerInfo
<1>23. ASSUME NEW h \in Handlers, SendFresh(h) PROVE InfoInv'
  BY <1>23, OfferedType, Threaded
  DEF SendFresh, At, JobInv, Equipped, FreshPlaces, InfoInv
<1>24. ASSUME NEW h \in Handlers, DescribeFresh(h) PROVE InfoInv'
  BY <1>24, DescribedType, Threaded
  DEF DescribeFresh, At, JobInv, Equipped, FreshPlaces, InfoInv
<1>25. ASSUME NEW h \in Handlers, Rollback(h) PROVE InfoInv'
  BY <1>25 DEF Rollback, InfoInv
<1>26. ASSUME NEW h \in Handlers, Restore(h) PROVE InfoInv'
  BY <1>26 DEF Restore, InfoInv
<1>27. ASSUME NEW h \in Handlers, Disconnect(h) PROVE InfoInv'
  BY <1>27 DEF Disconnect, InfoInv
<1>28. ASSUME NEW h \in Handlers, Close(h) PROVE InfoInv'
  BY <1>28, Threaded
  DEF Close, Closed, At, JobInv, Equipped, PeerPlaces,
                        InfoInv, PeerInfo, ConnStates
<1>29. ASSUME NEW g \in Generations, StateChange(g) PROVE InfoInv'
  BY <1>29 DEF StateChange, InfoInv
<1>30. ASSUME NEW g \in Generations, Connected(g) PROVE InfoInv'
  <2>1. info[g] \in PeerInfo
    BY DEF InfoInv
  <2> QED BY <1>30, <2>1
    DEF Connected, InfoInv, PeerInfo, PeerStates, OfferStates, Reports
<1>31. ASSUME NEW g \in Generations, Disconnected(g) PROVE InfoInv'
  <2>1. info[g] \in PeerInfo
    BY DEF InfoInv
  <2> QED BY <1>31, <2>1
    DEF Disconnected, InfoInv, PeerInfo, PeerStates, OfferStates, Reports
<1>32. ASSUME NEW g \in Generations, DispatchDisconnected(g) PROVE InfoInv'
  BY <1>32, Threaded DEF DispatchDisconnected, InfoInv, PeerInfo, Reports
<1>33. ASSUME NEW g \in Generations, LocalDescription(g) PROVE InfoInv'
  <2>1. info[g] \in PeerInfo
    BY DEF InfoInv
  <2> QED BY <1>33, <2>1
    DEF LocalDescription, InfoInv, PeerInfo, PeerStates, OfferStates, Reports, Delivered
<1>34. ASSUME NEW g \in Generations, SendLocal(g) PROVE InfoInv'
  BY <1>34, OfferedType, Threaded
  DEF SendLocal, At, JobInv, Equipped, PeerPlaces, InfoInv
<1>35. ASSUME NEW t \in Threads, BeginRetire(t) PROVE InfoInv'
  <2>1. Target(t) \in Generations
    BY <1>35, Threaded
    DEF BeginRetire, At, JobInv, Equipped, PeerPlaces, FreshPlaces, Target
  <2>2. info[Target(t)] \in PeerInfo
    BY <2>1 DEF InfoInv
  <2> QED BY <1>35, <2>1, <2>2 DEF BeginRetire, InfoInv, PeerInfo
<1>36. ASSUME NEW t \in Threads, FinishRetire(t) PROVE InfoInv'
  BY <1>36 DEF FinishRetire, InfoInv
<1>37. ASSUME StartPublishing PROVE InfoInv'
  BY <1>37, ReleasedType DEF StartPublishing, InfoInv
<1>38. ASSUME StopPublishing PROVE InfoInv'
  BY <1>38 DEF StopPublishing, InfoInv
<1>39. ASSUME Collect PROVE InfoInv'
  BY <1>39 DEF Collect, InfoInv
<1>40. ASSUME MarkRetired PROVE InfoInv'
  <2>1. PICK g \in stop.todo : info' = [info EXCEPT ![g].retired = TRUE]
    BY <1>40 DEF MarkRetired
  <2>2. g \in Generations /\ info[g] \in PeerInfo
    BY DEF StopInv, InfoInv
  <2>3. [info[g] EXCEPT !.retired = TRUE] \in PeerInfo
    BY <2>2 DEF PeerInfo
  <2>4. info' = [info EXCEPT ![g] = [info[g] EXCEPT !.retired = TRUE]]
    BY <2>1
  <2> QED BY <2>2, <2>3, <2>4 DEF InfoInv
<1>41. ASSUME ReleaseOne PROVE InfoInv'
  BY <1>41, ReleasedType DEF ReleaseOne, InfoInv
<1>42. ASSUME FinishStop PROVE InfoInv'
  BY <1>42, ReleasedType DEF FinishStop, InfoInv
<1>43. CASE UNCHANGED vars
  BY <1>43 DEF vars, InfoInv
<1> QED
  BY <1>1, <1>2, <1>3, <1>4, <1>5, <1>6, <1>7, <1>8, <1>9, <1>10, <1>11, <1>12,
     <1>13, <1>14, <1>15, <1>16, <1>17, <1>18, <1>19, <1>20, <1>21, <1>22, <1>23,
     <1>24, <1>25, <1>26, <1>27, <1>28, <1>29, <1>30, <1>31, <1>32, <1>33, <1>34,
     <1>35, <1>36, <1>37, <1>38, <1>39, <1>40, <1>41, <1>42, <1>43
  DEF Next, Request, Restart, Leaving, Callback, Retire, Control
------------------------------------------------------------------------------
\* No step breaks the types of the control thread's variables.
LEMMA StopStep ==
  ASSUME TypeInv, [Next]_vars
  PROVE  StopInv'
<1> USE DEF TypeInv, manager, bounds
<1>1. ASSUME NEW h \in Handlers, OfferRequest(h) PROVE StopInv'
  BY <1>1 DEF OfferRequest, StopInv
<1>2. ASSUME NEW h \in Handlers, LookupNobody(h) PROVE StopInv'
  BY <1>2 DEF LookupNobody, StopInv
<1>3. ASSUME NEW h \in Handlers, LookupStale(h) PROVE StopInv'
  BY <1>3 DEF LookupStale, StopInv
<1>4. ASSUME NEW h \in Handlers, LookupPeer(h) PROVE StopInv'
  BY <1>4 DEF LookupPeer, StopInv
<1>5. ASSUME NEW h \in Handlers, Admit(h) PROVE StopInv'
  BY <1>5 DEF Admit, StopInv
<1>6. ASSUME NEW h \in Handlers, Create(h) PROVE StopInv'
  BY <1>6 DEF Create, Construct, ConstructThrows, StopInv
<1>7. ASSUME NEW h \in Handlers, Register(h) PROVE StopInv'
  BY <1>7 DEF Register, StopInv
<1>8. ASSUME NEW h \in Handlers, RegisterConcurrent(h) PROVE StopInv'
  BY <1>8 DEF RegisterConcurrent, StopInv
<1>9. ASSUME NEW h \in Handlers, Claim(h) PROVE StopInv'
  BY <1>9 DEF Claim, StopInv
<1>10. ASSUME NEW h \in Handlers, Resend(h) PROVE StopInv'
  BY <1>10 DEF Resend, StopInv
<1>11. ASSUME NEW h \in Handlers, Describe(h) PROVE StopInv'
  BY <1>11 DEF Describe, StopInv
<1>12. ASSUME NEW h \in Handlers, SendCached(h) PROVE StopInv'
  BY <1>12 DEF SendCached, StopInv
<1>13. ASSUME NEW h \in Handlers, SetLocalDescription(h) PROVE StopInv'
  BY <1>13 DEF SetLocalDescription, StopInv
<1>14. ASSUME NEW h \in Handlers, Answer(h) PROVE StopInv'
  BY <1>14 DEF Answer, StopInv
<1>15. ASSUME NEW h \in Handlers, SetRemoteDescription(h) PROVE StopInv'
  BY <1>15 DEF SetRemoteDescription, StopInv
<1>16. ASSUME NEW h \in Handlers, IceRestart(h) PROVE StopInv'
  BY <1>16 DEF IceRestart, StopInv
<1>17. ASSUME NEW h \in Handlers, RestartPeer(h) PROVE StopInv'
  BY <1>17 DEF RestartPeer, StopInv
<1>18. ASSUME NEW h \in Handlers, Rebuild(h) PROVE StopInv'
  BY <1>18 DEF Rebuild, Construct, ConstructThrows, StopInv
<1>19. ASSUME NEW h \in Handlers, Recheck(h) PROVE StopInv'
  BY <1>19 DEF Recheck, StopInv
<1>20. ASSUME NEW h \in Handlers, Swap(h) PROVE StopInv'
  BY <1>20 DEF Swap, StopInv
<1>21. ASSUME NEW h \in Handlers, Superseded(h) PROVE StopInv'
  BY <1>21 DEF Superseded, StopInv
<1>22. ASSUME NEW h \in Handlers, RestartOffer(h) PROVE StopInv'
  BY <1>22 DEF RestartOffer, StopInv
<1>23. ASSUME NEW h \in Handlers, SendFresh(h) PROVE StopInv'
  BY <1>23 DEF SendFresh, StopInv
<1>24. ASSUME NEW h \in Handlers, DescribeFresh(h) PROVE StopInv'
  BY <1>24 DEF DescribeFresh, StopInv
<1>25. ASSUME NEW h \in Handlers, Rollback(h) PROVE StopInv'
  BY <1>25 DEF Rollback, StopInv
<1>26. ASSUME NEW h \in Handlers, Restore(h) PROVE StopInv'
  BY <1>26 DEF Restore, StopInv
<1>27. ASSUME NEW h \in Handlers, Disconnect(h) PROVE StopInv'
  BY <1>27 DEF Disconnect, StopInv
<1>28. ASSUME NEW h \in Handlers, Close(h) PROVE StopInv'
  BY <1>28 DEF Close, StopInv
<1>29. ASSUME NEW g \in Generations, StateChange(g) PROVE StopInv'
  BY <1>29 DEF StateChange, StopInv
<1>30. ASSUME NEW g \in Generations, Connected(g) PROVE StopInv'
  BY <1>30 DEF Connected, StopInv
<1>31. ASSUME NEW g \in Generations, Disconnected(g) PROVE StopInv'
  BY <1>31 DEF Disconnected, StopInv
<1>32. ASSUME NEW g \in Generations, DispatchDisconnected(g) PROVE StopInv'
  BY <1>32 DEF DispatchDisconnected, StopInv
<1>33. ASSUME NEW g \in Generations, LocalDescription(g) PROVE StopInv'
  BY <1>33 DEF LocalDescription, StopInv
<1>34. ASSUME NEW g \in Generations, SendLocal(g) PROVE StopInv'
  BY <1>34 DEF SendLocal, StopInv
<1>35. ASSUME NEW t \in Threads, BeginRetire(t) PROVE StopInv'
  BY <1>35 DEF BeginRetire, StopInv
<1>36. ASSUME NEW t \in Threads, FinishRetire(t) PROVE StopInv'
  BY <1>36 DEF FinishRetire, StopInv
<1>37. ASSUME StartPublishing PROVE StopInv'
  BY <1>37 DEF StartPublishing, StopInv, Resting
<1>38. ASSUME StopPublishing PROVE StopInv'
  BY <1>38 DEF StopPublishing, StopInv, Resting
<1>39. ASSUME Collect PROVE StopInv'
  BY <1>39 DEF Collect, StopInv, Resting, Collected
<1>40. ASSUME MarkRetired PROVE StopInv'
  BY <1>40 DEF MarkRetired, StopInv, Resting
<1>41. ASSUME ReleaseOne PROVE StopInv'
  BY <1>41 DEF ReleaseOne, StopInv, Resting
<1>42. ASSUME FinishStop PROVE StopInv'
  BY <1>42 DEF FinishStop, StopInv, Resting
<1>43. CASE UNCHANGED vars
  BY <1>43 DEF vars, StopInv
<1> QED
  BY <1>1, <1>2, <1>3, <1>4, <1>5, <1>6, <1>7, <1>8, <1>9, <1>10, <1>11, <1>12,
     <1>13, <1>14, <1>15, <1>16, <1>17, <1>18, <1>19, <1>20, <1>21, <1>22, <1>23,
     <1>24, <1>25, <1>26, <1>27, <1>28, <1>29, <1>30, <1>31, <1>32, <1>33, <1>34,
     <1>35, <1>36, <1>37, <1>38, <1>39, <1>40, <1>41, <1>42, <1>43
  DEF Next, Request, Restart, Leaving, Callback, Retire, Control
------------------------------------------------------------------------------
\* A generation is handed out only while there is one left.
LEMMA ConstructRest ==
  ASSUME RestInv, NEW t, NEW place, Construct(t, place)
  PROVE  RestInv'
<1>1. MaxGenerations \in Nat /\ generation \in 1..(MaxGenerations + 1)
  BY RegistryAssumption DEF RestInv
<1>2. generation' \in 1..(MaxGenerations + 1)
  BY <1>1 DEF Construct
<1>3. retiredPeers' \subseteq Generations
  BY DEF Construct, RestInv
<1> QED BY <1>2, <1>3 DEF Construct, RestInv, bounds

LEMMA ThrowRest ==
  ASSUME RestInv, NEW t, ConstructThrows(t)
  PROVE  RestInv'
<1>1. MaxGenerations \in Nat /\ generation \in 1..(MaxGenerations + 1)
  BY RegistryAssumption DEF RestInv
<1>2. generation' \in 1..(MaxGenerations + 1)
  BY <1>1 DEF ConstructThrows
<1>3. retiredPeers' \subseteq Generations
  BY DEF ConstructThrows, RestInv
<1> QED BY <1>2, <1>3 DEF ConstructThrows, RestInv, bounds

------------------------------------------------------------------------------
\* No step breaks the types of the registry and the counters.
LEMMA RestStep ==
  ASSUME TypeInv, [Next]_vars
  PROVE  RestInv'
<1> USE DEF TypeInv, manager, bounds
<1>1. ASSUME NEW h \in Handlers, OfferRequest(h) PROVE RestInv'
  BY <1>1, RegistryAssumption DEF OfferRequest, Deliver, RestInv
<1>2. ASSUME NEW h \in Handlers, LookupNobody(h) PROVE RestInv'
  BY <1>2 DEF LookupNobody, RestInv
<1>3. ASSUME NEW h \in Handlers, LookupStale(h) PROVE RestInv'
  BY <1>3 DEF LookupStale, RestInv
<1>4. ASSUME NEW h \in Handlers, LookupPeer(h) PROVE RestInv'
  BY <1>4 DEF LookupPeer, RestInv
<1>5. ASSUME NEW h \in Handlers, Admit(h) PROVE RestInv'
  BY <1>5 DEF Admit, RestInv
<1>6. ASSUME NEW h \in Handlers, Create(h) PROVE RestInv'
  BY <1>6, ConstructRest, ThrowRest DEF Create
<1>7. ASSUME NEW h \in Handlers, Register(h) PROVE RestInv'
  <2>1. job[h].fresh \in Generations
    BY <1>7, Threaded DEF Register, At, JobInv, Equipped, PeerPlaces, FreshPlaces
  <2> QED BY <1>7, <2>1 DEF Register, RestInv
<1>8. ASSUME NEW h \in Handlers, RegisterConcurrent(h) PROVE RestInv'
  BY <1>8 DEF RegisterConcurrent, RestInv
<1>9. ASSUME NEW h \in Handlers, Claim(h) PROVE RestInv'
  BY <1>9 DEF Claim, RestInv
<1>10. ASSUME NEW h \in Handlers, Resend(h) PROVE RestInv'
  BY <1>10 DEF Resend, RestInv
<1>11. ASSUME NEW h \in Handlers, Describe(h) PROVE RestInv'
  BY <1>11 DEF Describe, RestInv
<1>12. ASSUME NEW h \in Handlers, SendCached(h) PROVE RestInv'
  BY <1>12 DEF SendCached, RestInv
<1>13. ASSUME NEW h \in Handlers, SetLocalDescription(h) PROVE RestInv'
  BY <1>13 DEF SetLocalDescription, RestInv
<1>14. ASSUME NEW h \in Handlers, Answer(h) PROVE RestInv'
  BY <1>14, RegistryAssumption DEF Answer, Deliver, RestInv
<1>15. ASSUME NEW h \in Handlers, SetRemoteDescription(h) PROVE RestInv'
  BY <1>15 DEF SetRemoteDescription, RestInv
<1>16. ASSUME NEW h \in Handlers, IceRestart(h) PROVE RestInv'
  BY <1>16, RegistryAssumption DEF IceRestart, Deliver, RestInv
<1>17. ASSUME NEW h \in Handlers, RestartPeer(h) PROVE RestInv'
  BY <1>17 DEF RestartPeer, RestInv
<1>18. ASSUME NEW h \in Handlers, Rebuild(h) PROVE RestInv'
  BY <1>18, ConstructRest, ThrowRest DEF Rebuild
<1>19. ASSUME NEW h \in Handlers, Recheck(h) PROVE RestInv'
  BY <1>19 DEF Recheck, RestInv
<1>20. ASSUME NEW h \in Handlers, Swap(h) PROVE RestInv'
  <2>1. job[h].fresh \in Generations
    BY <1>20, Threaded DEF Swap, At, JobInv, Equipped, PeerPlaces, FreshPlaces
  <2> QED BY <1>20, <2>1 DEF Swap, RestInv
<1>21. ASSUME NEW h \in Handlers, Superseded(h) PROVE RestInv'
  BY <1>21 DEF Superseded, RestInv
<1>22. ASSUME NEW h \in Handlers, RestartOffer(h) PROVE RestInv'
  BY <1>22 DEF RestartOffer, RestInv
<1>23. ASSUME NEW h \in Handlers, SendFresh(h) PROVE RestInv'
  BY <1>23 DEF SendFresh, RestInv
<1>24. ASSUME NEW h \in Handlers, DescribeFresh(h) PROVE RestInv'
  BY <1>24 DEF DescribeFresh, RestInv
<1>25. ASSUME NEW h \in Handlers, Rollback(h) PROVE RestInv'
  BY <1>25 DEF Rollback, RestInv
<1>26. ASSUME NEW h \in Handlers, Restore(h) PROVE RestInv'
  <2>1. job[h].peer \in Generations
    BY <1>26, Threaded DEF Restore, At, JobInv, Equipped, PeerPlaces, FreshPlaces
  <2> QED BY <1>26, <2>1 DEF Restore, RestInv
<1>27. ASSUME NEW h \in Handlers, Disconnect(h) PROVE RestInv'
  BY <1>27, RegistryAssumption DEF Disconnect, Deliver, RestInv
<1>28. ASSUME NEW h \in Handlers, Close(h) PROVE RestInv'
  BY <1>28 DEF Close, RestInv
<1>29. ASSUME NEW g \in Generations, StateChange(g) PROVE RestInv'
  BY <1>29 DEF StateChange, RestInv
<1>30. ASSUME NEW g \in Generations, Connected(g) PROVE RestInv'
  BY <1>30 DEF Connected, RestInv
<1>31. ASSUME NEW g \in Generations, Disconnected(g) PROVE RestInv'
  BY <1>31 DEF Disconnected, RestInv
<1>32. ASSUME NEW g \in Generations, DispatchDisconnected(g) PROVE RestInv'
  BY <1>32 DEF DispatchDisconnected, RestInv
<1>33. ASSUME NEW g \in Generations, LocalDescription(g) PROVE RestInv'
  BY <1>33 DEF LocalDescription, RestInv
<1>34. ASSUME NEW g \in Generations, SendLocal(g) PROVE RestInv'
  BY <1>34 DEF SendLocal, RestInv
<1>35. ASSUME NEW t \in Threads, BeginRetire(t) PROVE RestInv'
  BY <1>35 DEF BeginRetire, RestInv
<1>36. ASSUME NEW t \in Threads, FinishRetire(t) PROVE RestInv'
  <2>1. Target(t) \in Generations
    BY <1>36 DEF FinishRetire, Target, JobInv, Equipped, PeerPlaces, FreshPlaces
  <2> QED BY <1>36, <2>1 DEF FinishRetire, RestInv, Without
<1>37. ASSUME StartPublishing PROVE RestInv'
  BY <1>37, RegistryAssumption DEF StartPublishing, RestInv
<1>38. ASSUME StopPublishing PROVE RestInv'
  BY <1>38 DEF StopPublishing, RestInv
<1>39. ASSUME Collect PROVE RestInv'
  BY <1>39 DEF Collect, RestInv, Collected
<1>40. ASSUME MarkRetired PROVE RestInv'
  BY <1>40 DEF MarkRetired, RestInv
<1>41. ASSUME ReleaseOne PROVE RestInv'
  BY <1>41 DEF ReleaseOne, RestInv
<1>42. ASSUME FinishStop PROVE RestInv'
  BY <1>42 DEF FinishStop, RestInv
<1>43. CASE UNCHANGED vars
  BY <1>43 DEF vars, RestInv
<1> QED
  BY <1>1, <1>2, <1>3, <1>4, <1>5, <1>6, <1>7, <1>8, <1>9, <1>10, <1>11, <1>12,
     <1>13, <1>14, <1>15, <1>16, <1>17, <1>18, <1>19, <1>20, <1>21, <1>22, <1>23,
     <1>24, <1>25, <1>26, <1>27, <1>28, <1>29, <1>30, <1>31, <1>32, <1>33, <1>34,
     <1>35, <1>36, <1>37, <1>38, <1>39, <1>40, <1>41, <1>42, <1>43
  DEF Next, Request, Restart, Leaving, Callback, Retire, Control
------------------------------------------------------------------------------
\* The initial state has the types.
LEMMA TypeInit == Init => TypeInv
<1> SUFFICES ASSUME Init PROVE TypeInv
  OBVIOUS
<1> USE DEF Init
<1>1. JobInv
  BY IdleJob DEF JobInv
<1>2. InfoInv
  BY DEF InfoInv, PeerInfo, Uncreated, PeerStates, OfferStates, ConnStates, Reports
<1>3. StopInv
  BY DEF StopInv, Resting
<1>4. RestInv
  <2>1. MaxGenerations \in Nat /\ MaxMessages \in Nat /\ MaxStarts \in Nat
    BY RegistryAssumption
  <2>2. generation \in 1..(MaxGenerations + 1) /\ messages \in 0..MaxMessages
          /\ starts \in 0..MaxStarts
    BY <2>1
  <2>3. peers \in [Uuids -> Generations \cup {None}] /\ active \in [Generations -> BOOLEAN]
    OBVIOUS
  <2> QED BY <2>2, <2>3 DEF RestInv
<1> QED BY <1>1, <1>2, <1>3, <1>4 DEF TypeInv

\* The fields of every peer, the registry and the local variables of every
\* thread keep their types, and a thread always has what its next step needs.
THEOREM TypeCorrect == Spec => []TypeOK
<1>1. Init => TypeInv
  BY TypeInit
<1>2. TypeInv /\ [Next]_vars => TypeInv'
  BY JobStep, InfoStep, StopStep, RestStep DEF TypeInv
<1>3. TypeInv => TypeOK
  BY DEF TypeInv, JobInv, InfoInv, StopInv, RestInv, TypeOK
<1> QED BY <1>1, <1>2, <1>3, PTL DEF Spec
------------------------------------------------------------------------------
\* A peer is registered under its own viewer, and is in no other entry.
Entries ==
  \A u \in Uuids : peers[u] # None =>
    info[peers[u]].uuid = u /\ peers[u] < generation

FreshOwned == {"register", "recheck", "swap"}

PeerOwned ==
  {"rebuild", "recheck", "swap", "offer", "sendFresh", "describeFresh",
   "rollback", "restore"}

\* A peer that a handler may register belongs to the viewer it works for.
Owned(j) ==
  /\ j.at \in FreshOwned => info[j.fresh].uuid = j.uuid /\ j.fresh < generation
  /\ j.at \in PeerOwned => info[j.peer].uuid = j.uuid /\ j.peer < generation

OwnedInv == \A t \in Threads : Owned(job[t])

RegistryInv == TypeInv /\ Entries /\ OwnedInv /\ ActiveIsRegistered
------------------------------------------------------------------------------
\* The viewer of a connection never changes.
UuidsKept ==
  /\ \A g \in Generations : g < generation => info'[g].uuid = info[g].uuid
  /\ generation \in Int /\ generation' \in Int /\ generation <= generation'

\* Releasing a peer does not change its viewer.
LEMMA ReleasedUuid ==
  ASSUME InfoInv, NEW S, NEW g \in Generations
  PROVE  Released(S)[g].uuid = info[g].uuid
BY DEF Released, InfoInv, PeerInfo

LEMMA GenerationType == TypeInv => generation \in Int
BY RegistryAssumption DEF TypeInv, RestInv

\* A new connection belongs to the viewer it was created for.
LEMMA ConstructUuid ==
  ASSUME TypeInv, NEW t, NEW place, Construct(t, place)
  PROVE  UuidsKept /\ info'[generation].uuid = job[t].uuid
<1>1. PICK aged \in SUBSET retiredPeers, s \in Sessions :
         info' = [Released(aged) EXCEPT ![generation] = NewPeer(job[t].uuid, s)]
  BY DEF Construct
<1>2. generation \in Generations /\ generation \in Int
  BY RegistryAssumption DEF Construct, TypeInv, RestInv, Generations
<1>3. \A g \in Generations : g # generation => info'[g].uuid = info[g].uuid
  BY <1>1 DEF Released, TypeInv, InfoInv, PeerInfo
<1>4. info'[generation] = NewPeer(job[t].uuid, s)
  BY <1>1, <1>2 DEF Released
<1>5. generation' = generation + 1
  BY DEF Construct
<1>6. info'[generation].uuid = job[t].uuid
  BY <1>4 DEF NewPeer, Uncreated
<1>7. UuidsKept
  BY <1>2, <1>3, <1>5 DEF UuidsKept, Generations
<1> QED BY <1>6, <1>7

LEMMA ThrowUuid ==
  ASSUME TypeInv, NEW t, ConstructThrows(t)
  PROVE  UuidsKept
<1>1. PICK aged \in SUBSET retiredPeers :
         info' = [Released(aged) EXCEPT ![generation].retired = TRUE,
                                        ![generation].conn = "released"]
  BY DEF ConstructThrows
<1>2. \A g \in Generations : g # generation => info'[g].uuid = info[g].uuid
  BY <1>1 DEF Released, TypeInv, InfoInv, PeerInfo
<1>3. generation' = generation + 1 /\ generation \in Int
  BY GenerationType DEF ConstructThrows
<1> QED BY <1>2, <1>3 DEF UuidsKept, Generations

\* No step changes the viewer of a connection that exists.
LEMMA UuidStep ==
  ASSUME TypeInv, [Next]_vars
  PROVE  UuidsKept
<1>0. generation \in Int
  BY RegistryAssumption DEF TypeInv, RestInv
<1> USE <1>0 DEF TypeInv, InfoInv, PeerInfo, manager, bounds, UuidsKept
<1>1. ASSUME NEW h \in Handlers, OfferRequest(h) PROVE UuidsKept
  BY <1>1 DEF OfferRequest
<1>2. ASSUME NEW h \in Handlers, LookupNobody(h) PROVE UuidsKept
  BY <1>2 DEF LookupNobody
<1>3. ASSUME NEW h \in Handlers, LookupStale(h) PROVE UuidsKept
  BY <1>3 DEF LookupStale
<1>4. ASSUME NEW h \in Handlers, LookupPeer(h) PROVE UuidsKept
  BY <1>4 DEF LookupPeer
<1>5. ASSUME NEW h \in Handlers, Admit(h) PROVE UuidsKept
  BY <1>5 DEF Admit
<1>6. ASSUME NEW h \in Handlers, Create(h) PROVE UuidsKept
  BY <1>6, ConstructUuid, ThrowUuid DEF Create
<1>7. ASSUME NEW h \in Handlers, Register(h) PROVE UuidsKept
  BY <1>7 DEF Register
<1>8. ASSUME NEW h \in Handlers, RegisterConcurrent(h) PROVE UuidsKept
  BY <1>8 DEF RegisterConcurrent
<1>9. ASSUME NEW h \in Handlers, Claim(h) PROVE UuidsKept
  BY <1>9 DEF Claim
<1>10. ASSUME NEW h \in Handlers, Resend(h) PROVE UuidsKept
  BY <1>10 DEF Resend
<1>11. ASSUME NEW h \in Handlers, Describe(h) PROVE UuidsKept
  BY <1>11 DEF Describe
<1>12. ASSUME NEW h \in Handlers, SendCached(h) PROVE UuidsKept
  BY <1>12 DEF SendCached, Offered, Unclaimed
<1>13. ASSUME NEW h \in Handlers, SetLocalDescription(h) PROVE UuidsKept
  BY <1>13 DEF SetLocalDescription, Described, Unclaimed
<1>14. ASSUME NEW h \in Handlers, Answer(h) PROVE UuidsKept
  BY <1>14 DEF Answer
<1>15. ASSUME NEW h \in Handlers, SetRemoteDescription(h) PROVE UuidsKept
  BY <1>15 DEF SetRemoteDescription
<1>16. ASSUME NEW h \in Handlers, IceRestart(h) PROVE UuidsKept
  BY <1>16 DEF IceRestart
<1>17. ASSUME NEW h \in Handlers, RestartPeer(h) PROVE UuidsKept
  BY <1>17 DEF RestartPeer
<1>18. ASSUME NEW h \in Handlers, Rebuild(h) PROVE UuidsKept
  BY <1>18, ConstructUuid, ThrowUuid DEF Rebuild
<1>19. ASSUME NEW h \in Handlers, Recheck(h) PROVE UuidsKept
  BY <1>19 DEF Recheck
<1>20. ASSUME NEW h \in Handlers, Swap(h) PROVE UuidsKept
  BY <1>20 DEF Swap
<1>21. ASSUME NEW h \in Handlers, Superseded(h) PROVE UuidsKept
  BY <1>21 DEF Superseded
<1>22. ASSUME NEW h \in Handlers, RestartOffer(h) PROVE UuidsKept
  BY <1>22 DEF RestartOffer
<1>23. ASSUME NEW h \in Handlers, SendFresh(h) PROVE UuidsKept
  BY <1>23 DEF SendFresh, Offered
<1>24. ASSUME NEW h \in Handlers, DescribeFresh(h) PROVE UuidsKept
  BY <1>24 DEF DescribeFresh, Described
<1>25. ASSUME NEW h \in Handlers, Rollback(h) PROVE UuidsKept
  BY <1>25 DEF Rollback
<1>26. ASSUME NEW h \in Handlers, Restore(h) PROVE UuidsKept
  BY <1>26 DEF Restore
<1>27. ASSUME NEW h \in Handlers, Disconnect(h) PROVE UuidsKept
  BY <1>27 DEF Disconnect
<1>28. ASSUME NEW h \in Handlers, Close(h) PROVE UuidsKept
  BY <1>28 DEF Close, Closed
<1>29. ASSUME NEW g \in Generations, StateChange(g) PROVE UuidsKept
  BY <1>29 DEF StateChange
<1>30. ASSUME NEW g \in Generations, Connected(g) PROVE UuidsKept
  BY <1>30 DEF Connected
<1>31. ASSUME NEW g \in Generations, Disconnected(g) PROVE UuidsKept
  BY <1>31 DEF Disconnected
<1>32. ASSUME NEW g \in Generations, DispatchDisconnected(g) PROVE UuidsKept
  BY <1>32 DEF DispatchDisconnected
<1>33. ASSUME NEW g \in Generations, LocalDescription(g) PROVE UuidsKept
  BY <1>33 DEF LocalDescription, Delivered
<1>34. ASSUME NEW g \in Generations, SendLocal(g) PROVE UuidsKept
  BY <1>34 DEF SendLocal, Offered
<1>35. ASSUME NEW t \in Threads, BeginRetire(t) PROVE UuidsKept
  BY <1>35 DEF BeginRetire
<1>36. ASSUME NEW t \in Threads, FinishRetire(t) PROVE UuidsKept
  BY <1>36 DEF FinishRetire
<1>37. ASSUME StartPublishing PROVE UuidsKept
  BY <1>37, ReleasedUuid DEF StartPublishing
<1>38. ASSUME StopPublishing PROVE UuidsKept
  BY <1>38 DEF StopPublishing
<1>39. ASSUME Collect PROVE UuidsKept
  BY <1>39 DEF Collect
<1>40. ASSUME MarkRetired PROVE UuidsKept
  BY <1>40 DEF MarkRetired
<1>41. ASSUME ReleaseOne PROVE UuidsKept
  BY <1>41, ReleasedUuid DEF ReleaseOne
<1>42. ASSUME FinishStop PROVE UuidsKept
  BY <1>42, ReleasedUuid DEF FinishStop
<1>43. CASE UNCHANGED vars
  BY <1>43 DEF vars
<1> QED
  BY <1>1, <1>2, <1>3, <1>4, <1>5, <1>6, <1>7, <1>8, <1>9, <1>10, <1>11, <1>12,
     <1>13, <1>14, <1>15, <1>16, <1>17, <1>18, <1>19, <1>20, <1>21, <1>22, <1>23,
     <1>24, <1>25, <1>26, <1>27, <1>28, <1>29, <1>30, <1>31, <1>32, <1>33, <1>34,
     <1>35, <1>36, <1>37, <1>38, <1>39, <1>40, <1>41, <1>42, <1>43
  DEF Next, Request, Restart, Leaving, Callback, Retire, Control
------------------------------------------------------------------------------
\* What a job needs of the viewers, in the next state.
Owns(j) ==
  /\ j.at \in FreshOwned => info'[j.fresh].uuid = j.uuid /\ j.fresh < generation'
  /\ j.at \in PeerOwned => info'[j.peer].uuid = j.uuid /\ j.peer < generation'

\* What a job needs of the viewers stays true.
LEMMA OwnedStays ==
  ASSUME TypeInv, OwnedInv, UuidsKept, NEW t \in Threads
  PROVE  Owns(job[t])
<1>1. Owned(job[t]) /\ Equipped(job[t])
  BY DEF OwnedInv, TypeInv, JobInv
<1>2. \A g \in Generations : g \in Int
  BY DEF Generations
<1> QED BY <1>1, <1>2 DEF Owned, Owns, Equipped, UuidsKept, FreshOwned, PeerOwned,
                          FreshPlaces, PeerPlaces

LEMMA OwnedKept ==
  ASSUME TypeInv, OwnedInv, UuidsKept, job' = job
  PROVE  OwnedInv'
BY OwnedStays DEF OwnedInv, Owned, Owns

\* A thread that moves alone must see to its own job only.
LEMMA OwnedMove ==
  ASSUME TypeInv, OwnedInv, UuidsKept, NEW t \in Threads,
         \A s \in Threads \ {t} : job'[s] = job[s],
         job'[t].at \in FreshOwned =>
           info'[job'[t].fresh].uuid = job'[t].uuid /\ job'[t].fresh < generation',
         job'[t].at \in PeerOwned =>
           info'[job'[t].peer].uuid = job'[t].uuid /\ job'[t].peer < generation'
  PROVE  OwnedInv'
<1>1. \A s \in Threads \ {t} : Owned(job[s])'
  BY OwnedStays DEF Owned, Owns
<1>2. Owned(job[t])'
  BY DEF Owned
<1> QED BY <1>1, <1>2 DEF OwnedInv

\* The peer of a handler that builds a replacement.
LEMMA PeerKept ==
  ASSUME TypeInv, OwnedInv, UuidsKept, NEW t \in Threads, job[t].at \in PeerOwned
  PROVE  info'[job[t].peer].uuid = job[t].uuid /\ job[t].peer < generation'
BY OwnedStays DEF Owns

\* A handler that goes on with the restart.
LEMMA OwnedGo ==
  ASSUME TypeInv, OwnedInv, UuidsKept, NEW t \in Threads, NEW place, Go(t, place),
         job[t].at \in PeerOwned, place \in FreshOwned => job[t].at \in FreshOwned
  PROVE  OwnedInv'
<1>1. /\ \A s \in Threads \ {t} : job'[s] = job[s]
      /\ job'[t].fresh = job[t].fresh /\ job'[t].uuid = job[t].uuid
      /\ job'[t].peer = job[t].peer /\ job'[t].at = place
  BY DEF Go, TypeInv, JobInv, Jobs
<1>2. Owns(job[t])
  BY OwnedStays
<1> QED BY <1>1, <1>2, OwnedMove DEF Owns

\* The other threads do nothing.
OthersRest(t) == \A k \in Threads \ {t} : job'[k] = job[k]

\* No step makes a handler work on a peer of another viewer.
LEMMA OwnedStep ==
  ASSUME TypeInv, Entries, OwnedInv, [Next]_vars
  PROVE  OwnedInv'
<1>0. UuidsKept
  BY UuidStep
<1> USE <1>0 DEF TypeInv, OthersRest, FreshOwned, PeerOwned, At
<1>1. ASSUME NEW h \in Handlers, OfferRequest(h) PROVE OwnedInv'
  <2>1. OthersRest(h)
    BY <1>1 DEF OfferRequest, JobInv
  <2>2. job'[h].at \notin FreshOwned \cup PeerOwned
    BY <1>1, Threaded DEF OfferRequest, JobInv, Idle
  <2> QED BY <2>1, <2>2, OwnedMove, Threaded
<1>2. ASSUME NEW h \in Handlers, LookupNobody(h) PROVE OwnedInv'
  <2>1. OthersRest(h)
    BY <1>2, Threaded DEF LookupNobody, Go, Leave, Idle, WithLoser, JobInv
  <2>2. job'[h].at \notin FreshOwned \cup PeerOwned
    BY <1>2, Threaded DEF LookupNobody, Go, Leave, Idle, WithLoser, JobInv, Jobs, Returns
  <2> QED BY <2>1, <2>2, OwnedMove, Threaded
<1>3. ASSUME NEW h \in Handlers, LookupStale(h) PROVE OwnedInv'
  <2>1. OthersRest(h)
    BY <1>3 DEF LookupStale, JobInv
  <2>2. job'[h].at \notin FreshOwned \cup PeerOwned
    BY <1>3, Threaded DEF LookupStale, JobInv, Jobs
  <2> QED BY <2>1, <2>2, OwnedMove, Threaded
<1>4. ASSUME NEW h \in Handlers, LookupPeer(h) PROVE OwnedInv'
  <2>1. OthersRest(h)
    BY <1>4, Threaded DEF LookupPeer, Go, Leave, Idle, WithLoser, JobInv
  <2>2. job'[h].at \notin FreshOwned \cup PeerOwned
    BY <1>4, Threaded DEF LookupPeer, Go, Leave, Idle, WithLoser, JobInv, Jobs, Returns
  <2> QED BY <2>1, <2>2, OwnedMove, Threaded
<1>5. ASSUME NEW h \in Handlers, Admit(h) PROVE OwnedInv'
  <2>1. OthersRest(h)
    BY <1>5, Threaded DEF Admit, Go, Leave, Idle, WithLoser, JobInv
  <2>2. job'[h].at \notin FreshOwned \cup PeerOwned
    BY <1>5, Threaded DEF Admit, Go, Leave, Idle, WithLoser, JobInv, Jobs, Returns
  <2> QED BY <2>1, <2>2, OwnedMove, Threaded
<1>6. ASSUME NEW h \in Handlers, Create(h) PROVE OwnedInv'
  <2>1. h \in Threads
    BY Threaded
  <2>2. CASE Construct(h, "register")
    <3>1. info'[generation].uuid = job[h].uuid /\ generation' = generation + 1
      BY <2>2, ConstructUuid DEF Construct
    <3>2. job' = [job EXCEPT ![h].fresh = generation, ![h].at = "register"]
      BY <2>2 DEF Construct
    <3>3. /\ job'[h].fresh = generation /\ job'[h].uuid = job[h].uuid
          /\ job'[h].peer = job[h].peer /\ job'[h].at = "register"
          /\ OthersRest(h)
      BY <2>1, <3>2 DEF JobInv, Jobs
    <3>4. generation < generation'
      BY <3>1 DEF UuidsKept
    <3> QED BY <1>6, <2>1, <3>1, <3>3, <3>4, OwnedMove, PeerKept DEF Create
  <2>3. CASE ConstructThrows(h)
    BY <2>1, <2>3, OwnedMove DEF ConstructThrows, Leave, Idle, JobInv
  <2> QED BY <1>6, <2>2, <2>3 DEF Create
<1>7. ASSUME NEW h \in Handlers, Register(h) PROVE OwnedInv'
  <2>1. OthersRest(h)
    BY <1>7, Threaded DEF Register, Go, Leave, Idle, WithLoser, JobInv
  <2>2. job'[h].at \notin FreshOwned \cup PeerOwned
    BY <1>7, Threaded DEF Register, Go, Leave, Idle, WithLoser, JobInv, Jobs, Returns
  <2> QED BY <2>1, <2>2, OwnedMove, Threaded
<1>8. ASSUME NEW h \in Handlers, RegisterConcurrent(h) PROVE OwnedInv'
  <2>1. OthersRest(h)
    BY <1>8, Threaded DEF RegisterConcurrent, Go, Leave, Idle, WithLoser, JobInv
  <2>2. job'[h].at \notin FreshOwned \cup PeerOwned
    BY <1>8, Threaded DEF RegisterConcurrent, Go, Leave, Idle, WithLoser, JobInv, Jobs, Returns
  <2> QED BY <2>1, <2>2, OwnedMove, Threaded
<1>9. ASSUME NEW h \in Handlers, Claim(h) PROVE OwnedInv'
  <2>1. OthersRest(h)
    BY <1>9, Threaded DEF Claim, Go, Leave, Idle, WithLoser, JobInv
  <2>2. job'[h].at \notin FreshOwned \cup PeerOwned
    BY <1>9, Threaded DEF Claim, Go, Leave, Idle, WithLoser, JobInv, Jobs, Returns
  <2> QED BY <2>1, <2>2, OwnedMove, Threaded
<1>10. ASSUME NEW h \in Handlers, Resend(h) PROVE OwnedInv'
  <2>1. OthersRest(h)
    BY <1>10, Threaded DEF Resend, Go, Leave, Idle, WithLoser, JobInv
  <2>2. job'[h].at \notin FreshOwned \cup PeerOwned
    BY <1>10, Threaded DEF Resend, Go, Leave, Idle, WithLoser, JobInv, Jobs, Returns
  <2> QED BY <2>1, <2>2, OwnedMove, Threaded
<1>11. ASSUME NEW h \in Handlers, Describe(h) PROVE OwnedInv'
  <2>1. OthersRest(h)
    BY <1>11, Threaded DEF Describe, Go, Leave, Idle, WithLoser, JobInv
  <2>2. job'[h].at \notin FreshOwned \cup PeerOwned
    BY <1>11, Threaded DEF Describe, Go, Leave, Idle, WithLoser, JobInv, Jobs, Returns
  <2> QED BY <2>1, <2>2, OwnedMove, Threaded
<1>12. ASSUME NEW h \in Handlers, SendCached(h) PROVE OwnedInv'
  <2>1. OthersRest(h)
    BY <1>12, Threaded DEF SendCached, Go, Leave, Idle, WithLoser, JobInv
  <2>2. job'[h].at \notin FreshOwned \cup PeerOwned
    BY <1>12, Threaded DEF SendCached, Go, Leave, Idle, WithLoser, JobInv, Jobs, Returns
  <2> QED BY <2>1, <2>2, OwnedMove, Threaded
<1>13. ASSUME NEW h \in Handlers, SetLocalDescription(h) PROVE OwnedInv'
  <2>1. OthersRest(h)
    BY <1>13, Threaded DEF SetLocalDescription, Go, Leave, Idle, WithLoser, JobInv
  <2>2. job'[h].at \notin FreshOwned \cup PeerOwned
    BY <1>13, Threaded DEF SetLocalDescription, Go, Leave, Idle, WithLoser, JobInv, Jobs, Returns
  <2> QED BY <2>1, <2>2, OwnedMove, Threaded
<1>14. ASSUME NEW h \in Handlers, Answer(h) PROVE OwnedInv'
  <2>1. OthersRest(h)
    BY <1>14 DEF Answer, JobInv
  <2>2. job'[h].at \notin FreshOwned \cup PeerOwned
    BY <1>14, Threaded DEF Answer, JobInv, Idle
  <2> QED BY <2>1, <2>2, OwnedMove, Threaded
<1>15. ASSUME NEW h \in Handlers, SetRemoteDescription(h) PROVE OwnedInv'
  <2>1. OthersRest(h)
    BY <1>15, Threaded DEF SetRemoteDescription, Go, Leave, Idle, WithLoser, JobInv
  <2>2. job'[h].at \notin FreshOwned \cup PeerOwned
    BY <1>15, Threaded DEF SetRemoteDescription, Go, Leave, Idle, WithLoser, JobInv, Jobs, Returns
  <2> QED BY <2>1, <2>2, OwnedMove, Threaded
<1>16. ASSUME NEW h \in Handlers, IceRestart(h) PROVE OwnedInv'
  <2>1. OthersRest(h)
    BY <1>16 DEF IceRestart, JobInv
  <2>2. job'[h].at \notin FreshOwned \cup PeerOwned
    BY <1>16, Threaded DEF IceRestart, JobInv, Idle
  <2> QED BY <2>1, <2>2, OwnedMove, Threaded
<1>17. ASSUME NEW h \in Handlers, RestartPeer(h) PROVE OwnedInv'
  <2> DEFINE g == peers[job[h].uuid]
  <2>1. h \in Threads /\ job[h].uuid \in Uuids
    BY <1>17, Threaded DEF RestartPeer, At, JobInv, Equipped, UuidPlaces
  <2>2. CASE MayRebuild(h, g)
    <3>1. info'[g].uuid = job[h].uuid /\ g < generation'
      <4>1. g \in Generations /\ g \in Int
        BY <2>1, <2>2 DEF MayRebuild, RestInv, Generations
      <4>2. info[g].uuid = job[h].uuid /\ g < generation /\ generation' = generation
        BY <1>17, <2>1, <2>2 DEF RestartPeer, MayRebuild, Entries, manager
      <4> QED BY <4>1, <4>2 DEF UuidsKept
    <3>2. /\ job'[h].at = "rebuild" /\ job'[h].peer = g /\ job'[h].uuid = job[h].uuid
          /\ OthersRest(h)
      BY <1>17, <2>1, <2>2 DEF RestartPeer, JobInv, Jobs
    <3> QED BY <2>1, <3>1, <3>2, OwnedMove
  <2>3. CASE ~MayRebuild(h, g)
    BY <1>17, <2>1, <2>3, OwnedMove DEF RestartPeer, Leave, Idle, JobInv
  <2> QED BY <2>2, <2>3
<1>18. ASSUME NEW h \in Handlers, Rebuild(h) PROVE OwnedInv'
  <2>1. h \in Threads
    BY Threaded
  <2>2. CASE Construct(h, "recheck")
    <3>1. info'[generation].uuid = job[h].uuid /\ generation' = generation + 1
      BY <2>2, ConstructUuid DEF Construct
    <3>2. job' = [job EXCEPT ![h].fresh = generation, ![h].at = "recheck"]
      BY <2>2 DEF Construct
    <3>3. /\ job'[h].fresh = generation /\ job'[h].uuid = job[h].uuid
          /\ job'[h].peer = job[h].peer /\ job'[h].at = "recheck"
          /\ OthersRest(h)
      BY <2>1, <3>2 DEF JobInv, Jobs
    <3>4. generation < generation'
      BY <3>1 DEF UuidsKept
    <3> QED BY <1>18, <2>1, <3>1, <3>3, <3>4, OwnedMove, PeerKept DEF Rebuild
  <2>3. CASE ConstructThrows(h)
    BY <2>1, <2>3, OwnedMove DEF ConstructThrows, Leave, Idle, JobInv
  <2> QED BY <1>18, <2>2, <2>3 DEF Rebuild
<1>19. ASSUME NEW h \in Handlers, Recheck(h) PROVE OwnedInv'
  BY <1>19, Threaded, OwnedGo DEF Recheck, At
<1>20. ASSUME NEW h \in Handlers, Swap(h) PROVE OwnedInv'
  BY <1>20, Threaded, OwnedGo DEF Swap, At
<1>21. ASSUME NEW h \in Handlers, Superseded(h) PROVE OwnedInv'
  <2>1. OthersRest(h)
    BY <1>21, Threaded DEF Superseded, Go, Leave, Idle, WithLoser, JobInv
  <2>2. job'[h].at \notin FreshOwned \cup PeerOwned
    BY <1>21, Threaded DEF Superseded, Go, Leave, Idle, WithLoser, JobInv, Jobs, Returns
  <2> QED BY <2>1, <2>2, OwnedMove, Threaded
<1>22. ASSUME NEW h \in Handlers, RestartOffer(h) PROVE OwnedInv'
  BY <1>22, Threaded, OwnedGo DEF RestartOffer, At
<1>23. ASSUME NEW h \in Handlers, SendFresh(h) PROVE OwnedInv'
  BY <1>23, Threaded, OwnedGo DEF SendFresh, At
<1>24. ASSUME NEW h \in Handlers, DescribeFresh(h) PROVE OwnedInv'
  BY <1>24, Threaded, OwnedGo DEF DescribeFresh, At
<1>25. ASSUME NEW h \in Handlers, Rollback(h) PROVE OwnedInv'
  BY <1>25, Threaded, OwnedGo DEF Rollback, At
<1>26. ASSUME NEW h \in Handlers, Restore(h) PROVE OwnedInv'
  <2>1. OthersRest(h)
    BY <1>26, Threaded DEF Restore, Go, Leave, Idle, WithLoser, JobInv
  <2>2. job'[h].at \notin FreshOwned \cup PeerOwned
    BY <1>26, Threaded DEF Restore, Go, Leave, Idle, WithLoser, JobInv, Jobs, Returns
  <2> QED BY <2>1, <2>2, OwnedMove, Threaded
<1>27. ASSUME NEW h \in Handlers, Disconnect(h) PROVE OwnedInv'
  <2>1. OthersRest(h)
    BY <1>27 DEF Disconnect, JobInv
  <2>2. job'[h].at \notin FreshOwned \cup PeerOwned
    BY <1>27, Threaded DEF Disconnect, JobInv, Idle
  <2> QED BY <2>1, <2>2, OwnedMove, Threaded
<1>28. ASSUME NEW h \in Handlers, Close(h) PROVE OwnedInv'
  <2>1. OthersRest(h)
    BY <1>28, Threaded DEF Close, Go, Leave, Idle, WithLoser, JobInv
  <2>2. job'[h].at \notin FreshOwned \cup PeerOwned
    BY <1>28, Threaded DEF Close, Go, Leave, Idle, WithLoser, JobInv, Jobs, Returns
  <2> QED BY <2>1, <2>2, OwnedMove, Threaded
<1>29. ASSUME NEW g \in Generations, StateChange(g) PROVE OwnedInv'
  <2>1. OthersRest(g)
    BY <1>29, Threaded DEF StateChange, Go, Leave, Idle, WithLoser, JobInv
  <2>2. job'[g].at \notin FreshOwned \cup PeerOwned
    BY <1>29, Threaded DEF StateChange, Go, Leave, Idle, WithLoser, JobInv, Jobs, Returns
  <2> QED BY <2>1, <2>2, OwnedMove, Threaded
<1>30. ASSUME NEW g \in Generations, Connected(g) PROVE OwnedInv'
  <2>1. OthersRest(g)
    BY <1>30, Threaded DEF Connected, Go, Leave, Idle, WithLoser, JobInv
  <2>2. job'[g].at \notin FreshOwned \cup PeerOwned
    BY <1>30, Threaded DEF Connected, Go, Leave, Idle, WithLoser, JobInv, Jobs, Returns
  <2> QED BY <2>1, <2>2, OwnedMove, Threaded
<1>31. ASSUME NEW g \in Generations, Disconnected(g) PROVE OwnedInv'
  <2>1. OthersRest(g)
    BY <1>31, Threaded DEF Disconnected, Go, Leave, Idle, WithLoser, JobInv
  <2>2. job'[g].at \notin FreshOwned \cup PeerOwned
    BY <1>31, Threaded DEF Disconnected, Go, Leave, Idle, WithLoser, JobInv, Jobs, Returns
  <2> QED BY <2>1, <2>2, OwnedMove, Threaded
<1>32. ASSUME NEW g \in Generations, DispatchDisconnected(g) PROVE OwnedInv'
  <2>1. OthersRest(g)
    BY <1>32, Threaded DEF DispatchDisconnected, Go, Leave, Idle, WithLoser, JobInv
  <2>2. job'[g].at \notin FreshOwned \cup PeerOwned
    BY <1>32, Threaded DEF DispatchDisconnected, Go, Leave, Idle, WithLoser, JobInv, Jobs, Returns
  <2> QED BY <2>1, <2>2, OwnedMove, Threaded
<1>33. ASSUME NEW g \in Generations, LocalDescription(g) PROVE OwnedInv'
  <2>1. OthersRest(g)
    BY <1>33, Threaded DEF LocalDescription, Go, Leave, Idle, WithLoser, JobInv
  <2>2. job'[g].at \notin FreshOwned \cup PeerOwned
    BY <1>33, Threaded DEF LocalDescription, Go, Leave, Idle, WithLoser, JobInv, Jobs, Returns
  <2> QED BY <2>1, <2>2, OwnedMove, Threaded
<1>34. ASSUME NEW g \in Generations, SendLocal(g) PROVE OwnedInv'
  <2>1. OthersRest(g)
    BY <1>34, Threaded DEF SendLocal, Go, Leave, Idle, WithLoser, JobInv
  <2>2. job'[g].at \notin FreshOwned \cup PeerOwned
    BY <1>34, Threaded DEF SendLocal, Go, Leave, Idle, WithLoser, JobInv, Jobs, Returns
  <2> QED BY <2>1, <2>2, OwnedMove, Threaded
<1>35. ASSUME NEW t \in Threads, BeginRetire(t) PROVE OwnedInv'
  <2>1. OthersRest(t)
    BY <1>35, Threaded DEF BeginRetire, Go, Leave, Idle, WithLoser, JobInv
  <2>2. job'[t].at \notin FreshOwned \cup PeerOwned
    BY <1>35, Threaded DEF BeginRetire, Go, Leave, Idle, WithLoser, JobInv, Jobs, Returns
  <2> QED BY <2>1, <2>2, OwnedMove, Threaded
<1>36. ASSUME NEW t \in Threads, FinishRetire(t) PROVE OwnedInv'
  <2>1. OthersRest(t)
    BY <1>36, Threaded DEF FinishRetire, Go, Leave, Idle, WithLoser, JobInv
  <2>2. job'[t].at \notin FreshOwned \cup PeerOwned
    BY <1>36, Threaded DEF FinishRetire, Go, Leave, Idle, WithLoser, JobInv, Jobs, Returns
  <2> QED BY <2>1, <2>2, OwnedMove, Threaded
<1>37. ASSUME StartPublishing PROVE OwnedInv'
  BY <1>37, OwnedKept DEF StartPublishing
<1>38. ASSUME StopPublishing PROVE OwnedInv'
  BY <1>38, OwnedKept DEF StopPublishing
<1>39. ASSUME Collect PROVE OwnedInv'
  BY <1>39, OwnedKept DEF Collect
<1>40. ASSUME MarkRetired PROVE OwnedInv'
  BY <1>40, OwnedKept DEF MarkRetired
<1>41. ASSUME ReleaseOne PROVE OwnedInv'
  BY <1>41, OwnedKept DEF ReleaseOne
<1>42. ASSUME FinishStop PROVE OwnedInv'
  BY <1>42, OwnedKept DEF FinishStop
<1>43. CASE UNCHANGED vars
  BY <1>43, OwnedKept DEF vars
<1> QED
  BY <1>1, <1>2, <1>3, <1>4, <1>5, <1>6, <1>7, <1>8, <1>9, <1>10, <1>11, <1>12,
     <1>13, <1>14, <1>15, <1>16, <1>17, <1>18, <1>19, <1>20, <1>21, <1>22, <1>23,
     <1>24, <1>25, <1>26, <1>27, <1>28, <1>29, <1>30, <1>31, <1>32, <1>33, <1>34,
     <1>35, <1>36, <1>37, <1>38, <1>39, <1>40, <1>41, <1>42, <1>43
  DEF Next, Request, Restart, Leaving, Callback, Retire, Control
------------------------------------------------------------------------------
\* Entries may be cleared at any time.
LEMMA EntriesKept ==
  ASSUME TypeInv, Entries, UuidsKept, \A u \in Uuids : peers'[u] \in {peers[u], None}
  PROVE  Entries'
<1> SUFFICES ASSUME NEW u \in Uuids, peers'[u] # None
             PROVE  info'[peers'[u]].uuid = u /\ peers'[u] < generation'
  BY DEF Entries
<1>1. peers'[u] = peers[u] /\ peers[u] \in Generations /\ peers[u] \in Int
  BY DEF TypeInv, RestInv, Generations
<1> QED BY <1>1 DEF Entries, UuidsKept

\* An entry may be set to a peer of its viewer.
LEMMA EntriesPut ==
  ASSUME TypeInv, Entries, UuidsKept, NEW v \in Uuids, NEW g \in Generations,
         peers' = [peers EXCEPT ![v] = g], info'[g].uuid = v, g < generation'
  PROVE  Entries'
<1> SUFFICES ASSUME NEW u \in Uuids, peers'[u] # None
             PROVE  info'[peers'[u]].uuid = u /\ peers'[u] < generation'
  BY DEF Entries
<1>1. CASE u = v
  BY <1>1 DEF TypeInv, RestInv
<1>2. CASE u # v
  <2>1. peers'[u] = peers[u] /\ peers[u] \in Generations /\ peers[u] \in Int
    BY <1>2 DEF TypeInv, RestInv, Generations
  <2> QED BY <2>1 DEF Entries, UuidsKept
<1> QED BY <1>1, <1>2

\* No step registers a peer under another viewer.
LEMMA EntriesStep ==
  ASSUME TypeInv, Entries, OwnedInv, [Next]_vars
  PROVE  Entries'
<1>0. UuidsKept
  BY UuidStep
<1> USE <1>0 DEF TypeInv, manager
<1>1. ASSUME NEW h \in Handlers, OfferRequest(h) PROVE Entries'
  BY <1>1, EntriesKept DEF OfferRequest
<1>2. ASSUME NEW h \in Handlers, LookupNobody(h) PROVE Entries'
  BY <1>2, EntriesKept DEF LookupNobody
<1>3. ASSUME NEW h \in Handlers, LookupStale(h) PROVE Entries'
  BY <1>3, EntriesKept DEF LookupStale, RestInv
<1>4. ASSUME NEW h \in Handlers, LookupPeer(h) PROVE Entries'
  BY <1>4, EntriesKept DEF LookupPeer
<1>5. ASSUME NEW h \in Handlers, Admit(h) PROVE Entries'
  BY <1>5, EntriesKept DEF Admit
<1>6. ASSUME NEW h \in Handlers, Create(h) PROVE Entries'
  BY <1>6, EntriesKept DEF Create, Construct, ConstructThrows
<1>7. ASSUME NEW h \in Handlers, Register(h) PROVE Entries'
  <2>1. h \in Threads /\ job[h].uuid \in Uuids
          /\ job[h].fresh \in Generations
    BY <1>7, Threaded DEF Register, At, JobInv, Equipped, UuidPlaces, FreshPlaces
  <2>2. info'[job[h].fresh].uuid = job[h].uuid /\ job[h].fresh < generation'
    BY <1>7, <2>1, OwnedStays DEF Register, At, Owns, FreshOwned
  <2> QED BY <1>7, <2>1, <2>2, EntriesPut DEF Register
<1>8. ASSUME NEW h \in Handlers, RegisterConcurrent(h) PROVE Entries'
  BY <1>8, EntriesKept DEF RegisterConcurrent
<1>9. ASSUME NEW h \in Handlers, Claim(h) PROVE Entries'
  BY <1>9, EntriesKept DEF Claim
<1>10. ASSUME NEW h \in Handlers, Resend(h) PROVE Entries'
  BY <1>10, EntriesKept DEF Resend
<1>11. ASSUME NEW h \in Handlers, Describe(h) PROVE Entries'
  BY <1>11, EntriesKept DEF Describe
<1>12. ASSUME NEW h \in Handlers, SendCached(h) PROVE Entries'
  BY <1>12, EntriesKept DEF SendCached
<1>13. ASSUME NEW h \in Handlers, SetLocalDescription(h) PROVE Entries'
  BY <1>13, EntriesKept DEF SetLocalDescription
<1>14. ASSUME NEW h \in Handlers, Answer(h) PROVE Entries'
  BY <1>14, EntriesKept DEF Answer
<1>15. ASSUME NEW h \in Handlers, SetRemoteDescription(h) PROVE Entries'
  BY <1>15, EntriesKept DEF SetRemoteDescription
<1>16. ASSUME NEW h \in Handlers, IceRestart(h) PROVE Entries'
  BY <1>16, EntriesKept DEF IceRestart
<1>17. ASSUME NEW h \in Handlers, RestartPeer(h) PROVE Entries'
  BY <1>17, EntriesKept DEF RestartPeer
<1>18. ASSUME NEW h \in Handlers, Rebuild(h) PROVE Entries'
  BY <1>18, EntriesKept DEF Rebuild, Construct, ConstructThrows
<1>19. ASSUME NEW h \in Handlers, Recheck(h) PROVE Entries'
  BY <1>19, EntriesKept DEF Recheck
<1>20. ASSUME NEW h \in Handlers, Swap(h) PROVE Entries'
  <2>1. h \in Threads /\ job[h].uuid \in Uuids
          /\ job[h].fresh \in Generations
    BY <1>20, Threaded DEF Swap, At, JobInv, Equipped, UuidPlaces, FreshPlaces
  <2>2. info'[job[h].fresh].uuid = job[h].uuid /\ job[h].fresh < generation'
    BY <1>20, <2>1, OwnedStays DEF Swap, At, Owns, FreshOwned
  <2> QED BY <1>20, <2>1, <2>2, EntriesPut DEF Swap
<1>21. ASSUME NEW h \in Handlers, Superseded(h) PROVE Entries'
  BY <1>21, EntriesKept DEF Superseded
<1>22. ASSUME NEW h \in Handlers, RestartOffer(h) PROVE Entries'
  BY <1>22, EntriesKept DEF RestartOffer
<1>23. ASSUME NEW h \in Handlers, SendFresh(h) PROVE Entries'
  BY <1>23, EntriesKept DEF SendFresh
<1>24. ASSUME NEW h \in Handlers, DescribeFresh(h) PROVE Entries'
  BY <1>24, EntriesKept DEF DescribeFresh
<1>25. ASSUME NEW h \in Handlers, Rollback(h) PROVE Entries'
  BY <1>25, EntriesKept DEF Rollback
<1>26. ASSUME NEW h \in Handlers, Restore(h) PROVE Entries'
  <2>1. h \in Threads /\ job[h].uuid \in Uuids /\ job[h].peer \in Generations
    BY <1>26, Threaded DEF Restore, At, JobInv, Equipped, UuidPlaces, PeerPlaces
  <2>2. info'[job[h].peer].uuid = job[h].uuid /\ job[h].peer < generation'
    BY <1>26, <2>1, OwnedStays DEF Restore, At, Owns, PeerOwned
  <2> QED BY <1>26, <2>1, <2>2, EntriesPut, EntriesKept DEF Restore
<1>27. ASSUME NEW h \in Handlers, Disconnect(h) PROVE Entries'
  BY <1>27, EntriesKept DEF Disconnect, RestInv
<1>28. ASSUME NEW h \in Handlers, Close(h) PROVE Entries'
  BY <1>28, EntriesKept DEF Close
<1>29. ASSUME NEW g \in Generations, StateChange(g) PROVE Entries'
  BY <1>29, EntriesKept DEF StateChange
<1>30. ASSUME NEW g \in Generations, Connected(g) PROVE Entries'
  BY <1>30, EntriesKept DEF Connected
<1>31. ASSUME NEW g \in Generations, Disconnected(g) PROVE Entries'
  BY <1>31, EntriesKept DEF Disconnected
<1>32. ASSUME NEW g \in Generations, DispatchDisconnected(g) PROVE Entries'
  BY <1>32, EntriesKept DEF DispatchDisconnected
<1>33. ASSUME NEW g \in Generations, LocalDescription(g) PROVE Entries'
  BY <1>33, EntriesKept DEF LocalDescription
<1>34. ASSUME NEW g \in Generations, SendLocal(g) PROVE Entries'
  BY <1>34, EntriesKept DEF SendLocal
<1>35. ASSUME NEW t \in Threads, BeginRetire(t) PROVE Entries'
  BY <1>35, EntriesKept DEF BeginRetire
<1>36. ASSUME NEW t \in Threads, FinishRetire(t) PROVE Entries'
  BY <1>36, EntriesKept DEF FinishRetire, Without, RestInv
<1>37. ASSUME StartPublishing PROVE Entries'
  BY <1>37, EntriesKept DEF StartPublishing
<1>38. ASSUME StopPublishing PROVE Entries'
  BY <1>38, EntriesKept DEF StopPublishing
<1>39. ASSUME Collect PROVE Entries'
  BY <1>39, EntriesKept DEF Collect, RestInv
<1>40. ASSUME MarkRetired PROVE Entries'
  BY <1>40, EntriesKept DEF MarkRetired
<1>41. ASSUME ReleaseOne PROVE Entries'
  BY <1>41, EntriesKept DEF ReleaseOne
<1>42. ASSUME FinishStop PROVE Entries'
  BY <1>42, EntriesKept DEF FinishStop
<1>43. CASE UNCHANGED vars
  BY <1>43, EntriesKept DEF vars
<1> QED
  BY <1>1, <1>2, <1>3, <1>4, <1>5, <1>6, <1>7, <1>8, <1>9, <1>10, <1>11, <1>12,
     <1>13, <1>14, <1>15, <1>16, <1>17, <1>18, <1>19, <1>20, <1>21, <1>22, <1>23,
     <1>24, <1>25, <1>26, <1>27, <1>28, <1>29, <1>30, <1>31, <1>32, <1>33, <1>34,
     <1>35, <1>36, <1>37, <1>38, <1>39, <1>40, <1>41, <1>42, <1>43
  DEF Next, Request, Restart, Leaving, Callback, Retire, Control
------------------------------------------------------------------------------
\* Where neither the registry nor the flag changes, they still agree.
LEMMA ActiveKept ==
  ASSUME ActiveIsRegistered, active' = active, peers' = peers
  PROVE  ActiveIsRegistered'
BY DEF ActiveIsRegistered, Registered

\* An empty entry is no generation.
LEMMA NoneApart == \A g \in Generations : g # None
BY RegistryAssumption DEF Generations

\* Clearing an entry and the flag of its peer keeps them in agreement.
LEMMA RemovedOne ==
  ASSUME TypeInv, Entries, ActiveIsRegistered, NEW u \in Uuids, peers[u] # None,
         peers' = [peers EXCEPT ![u] = None],
         active' = [active EXCEPT ![peers[u]] = FALSE]
  PROVE  ActiveIsRegistered'
<1>1. \A v \in Uuids : peers[v] = peers[u] => v = u
  BY DEF Entries
<1>2. \A g \in Generations : g # None
  BY RegistryAssumption DEF Generations
<1> QED BY <1>1, <1>2 DEF TypeInv, RestInv, ActiveIsRegistered, Registered

\* So does filling an empty entry.
LEMMA AddedOne ==
  ASSUME TypeInv, ActiveIsRegistered, NEW u \in Uuids, NEW g \in Generations,
         peers[u] = None,
         peers' = [peers EXCEPT ![u] = g], active' = [active EXCEPT ![g] = TRUE]
  PROVE  ActiveIsRegistered'
<1>1. \A h \in Generations : h # None
  BY RegistryAssumption DEF Generations
<1> QED BY <1>1 DEF TypeInv, RestInv, ActiveIsRegistered, Registered

\* So does handing an entry from one peer to another.
LEMMA ReplacedOne ==
  ASSUME TypeInv, Entries, ActiveIsRegistered, NEW u \in Uuids,
         NEW g \in Generations, NEW h \in Generations, peers[u] = g,
         peers' = [peers EXCEPT ![u] = h],
         active' = [active EXCEPT ![g] = FALSE, ![h] = TRUE]
  PROVE  ActiveIsRegistered'
<1>1. \A k \in Generations : k # None
  BY RegistryAssumption DEF Generations
<1>2. \A v \in Uuids : peers[v] = g => v = u
  BY <1>1 DEF Entries
<1> QED BY <1>1, <1>2 DEF TypeInv, RestInv, ActiveIsRegistered, Registered

\* No step makes the flag and the registry disagree.
LEMMA ActiveStep ==
  ASSUME TypeInv, Entries, ActiveIsRegistered, [Next]_vars
  PROVE  ActiveIsRegistered'
<1> USE DEF TypeInv, manager
<1>1. ASSUME NEW h \in Handlers, OfferRequest(h) PROVE ActiveIsRegistered'
  BY <1>1, ActiveKept DEF OfferRequest
<1>2. ASSUME NEW h \in Handlers, LookupNobody(h) PROVE ActiveIsRegistered'
  BY <1>2, ActiveKept DEF LookupNobody
<1>3. ASSUME NEW h \in Handlers, LookupStale(h) PROVE ActiveIsRegistered'
  <2>1. job[h].uuid \in Uuids
    BY <1>3, Threaded DEF LookupStale, At, JobInv, Equipped, UuidPlaces
  <2> QED BY <1>3, <2>1, RemovedOne DEF LookupStale
<1>4. ASSUME NEW h \in Handlers, LookupPeer(h) PROVE ActiveIsRegistered'
  BY <1>4, ActiveKept DEF LookupPeer
<1>5. ASSUME NEW h \in Handlers, Admit(h) PROVE ActiveIsRegistered'
  BY <1>5, ActiveKept DEF Admit
<1>6. ASSUME NEW h \in Handlers, Create(h) PROVE ActiveIsRegistered'
  BY <1>6, ActiveKept DEF Create, Construct, ConstructThrows
<1>7. ASSUME NEW h \in Handlers, Register(h) PROVE ActiveIsRegistered'
  <2>1. h \in Threads /\ job[h].uuid \in Uuids
          /\ job[h].fresh \in Generations
    BY <1>7, Threaded DEF Register, At, JobInv, Equipped, UuidPlaces, FreshPlaces
  <2> QED BY <1>7, <2>1, AddedOne DEF Register
<1>8. ASSUME NEW h \in Handlers, RegisterConcurrent(h) PROVE ActiveIsRegistered'
  BY <1>8, ActiveKept DEF RegisterConcurrent
<1>9. ASSUME NEW h \in Handlers, Claim(h) PROVE ActiveIsRegistered'
  BY <1>9, ActiveKept DEF Claim
<1>10. ASSUME NEW h \in Handlers, Resend(h) PROVE ActiveIsRegistered'
  BY <1>10, ActiveKept DEF Resend
<1>11. ASSUME NEW h \in Handlers, Describe(h) PROVE ActiveIsRegistered'
  BY <1>11, ActiveKept DEF Describe
<1>12. ASSUME NEW h \in Handlers, SendCached(h) PROVE ActiveIsRegistered'
  BY <1>12, ActiveKept DEF SendCached
<1>13. ASSUME NEW h \in Handlers, SetLocalDescription(h) PROVE ActiveIsRegistered'
  BY <1>13, ActiveKept DEF SetLocalDescription
<1>14. ASSUME NEW h \in Handlers, Answer(h) PROVE ActiveIsRegistered'
  BY <1>14, ActiveKept DEF Answer
<1>15. ASSUME NEW h \in Handlers, SetRemoteDescription(h) PROVE ActiveIsRegistered'
  BY <1>15, ActiveKept DEF SetRemoteDescription
<1>16. ASSUME NEW h \in Handlers, IceRestart(h) PROVE ActiveIsRegistered'
  BY <1>16, ActiveKept DEF IceRestart
<1>17. ASSUME NEW h \in Handlers, RestartPeer(h) PROVE ActiveIsRegistered'
  BY <1>17, ActiveKept DEF RestartPeer
<1>18. ASSUME NEW h \in Handlers, Rebuild(h) PROVE ActiveIsRegistered'
  BY <1>18, ActiveKept DEF Rebuild, Construct, ConstructThrows
<1>19. ASSUME NEW h \in Handlers, Recheck(h) PROVE ActiveIsRegistered'
  BY <1>19, ActiveKept DEF Recheck
<1>20. ASSUME NEW h \in Handlers, Swap(h) PROVE ActiveIsRegistered'
  <2>1. h \in Threads /\ job[h].uuid \in Uuids
          /\ job[h].fresh \in Generations
    BY <1>20, Threaded DEF Swap, At, JobInv, Equipped, UuidPlaces, FreshPlaces
  <2>2. job[h].peer \in Generations
    BY <1>20, <2>1 DEF Swap, At, JobInv, Equipped, PeerPlaces
  <2> QED BY <1>20, <2>1, <2>2, ReplacedOne DEF Swap
<1>21. ASSUME NEW h \in Handlers, Superseded(h) PROVE ActiveIsRegistered'
  BY <1>21, ActiveKept DEF Superseded
<1>22. ASSUME NEW h \in Handlers, RestartOffer(h) PROVE ActiveIsRegistered'
  BY <1>22, ActiveKept DEF RestartOffer
<1>23. ASSUME NEW h \in Handlers, SendFresh(h) PROVE ActiveIsRegistered'
  BY <1>23, ActiveKept DEF SendFresh
<1>24. ASSUME NEW h \in Handlers, DescribeFresh(h) PROVE ActiveIsRegistered'
  BY <1>24, ActiveKept DEF DescribeFresh
<1>25. ASSUME NEW h \in Handlers, Rollback(h) PROVE ActiveIsRegistered'
  BY <1>25, ActiveKept DEF Rollback
<1>26. ASSUME NEW h \in Handlers, Restore(h) PROVE ActiveIsRegistered'
  <2>1. h \in Threads /\ job[h].uuid \in Uuids
          /\ job[h].fresh \in Generations
    BY <1>26, Threaded DEF Restore, At, JobInv, Equipped, UuidPlaces, FreshPlaces
  <2>2. job[h].peer \in Generations
    BY <1>26, <2>1 DEF Restore, At, JobInv, Equipped, PeerPlaces
  <2> QED BY <1>26, <2>1, <2>2, ReplacedOne, ActiveKept DEF Restore, MayRestore
<1>27. ASSUME NEW h \in Handlers, Disconnect(h) PROVE ActiveIsRegistered'
  BY <1>27, RemovedOne DEF Disconnect
<1>28. ASSUME NEW h \in Handlers, Close(h) PROVE ActiveIsRegistered'
  BY <1>28, ActiveKept DEF Close
<1>29. ASSUME NEW g \in Generations, StateChange(g) PROVE ActiveIsRegistered'
  BY <1>29, ActiveKept DEF StateChange
<1>30. ASSUME NEW g \in Generations, Connected(g) PROVE ActiveIsRegistered'
  BY <1>30, ActiveKept DEF Connected
<1>31. ASSUME NEW g \in Generations, Disconnected(g) PROVE ActiveIsRegistered'
  BY <1>31, ActiveKept DEF Disconnected
<1>32. ASSUME NEW g \in Generations, DispatchDisconnected(g) PROVE ActiveIsRegistered'
  BY <1>32, ActiveKept DEF DispatchDisconnected
<1>33. ASSUME NEW g \in Generations, LocalDescription(g) PROVE ActiveIsRegistered'
  BY <1>33, ActiveKept DEF LocalDescription
<1>34. ASSUME NEW g \in Generations, SendLocal(g) PROVE ActiveIsRegistered'
  BY <1>34, ActiveKept DEF SendLocal
<1>35. ASSUME NEW t \in Threads, BeginRetire(t) PROVE ActiveIsRegistered'
  BY <1>35, ActiveKept DEF BeginRetire
<1>36. ASSUME NEW t \in Threads, FinishRetire(t) PROVE ActiveIsRegistered'
  <2> DEFINE g == Target(t)
  <2>1. \A k \in Generations : Registered(k)' <=> Registered(k) /\ k # g
    BY <1>36, NoneApart DEF FinishRetire, Without, Registered, RestInv
  <2>2. \A k \in Generations : active'[k] <=> active[k] /\ k # g
    BY <1>36 DEF FinishRetire, RestInv
  <2> QED BY <2>1, <2>2 DEF ActiveIsRegistered
<1>37. ASSUME StartPublishing PROVE ActiveIsRegistered'
  BY <1>37, ActiveKept DEF StartPublishing
<1>38. ASSUME StopPublishing PROVE ActiveIsRegistered'
  BY <1>38, ActiveKept DEF StopPublishing
<1>39. ASSUME Collect PROVE ActiveIsRegistered'
  <2>1. \A k \in Generations : ~Registered(k)'
    BY <1>39, NoneApart DEF Collect, Registered
  <2>2. \A k \in Generations : ~active'[k]
    BY <1>39 DEF Collect, Collected, ActiveIsRegistered
  <2> QED BY <2>1, <2>2 DEF ActiveIsRegistered
<1>40. ASSUME MarkRetired PROVE ActiveIsRegistered'
  BY <1>40, ActiveKept DEF MarkRetired
<1>41. ASSUME ReleaseOne PROVE ActiveIsRegistered'
  BY <1>41, ActiveKept DEF ReleaseOne
<1>42. ASSUME FinishStop PROVE ActiveIsRegistered'
  BY <1>42, ActiveKept DEF FinishStop
<1>43. CASE UNCHANGED vars
  BY <1>43, ActiveKept DEF vars
<1> QED
  BY <1>1, <1>2, <1>3, <1>4, <1>5, <1>6, <1>7, <1>8, <1>9, <1>10, <1>11, <1>12,
     <1>13, <1>14, <1>15, <1>16, <1>17, <1>18, <1>19, <1>20, <1>21, <1>22, <1>23,
     <1>24, <1>25, <1>26, <1>27, <1>28, <1>29, <1>30, <1>31, <1>32, <1>33, <1>34,
     <1>35, <1>36, <1>37, <1>38, <1>39, <1>40, <1>41, <1>42, <1>43
  DEF Next, Request, Restart, Leaving, Callback, Retire, Control
------------------------------------------------------------------------------
\* The flag that lets a peer send and its registration never disagree, for any
\* number of handlers, viewers, sessions and connections.
THEOREM ActiveCorrect == Spec => []ActiveIsRegistered
<1>1. Init => RegistryInv
  <2> SUFFICES ASSUME Init PROVE RegistryInv
    OBVIOUS
  <2>1. Entries /\ ActiveIsRegistered
    BY RegistryAssumption DEF Init, Entries, ActiveIsRegistered, Registered, Generations
  <2>2. OwnedInv
    BY DEF Init, OwnedInv, Owned, Idle, FreshOwned, PeerOwned
  <2> QED BY <2>1, <2>2, TypeInit DEF RegistryInv
<1>2. RegistryInv /\ [Next]_vars => RegistryInv'
  BY JobStep, InfoStep, StopStep, RestStep, OwnedStep, EntriesStep, ActiveStep
  DEF RegistryInv, TypeInv
<1>3. RegistryInv => ActiveIsRegistered
  BY DEF RegistryInv
<1> QED BY <1>1, <1>2, <1>3, PTL DEF Spec
------------------------------------------------------------------------------
\* The connections anybody knows of are the ones that were created.
Created ==
  /\ \A t \in Threads :
       /\ job[t].peer \in Generations => job[t].peer < generation
       /\ job[t].fresh \in Generations => job[t].fresh < generation
  /\ \A u \in Uuids : peers[u] \in Generations => peers[u] < generation
  /\ \A g \in retiredPeers \cup stop.todo : g < generation
  /\ stop.peer \in Generations => stop.peer < generation
  /\ \A g \in Generations : g < generation <=> info[g].conn # "none"

\* A step of one thread that creates nothing and learns of nobody new.
LEMMA CreatedKept ==
  ASSUME Created, NEW t \in Threads,
         generation' = generation, retiredPeers' = retiredPeers, stop' = stop,
         \A k \in Threads \ {t} : job'[k] = job[k],
         job'[t].fresh \in {None, job[t].fresh},
         job'[t].peer \in Generations => job'[t].peer < generation,
         \A u \in Uuids : peers'[u] \in Generations => peers'[u] < generation,
         \A g \in Generations :
           info[g].conn # "none" <=> info'[g].conn # "none"
  PROVE  Created'
BY NoneApart DEF Created

\* A new connection is the first that was not created yet.
LEMMA CreatedConstruct ==
  ASSUME TypeInv, Created, NEW t \in Threads,
         NEW place \in {"register", "recheck"}, Construct(t, place)
  PROVE  Created'
<1> USE DEF TypeInv
<1>1. PICK aged \in SUBSET retiredPeers, s \in Sessions :
        /\ retiredPeers' = retiredPeers \ aged
        /\ info' = [Released(aged) EXCEPT ![generation] = NewPeer(job[t].uuid, s)]
  BY DEF Construct
<1>2. generation \in Generations /\ generation' = generation + 1
  BY DEF Construct, RestInv, Generations
<1>3. /\ \A k \in Threads \ {t} : job'[k] = job[k]
      /\ job'[t].fresh = generation /\ job'[t].peer = job[t].peer
      /\ stop' = stop /\ peers' = peers
  BY <1>2 DEF Construct, JobInv, Jobs
<1>4. \A g \in Generations \ {generation} :
        info'[g].conn # "none" <=> info[g].conn # "none"
  <2> TAKE g \in Generations \ {generation}
  <2>1. info'[g] = Released(aged)[g]
    BY <1>1 DEF Released
  <2>2. CASE g \in aged
    BY <2>1, <2>2, ReleasedDoes DEF Created
  <2>3. CASE g \notin aged
    BY <2>1, <2>3, ReleasedDoes
  <2> QED BY <2>2, <2>3
<1>5. info'[generation].conn = "open"
  BY <1>1, <1>2 DEF Released, InfoInv, PeerInfo, NewPeer, Uncreated
<1> QED
  BY <1>1, <1>2, <1>3, <1>4, <1>5 DEF Created, Generations, RestInv, StopInv

\* So is one that is thrown away while it is set up.
LEMMA CreatedThrows ==
  ASSUME TypeInv, Created, NEW t \in Threads, ConstructThrows(t)
  PROVE  Created'
<1> USE DEF TypeInv
<1>1. PICK aged \in SUBSET retiredPeers :
        /\ retiredPeers' = retiredPeers \ aged
        /\ info' = [Released(aged) EXCEPT ![generation].retired = TRUE,
                                          ![generation].conn = "released"]
  BY DEF ConstructThrows
<1>2. generation \in Generations /\ generation' = generation + 1
  BY DEF ConstructThrows, RestInv, Generations
<1>3. /\ \A k \in Threads \ {t} : job'[k] = job[k]
      /\ job'[t] = Idle /\ stop' = stop /\ peers' = peers
  BY <1>2 DEF ConstructThrows, JobInv, Jobs, Leave
<1> DEFINE F == [Released(aged) EXCEPT ![generation].retired = TRUE]
<1>4. info' = [F EXCEPT ![generation].conn = "released"]
  BY <1>1
<1>5. \A g \in Generations \ {generation} : info'[g] = Released(aged)[g]
  BY <1>2, <1>4 DEF Released
<1>6. \A g \in Generations \ {generation} :
        info'[g].conn # "none" <=> info[g].conn # "none"
  BY <1>5 DEF Released, InfoInv, PeerInfo, Created, RestInv
<1>7. info'[generation].conn = "released"
  <2>1. Released(aged) \in [Generations -> PeerInfo]
    BY ReleasedType
  <2>2. F \in [Generations -> PeerInfo]
    BY <2>1 DEF PeerInfo
  <2> HIDE DEF F
  <2> QED BY <1>2, <1>4, <2>2 DEF PeerInfo
<1>8. \A k \in Threads :
        job'[k].peer \in {None, job[k].peer} /\ job'[k].fresh \in {None, job[k].fresh}
  BY <1>3 DEF Idle
<1>9. generation < generation' /\ \A g \in Generations : g < generation => g < generation'
  BY <1>2 DEF RestInv, Generations
<1>10. \A g \in Generations :
         g < generation' <=> g < generation \/ g = generation
  BY <1>2 DEF RestInv, Generations
<1> QED
  <2>1. \A k \in Threads : /\ job'[k].peer \in Generations => job'[k].peer < generation'
                           /\ job'[k].fresh \in Generations => job'[k].fresh < generation'
    BY <1>8, <1>9, NoneApart DEF Created
  <2>2. \A u \in Uuids : peers'[u] \in Generations => peers'[u] < generation'
    BY <1>3, <1>9 DEF Created
  <2>3. \A g \in retiredPeers' \cup stop'.todo : g < generation'
    BY <1>1, <1>3, <1>9 DEF Created, RestInv, StopInv
  <2>4. stop'.peer \in Generations => stop'.peer < generation'
    BY <1>3, <1>9 DEF Created
  <2>5. \A g \in Generations : g < generation' <=> info'[g].conn # "none"
    BY <1>6, <1>7, <1>10, <1>2 DEF Created
  <2> QED BY <2>1, <2>2, <2>3, <2>4, <2>5 DEF Created

\* What most steps of a thread t leave as it is: the thread's work names peers that
\* were made; no peer is made, given up or taken by the stop; the registry holds
\* peers that were made; no connection changes.
OnlyKnown(t) ==
  /\ \A k \in Threads \ {t} : job'[k] = job[k]
  /\ job'[t].fresh \in {None, job[t].fresh}
  /\ job'[t].peer \in Generations => job'[t].peer < generation
NoneMade == generation' = generation /\ retiredPeers' = retiredPeers /\ stop' = stop
EntriesKnown == \A u \in Uuids : peers'[u] \in Generations => peers'[u] < generation
ConnsRest == \A k \in Generations : info'[k].conn = info[k].conn

\* No step learns of a connection before it is created.
LEMMA CreatedStep ==
  ASSUME TypeInv, Entries, Created, [Next]_vars
  PROVE  Created'
<1> USE DEF TypeInv, OnlyKnown, NoneMade, EntriesKnown, ConnsRest
<1>1. ASSUME NEW h \in Handlers, OfferRequest(h) PROVE Created'
  <2>1. ConnsRest
    BY <1>1
    DEF OfferRequest, InfoInv, PeerInfo, Offered, Unclaimed, Described,
        Delivered, manager
  <2>2. OnlyKnown(h)
    BY <1>1, Threaded, NoneApart
    DEF OfferRequest, At, Equipped, UuidPlaces, RestInv, Go, Leave, Idle,
        JobInv, Jobs, Created, manager
  <2>3. EntriesKnown
    BY <1>1, Threaded, NoneApart
    DEF OfferRequest, At, JobInv, RestInv, Created, Equipped, PeerPlaces,
        FreshPlaces, UuidPlaces, manager
  <2>4. NoneMade
    BY <1>1 DEF OfferRequest, manager
  <2> QED BY <2>1, <2>2, <2>3, <2>4, CreatedKept, Threaded
<1>2. ASSUME NEW h \in Handlers, LookupNobody(h) PROVE Created'
  <2>1. ConnsRest
    BY <1>2
    DEF LookupNobody, InfoInv, PeerInfo, Offered, Unclaimed, Described,
        Delivered, manager
  <2>2. OnlyKnown(h)
    BY <1>2, Threaded, NoneApart
    DEF LookupNobody, At, Equipped, UuidPlaces, RestInv, Go, Leave, Idle,
        JobInv, Jobs, Created, manager
  <2>3. EntriesKnown
    BY <1>2, Threaded, NoneApart
    DEF LookupNobody, At, JobInv, RestInv, Created, Equipped, PeerPlaces,
        FreshPlaces, UuidPlaces, manager
  <2>4. NoneMade
    BY <1>2 DEF LookupNobody, manager
  <2> QED BY <2>1, <2>2, <2>3, <2>4, CreatedKept, Threaded
<1>3. ASSUME NEW h \in Handlers, LookupStale(h) PROVE Created'
  <2>1. ConnsRest
    BY <1>3
    DEF LookupStale, InfoInv, PeerInfo, Offered, Unclaimed, Described,
        Delivered, manager
  <2>2. OnlyKnown(h)
    BY <1>3, Threaded, NoneApart
    DEF LookupStale, At, Equipped, UuidPlaces, RestInv, Go, Leave, Idle,
        JobInv, Jobs, Created, manager
  <2>3. EntriesKnown
    BY <1>3, Threaded, NoneApart
    DEF LookupStale, At, JobInv, RestInv, Created, Equipped, PeerPlaces,
        FreshPlaces, UuidPlaces, manager
  <2>4. NoneMade
    BY <1>3 DEF LookupStale, manager
  <2> QED BY <2>1, <2>2, <2>3, <2>4, CreatedKept, Threaded
<1>4. ASSUME NEW h \in Handlers, LookupPeer(h) PROVE Created'
  <2>1. ConnsRest
    BY <1>4
    DEF LookupPeer, InfoInv, PeerInfo, Offered, Unclaimed, Described,
        Delivered, manager
  <2>2. OnlyKnown(h)
    BY <1>4, Threaded, NoneApart
    DEF LookupPeer, At, Equipped, UuidPlaces, RestInv, Go, Leave, Idle,
        JobInv, Jobs, Created, manager
  <2>3. EntriesKnown
    BY <1>4, Threaded, NoneApart
    DEF LookupPeer, At, JobInv, RestInv, Created, Equipped, PeerPlaces,
        FreshPlaces, UuidPlaces, manager
  <2>4. NoneMade
    BY <1>4 DEF LookupPeer, manager
  <2> QED BY <2>1, <2>2, <2>3, <2>4, CreatedKept, Threaded
<1>5. ASSUME NEW h \in Handlers, Admit(h) PROVE Created'
  <2>1. ConnsRest
    BY <1>5
    DEF Admit, InfoInv, PeerInfo, Offered, Unclaimed, Described, Delivered,
        manager
  <2>2. OnlyKnown(h)
    BY <1>5, Threaded, NoneApart
    DEF Admit, At, Equipped, UuidPlaces, RestInv, Go, Leave, Idle, JobInv,
        Jobs, Created, manager
  <2>3. EntriesKnown
    BY <1>5, Threaded, NoneApart
    DEF Admit, At, JobInv, RestInv, Created, Equipped, PeerPlaces,
        FreshPlaces, UuidPlaces, manager
  <2>4. NoneMade
    BY <1>5 DEF Admit, manager
  <2> QED BY <2>1, <2>2, <2>3, <2>4, CreatedKept, Threaded
<1>6. ASSUME NEW h \in Handlers, Create(h) PROVE Created'
  <2>1. CASE Construct(h, "register")
    BY <1>6, <2>1, CreatedConstruct, Threaded DEF Create
  <2>2. CASE ConstructThrows(h)
    BY <1>6, <2>2, CreatedThrows, Threaded DEF Create
  <2> QED BY <1>6, <2>1, <2>2 DEF Create
<1>7. ASSUME NEW h \in Handlers, Register(h) PROVE Created'
  <2>1. ConnsRest
    BY <1>7
    DEF Register, InfoInv, PeerInfo, Offered, Unclaimed, Described, Delivered,
        manager
  <2>2. OnlyKnown(h)
    BY <1>7, Threaded, NoneApart
    DEF Register, At, Equipped, UuidPlaces, RestInv, Go, Leave, Idle, JobInv,
        Jobs, Created, manager
  <2>3. EntriesKnown
    BY <1>7, Threaded, NoneApart
    DEF Register, At, JobInv, RestInv, Created, Equipped, PeerPlaces,
        FreshPlaces, UuidPlaces, manager
  <2>4. NoneMade
    BY <1>7 DEF Register, manager
  <2> QED BY <2>1, <2>2, <2>3, <2>4, CreatedKept, Threaded
<1>8. ASSUME NEW h \in Handlers, RegisterConcurrent(h) PROVE Created'
  <2>1. ConnsRest
    BY <1>8
    DEF RegisterConcurrent, InfoInv, PeerInfo, Offered, Unclaimed, Described,
        Delivered, manager
  <2>2. OnlyKnown(h)
    BY <1>8, Threaded, NoneApart
    DEF RegisterConcurrent, At, Equipped, UuidPlaces, RestInv, Go, Leave,
        Idle, JobInv, Jobs, Created, manager, WithLoser
  <2>3. EntriesKnown
    BY <1>8, Threaded, NoneApart
    DEF RegisterConcurrent, At, JobInv, RestInv, Created, Equipped,
        PeerPlaces, FreshPlaces, UuidPlaces, manager
  <2>4. NoneMade
    BY <1>8 DEF RegisterConcurrent, manager
  <2> QED BY <2>1, <2>2, <2>3, <2>4, CreatedKept, Threaded
<1>9. ASSUME NEW h \in Handlers, Claim(h) PROVE Created'
  <2>1. ConnsRest
    BY <1>9
    DEF Claim, InfoInv, PeerInfo, Offered, Unclaimed, Described, Delivered,
        manager
  <2>2. OnlyKnown(h)
    BY <1>9, Threaded, NoneApart
    DEF Claim, At, Equipped, UuidPlaces, RestInv, Go, Leave, Idle, JobInv,
        Jobs, Created, manager
  <2>3. EntriesKnown
    BY <1>9, Threaded, NoneApart
    DEF Claim, At, JobInv, RestInv, Created, Equipped, PeerPlaces,
        FreshPlaces, UuidPlaces, manager
  <2>4. NoneMade
    BY <1>9 DEF Claim, manager
  <2> QED BY <2>1, <2>2, <2>3, <2>4, CreatedKept, Threaded
<1>10. ASSUME NEW h \in Handlers, Resend(h) PROVE Created'
  <2>1. ConnsRest
    BY <1>10
    DEF Resend, InfoInv, PeerInfo, Offered, Unclaimed, Described, Delivered,
        manager
  <2>2. OnlyKnown(h)
    BY <1>10, Threaded, NoneApart
    DEF Resend, At, Equipped, UuidPlaces, RestInv, Go, Leave, Idle, JobInv,
        Jobs, Created, manager
  <2>3. EntriesKnown
    BY <1>10, Threaded, NoneApart
    DEF Resend, At, JobInv, RestInv, Created, Equipped, PeerPlaces,
        FreshPlaces, UuidPlaces, manager
  <2>4. NoneMade
    BY <1>10 DEF Resend, manager
  <2> QED BY <2>1, <2>2, <2>3, <2>4, CreatedKept, Threaded
<1>11. ASSUME NEW h \in Handlers, Describe(h) PROVE Created'
  <2>1. ConnsRest
    BY <1>11
    DEF Describe, InfoInv, PeerInfo, Offered, Unclaimed, Described, Delivered,
        manager
  <2>2. OnlyKnown(h)
    BY <1>11, Threaded, NoneApart
    DEF Describe, At, Equipped, UuidPlaces, RestInv, Go, Leave, Idle, JobInv,
        Jobs, Created, manager
  <2>3. EntriesKnown
    BY <1>11, Threaded, NoneApart
    DEF Describe, At, JobInv, RestInv, Created, Equipped, PeerPlaces,
        FreshPlaces, UuidPlaces, manager
  <2>4. NoneMade
    BY <1>11 DEF Describe, manager
  <2> QED BY <2>1, <2>2, <2>3, <2>4, CreatedKept, Threaded
<1>12. ASSUME NEW h \in Handlers, SendCached(h) PROVE Created'
  <2>1. ConnsRest
    BY <1>12
    DEF SendCached, InfoInv, PeerInfo, Offered, Unclaimed, Described,
        Delivered, manager
  <2>2. OnlyKnown(h)
    BY <1>12, Threaded, NoneApart
    DEF SendCached, At, Equipped, UuidPlaces, RestInv, Go, Leave, Idle,
        JobInv, Jobs, Created, manager
  <2>3. EntriesKnown
    BY <1>12, Threaded, NoneApart
    DEF SendCached, At, JobInv, RestInv, Created, Equipped, PeerPlaces,
        FreshPlaces, UuidPlaces, manager
  <2>4. NoneMade
    BY <1>12 DEF SendCached, manager
  <2> QED BY <2>1, <2>2, <2>3, <2>4, CreatedKept, Threaded
<1>13. ASSUME NEW h \in Handlers, SetLocalDescription(h) PROVE Created'
  <2>1. ConnsRest
    BY <1>13
    DEF SetLocalDescription, InfoInv, PeerInfo, Offered, Unclaimed, Described,
        Delivered, manager
  <2>2. OnlyKnown(h)
    BY <1>13, Threaded, NoneApart
    DEF SetLocalDescription, At, Equipped, UuidPlaces, RestInv, Go, Leave,
        Idle, JobInv, Jobs, Created, manager
  <2>3. EntriesKnown
    BY <1>13, Threaded, NoneApart
    DEF SetLocalDescription, At, JobInv, RestInv, Created, Equipped,
        PeerPlaces, FreshPlaces, UuidPlaces, manager
  <2>4. NoneMade
    BY <1>13 DEF SetLocalDescription, manager
  <2> QED BY <2>1, <2>2, <2>3, <2>4, CreatedKept, Threaded
<1>14. ASSUME NEW h \in Handlers, Answer(h) PROVE Created'
  <2>1. ConnsRest
    BY <1>14
    DEF Answer, InfoInv, PeerInfo, Offered, Unclaimed, Described, Delivered,
        manager
  <2>2. OnlyKnown(h)
    BY <1>14, Threaded, NoneApart
    DEF Answer, At, Equipped, UuidPlaces, RestInv, Go, Leave, Idle, JobInv,
        Jobs, Created, manager
  <2>3. EntriesKnown
    BY <1>14, Threaded, NoneApart
    DEF Answer, At, JobInv, RestInv, Created, Equipped, PeerPlaces,
        FreshPlaces, UuidPlaces, manager
  <2>4. NoneMade
    BY <1>14 DEF Answer, manager
  <2> QED BY <2>1, <2>2, <2>3, <2>4, CreatedKept, Threaded
<1>15. ASSUME NEW h \in Handlers, SetRemoteDescription(h) PROVE Created'
  <2>1. ConnsRest
    BY <1>15
    DEF SetRemoteDescription, InfoInv, PeerInfo, Offered, Unclaimed,
        Described, Delivered, manager
  <2>2. OnlyKnown(h)
    BY <1>15, Threaded, NoneApart
    DEF SetRemoteDescription, At, Equipped, UuidPlaces, RestInv, Go, Leave,
        Idle, JobInv, Jobs, Created, manager
  <2>3. EntriesKnown
    BY <1>15, Threaded, NoneApart
    DEF SetRemoteDescription, At, JobInv, RestInv, Created, Equipped,
        PeerPlaces, FreshPlaces, UuidPlaces, manager
  <2>4. NoneMade
    BY <1>15 DEF SetRemoteDescription, manager
  <2> QED BY <2>1, <2>2, <2>3, <2>4, CreatedKept, Threaded
<1>16. ASSUME NEW h \in Handlers, IceRestart(h) PROVE Created'
  <2>1. ConnsRest
    BY <1>16
    DEF IceRestart, InfoInv, PeerInfo, Offered, Unclaimed, Described,
        Delivered, manager
  <2>2. OnlyKnown(h)
    BY <1>16, Threaded, NoneApart
    DEF IceRestart, At, Equipped, UuidPlaces, RestInv, Go, Leave, Idle,
        JobInv, Jobs, Created, manager
  <2>3. EntriesKnown
    BY <1>16, Threaded, NoneApart
    DEF IceRestart, At, JobInv, RestInv, Created, Equipped, PeerPlaces,
        FreshPlaces, UuidPlaces, manager
  <2>4. NoneMade
    BY <1>16 DEF IceRestart, manager
  <2> QED BY <2>1, <2>2, <2>3, <2>4, CreatedKept, Threaded
<1>17. ASSUME NEW h \in Handlers, RestartPeer(h) PROVE Created'
  <2>1. ConnsRest
    BY <1>17
    DEF RestartPeer, InfoInv, PeerInfo, Offered, Unclaimed, Described,
        Delivered, manager
  <2>2. OnlyKnown(h)
    BY <1>17, Threaded, NoneApart
    DEF RestartPeer, At, Equipped, UuidPlaces, RestInv, Go, Leave, Idle,
        JobInv, Jobs, Created, manager
  <2>3. EntriesKnown
    BY <1>17, Threaded, NoneApart
    DEF RestartPeer, At, JobInv, RestInv, Created, Equipped, PeerPlaces,
        FreshPlaces, UuidPlaces, manager
  <2>4. NoneMade
    BY <1>17 DEF RestartPeer, manager
  <2> QED BY <2>1, <2>2, <2>3, <2>4, CreatedKept, Threaded
<1>18. ASSUME NEW h \in Handlers, Rebuild(h) PROVE Created'
  <2>1. CASE Construct(h, "recheck")
    BY <1>18, <2>1, CreatedConstruct, Threaded DEF Rebuild
  <2>2. CASE ConstructThrows(h)
    BY <1>18, <2>2, CreatedThrows, Threaded DEF Rebuild
  <2> QED BY <1>18, <2>1, <2>2 DEF Rebuild
<1>19. ASSUME NEW h \in Handlers, Recheck(h) PROVE Created'
  <2>1. ConnsRest
    BY <1>19
    DEF Recheck, InfoInv, PeerInfo, Offered, Unclaimed, Described, Delivered,
        manager
  <2>2. OnlyKnown(h)
    BY <1>19, Threaded, NoneApart
    DEF Recheck, At, Equipped, UuidPlaces, RestInv, Go, Leave, Idle, JobInv,
        Jobs, Created, manager
  <2>3. EntriesKnown
    BY <1>19, Threaded, NoneApart
    DEF Recheck, At, JobInv, RestInv, Created, Equipped, PeerPlaces,
        FreshPlaces, UuidPlaces, manager
  <2>4. NoneMade
    BY <1>19 DEF Recheck, manager
  <2> QED BY <2>1, <2>2, <2>3, <2>4, CreatedKept, Threaded
<1>20. ASSUME NEW h \in Handlers, Swap(h) PROVE Created'
  <2>1. ConnsRest
    BY <1>20
    DEF Swap, InfoInv, PeerInfo, Offered, Unclaimed, Described, Delivered,
        manager
  <2>2. OnlyKnown(h)
    BY <1>20, Threaded, NoneApart
    DEF Swap, At, Equipped, UuidPlaces, RestInv, Go, Leave, Idle, JobInv,
        Jobs, Created, manager
  <2>3. EntriesKnown
    BY <1>20, Threaded, NoneApart
    DEF Swap, At, JobInv, RestInv, Created, Equipped, PeerPlaces, FreshPlaces,
        UuidPlaces, manager
  <2>4. NoneMade
    BY <1>20 DEF Swap, manager
  <2> QED BY <2>1, <2>2, <2>3, <2>4, CreatedKept, Threaded
<1>21. ASSUME NEW h \in Handlers, Superseded(h) PROVE Created'
  <2>1. ConnsRest
    BY <1>21
    DEF Superseded, InfoInv, PeerInfo, Offered, Unclaimed, Described,
        Delivered, manager
  <2>2. OnlyKnown(h)
    BY <1>21, Threaded, NoneApart
    DEF Superseded, At, Equipped, UuidPlaces, RestInv, Go, Leave, Idle,
        JobInv, Jobs, Created, manager
  <2>3. EntriesKnown
    BY <1>21, Threaded, NoneApart
    DEF Superseded, At, JobInv, RestInv, Created, Equipped, PeerPlaces,
        FreshPlaces, UuidPlaces, manager
  <2>4. NoneMade
    BY <1>21 DEF Superseded, manager
  <2> QED BY <2>1, <2>2, <2>3, <2>4, CreatedKept, Threaded
<1>22. ASSUME NEW h \in Handlers, RestartOffer(h) PROVE Created'
  <2>1. ConnsRest
    BY <1>22
    DEF RestartOffer, InfoInv, PeerInfo, Offered, Unclaimed, Described,
        Delivered, manager
  <2>2. OnlyKnown(h)
    BY <1>22, Threaded, NoneApart
    DEF RestartOffer, At, Equipped, UuidPlaces, RestInv, Go, Leave, Idle,
        JobInv, Jobs, Created, manager
  <2>3. EntriesKnown
    BY <1>22, Threaded, NoneApart
    DEF RestartOffer, At, JobInv, RestInv, Created, Equipped, PeerPlaces,
        FreshPlaces, UuidPlaces, manager
  <2>4. NoneMade
    BY <1>22 DEF RestartOffer, manager
  <2> QED BY <2>1, <2>2, <2>3, <2>4, CreatedKept, Threaded
<1>23. ASSUME NEW h \in Handlers, SendFresh(h) PROVE Created'
  <2>1. ConnsRest
    BY <1>23
    DEF SendFresh, InfoInv, PeerInfo, Offered, Unclaimed, Described,
        Delivered, manager
  <2>2. OnlyKnown(h)
    BY <1>23, Threaded, NoneApart
    DEF SendFresh, At, Equipped, UuidPlaces, RestInv, Go, Leave, Idle, JobInv,
        Jobs, Created, manager
  <2>3. EntriesKnown
    BY <1>23, Threaded, NoneApart
    DEF SendFresh, At, JobInv, RestInv, Created, Equipped, PeerPlaces,
        FreshPlaces, UuidPlaces, manager
  <2>4. NoneMade
    BY <1>23 DEF SendFresh, manager
  <2> QED BY <2>1, <2>2, <2>3, <2>4, CreatedKept, Threaded
<1>24. ASSUME NEW h \in Handlers, DescribeFresh(h) PROVE Created'
  <2>1. ConnsRest
    BY <1>24
    DEF DescribeFresh, InfoInv, PeerInfo, Offered, Unclaimed, Described,
        Delivered, manager
  <2>2. OnlyKnown(h)
    BY <1>24, Threaded, NoneApart
    DEF DescribeFresh, At, Equipped, UuidPlaces, RestInv, Go, Leave, Idle,
        JobInv, Jobs, Created, manager
  <2>3. EntriesKnown
    BY <1>24, Threaded, NoneApart
    DEF DescribeFresh, At, JobInv, RestInv, Created, Equipped, PeerPlaces,
        FreshPlaces, UuidPlaces, manager
  <2>4. NoneMade
    BY <1>24 DEF DescribeFresh, manager
  <2> QED BY <2>1, <2>2, <2>3, <2>4, CreatedKept, Threaded
<1>25. ASSUME NEW h \in Handlers, Rollback(h) PROVE Created'
  <2>1. ConnsRest
    BY <1>25
    DEF Rollback, InfoInv, PeerInfo, Offered, Unclaimed, Described, Delivered,
        manager
  <2>2. OnlyKnown(h)
    BY <1>25, Threaded, NoneApart
    DEF Rollback, At, Equipped, UuidPlaces, RestInv, Go, Leave, Idle, JobInv,
        Jobs, Created, manager
  <2>3. EntriesKnown
    BY <1>25, Threaded, NoneApart
    DEF Rollback, At, JobInv, RestInv, Created, Equipped, PeerPlaces,
        FreshPlaces, UuidPlaces, manager
  <2>4. NoneMade
    BY <1>25 DEF Rollback, manager
  <2> QED BY <2>1, <2>2, <2>3, <2>4, CreatedKept, Threaded
<1>26. ASSUME NEW h \in Handlers, Restore(h) PROVE Created'
  <2>1. ConnsRest
    BY <1>26
    DEF Restore, InfoInv, PeerInfo, Offered, Unclaimed, Described, Delivered,
        manager
  <2>2. OnlyKnown(h)
    BY <1>26, Threaded, NoneApart
    DEF Restore, At, Equipped, UuidPlaces, RestInv, Go, Leave, Idle, JobInv,
        Jobs, Created, manager
  <2>3. EntriesKnown
    BY <1>26, Threaded, NoneApart
    DEF Restore, At, JobInv, RestInv, Created, Equipped, PeerPlaces,
        FreshPlaces, UuidPlaces, manager
  <2>4. NoneMade
    BY <1>26 DEF Restore, manager
  <2> QED BY <2>1, <2>2, <2>3, <2>4, CreatedKept, Threaded
<1>27. ASSUME NEW h \in Handlers, Disconnect(h) PROVE Created'
  <2>1. ConnsRest
    BY <1>27
    DEF Disconnect, InfoInv, PeerInfo, Offered, Unclaimed, Described,
        Delivered, manager
  <2>2. OnlyKnown(h)
    BY <1>27, Threaded, NoneApart
    DEF Disconnect, At, Equipped, UuidPlaces, RestInv, Go, Leave, Idle,
        JobInv, Jobs, Created, manager
  <2>3. EntriesKnown
    BY <1>27, Threaded, NoneApart
    DEF Disconnect, At, JobInv, RestInv, Created, Equipped, PeerPlaces,
        FreshPlaces, UuidPlaces, manager
  <2>4. NoneMade
    BY <1>27 DEF Disconnect, manager
  <2> QED BY <2>1, <2>2, <2>3, <2>4, CreatedKept, Threaded
<1>28. ASSUME NEW h \in Handlers, Close(h) PROVE Created'
  <2>1. \A k \in Generations :
          info[k].conn # "none" <=> info'[k].conn # "none"
    BY <1>28
    DEF Close, InfoInv, PeerInfo, Offered, Unclaimed, Closed, Described,
        Delivered, manager
  <2>2. OnlyKnown(h)
    BY <1>28, Threaded, NoneApart
    DEF Close, At, Equipped, UuidPlaces, RestInv, Go, Leave, Idle, JobInv,
        Jobs, Created, manager, Closed
  <2>3. EntriesKnown
    BY <1>28, Threaded, NoneApart
    DEF Close, At, JobInv, RestInv, Created, Equipped, PeerPlaces,
        FreshPlaces, UuidPlaces, manager
  <2>4. NoneMade
    BY <1>28 DEF Close, manager
  <2> QED BY <2>1, <2>2, <2>3, <2>4, CreatedKept, Threaded
<1>29. ASSUME NEW g \in Generations, StateChange(g) PROVE Created'
  <2>1. ConnsRest
    BY <1>29
    DEF StateChange, InfoInv, PeerInfo, Offered, Unclaimed, Described,
        Delivered, manager
  <2>2. OnlyKnown(g)
    BY <1>29, Threaded, NoneApart
    DEF StateChange, At, Equipped, UuidPlaces, RestInv, Go, Leave, Idle,
        JobInv, Jobs, Created, manager
  <2>3. EntriesKnown
    BY <1>29, Threaded, NoneApart
    DEF StateChange, At, JobInv, RestInv, Created, Equipped, PeerPlaces,
        FreshPlaces, UuidPlaces, manager
  <2>4. NoneMade
    BY <1>29 DEF StateChange, manager
  <2> QED BY <2>1, <2>2, <2>3, <2>4, CreatedKept, Threaded
<1>30. ASSUME NEW g \in Generations, Connected(g) PROVE Created'
  <2>1. ConnsRest
    BY <1>30
    DEF Connected, InfoInv, PeerInfo, Offered, Unclaimed, Described,
        Delivered, manager
  <2>2. OnlyKnown(g)
    BY <1>30, Threaded, NoneApart
    DEF Connected, At, Equipped, UuidPlaces, RestInv, Go, Leave, Idle, JobInv,
        Jobs, Created, manager
  <2>3. EntriesKnown
    BY <1>30, Threaded, NoneApart
    DEF Connected, At, JobInv, RestInv, Created, Equipped, PeerPlaces,
        FreshPlaces, UuidPlaces, manager
  <2>4. NoneMade
    BY <1>30 DEF Connected, manager
  <2> QED BY <2>1, <2>2, <2>3, <2>4, CreatedKept, Threaded
<1>31. ASSUME NEW g \in Generations, Disconnected(g) PROVE Created'
  <2>1. ConnsRest
    BY <1>31
    DEF Disconnected, InfoInv, PeerInfo, Offered, Unclaimed, Described,
        Delivered, manager
  <2>2. OnlyKnown(g)
    BY <1>31, Threaded, NoneApart
    DEF Disconnected, At, Equipped, UuidPlaces, RestInv, Go, Leave, Idle,
        JobInv, Jobs, Created, manager
  <2>3. EntriesKnown
    BY <1>31, Threaded, NoneApart
    DEF Disconnected, At, JobInv, RestInv, Created, Equipped, PeerPlaces,
        FreshPlaces, UuidPlaces, manager
  <2>4. NoneMade
    BY <1>31 DEF Disconnected, manager
  <2> QED BY <2>1, <2>2, <2>3, <2>4, CreatedKept, Threaded
<1>32. ASSUME NEW g \in Generations, DispatchDisconnected(g) PROVE Created'
  <2>1. ConnsRest
    BY <1>32
    DEF DispatchDisconnected, InfoInv, PeerInfo, Offered, Unclaimed,
        Described, Delivered, manager
  <2>2. OnlyKnown(g)
    BY <1>32, Threaded, NoneApart
    DEF DispatchDisconnected, At, Equipped, UuidPlaces, RestInv, Go, Leave,
        Idle, JobInv, Jobs, Created, manager
  <2>3. EntriesKnown
    BY <1>32, Threaded, NoneApart
    DEF DispatchDisconnected, At, JobInv, RestInv, Created, Equipped,
        PeerPlaces, FreshPlaces, UuidPlaces, manager
  <2>4. NoneMade
    BY <1>32 DEF DispatchDisconnected, manager
  <2> QED BY <2>1, <2>2, <2>3, <2>4, CreatedKept, Threaded
<1>33. ASSUME NEW g \in Generations, LocalDescription(g) PROVE Created'
  <2>1. ConnsRest
    BY <1>33
    DEF LocalDescription, InfoInv, PeerInfo, Offered, Unclaimed, Described,
        Delivered, manager
  <2>2. OnlyKnown(g)
    BY <1>33, Threaded, NoneApart
    DEF LocalDescription, At, Equipped, UuidPlaces, RestInv, Go, Leave, Idle,
        JobInv, Jobs, Created, manager
  <2>3. EntriesKnown
    BY <1>33, Threaded, NoneApart
    DEF LocalDescription, At, JobInv, RestInv, Created, Equipped, PeerPlaces,
        FreshPlaces, UuidPlaces, manager
  <2>4. NoneMade
    BY <1>33 DEF LocalDescription, manager
  <2> QED BY <2>1, <2>2, <2>3, <2>4, CreatedKept, Threaded
<1>34. ASSUME NEW g \in Generations, SendLocal(g) PROVE Created'
  <2>1. ConnsRest
    BY <1>34
    DEF SendLocal, InfoInv, PeerInfo, Offered, Unclaimed, Described,
        Delivered, manager
  <2>2. OnlyKnown(g)
    BY <1>34, Threaded, NoneApart
    DEF SendLocal, At, Equipped, UuidPlaces, RestInv, Go, Leave, Idle, JobInv,
        Jobs, Created, manager
  <2>3. EntriesKnown
    BY <1>34, Threaded, NoneApart
    DEF SendLocal, At, JobInv, RestInv, Created, Equipped, PeerPlaces,
        FreshPlaces, UuidPlaces, manager
  <2>4. NoneMade
    BY <1>34 DEF SendLocal, manager
  <2> QED BY <2>1, <2>2, <2>3, <2>4, CreatedKept, Threaded
<1>35. ASSUME NEW t \in Threads, BeginRetire(t) PROVE Created'
  <2>1. ConnsRest
    BY <1>35
    DEF BeginRetire, Target, InfoInv, PeerInfo, Offered, Unclaimed, Described,
        Delivered, manager
  <2>2. /\ \A k \in Threads \ {t} : job'[k] = job[k]
        /\ job'[t].fresh \in {None, job[t].fresh}
        /\ job'[t].peer \in Generations => job'[t].peer < generation
    BY <1>35, Threaded, NoneApart
    DEF BeginRetire, At, Equipped, UuidPlaces, RestInv, Go, Leave, Idle,
        JobInv, Jobs, Created, manager
  <2>3. EntriesKnown
    BY <1>35, Threaded, NoneApart
    DEF BeginRetire, At, JobInv, RestInv, Created, Equipped, PeerPlaces,
        FreshPlaces, UuidPlaces, manager
  <2>4. NoneMade
    BY <1>35 DEF BeginRetire, manager
  <2> QED BY <2>1, <2>2, <2>3, <2>4, CreatedKept, Threaded
<1>36. ASSUME NEW t \in Threads, FinishRetire(t) PROVE Created'
  <2>1. Target(t) \in Generations /\ Target(t) < generation
    BY <1>36
    DEF FinishRetire, Target, JobInv, Equipped, PeerPlaces, FreshPlaces,
        Created
  <2>2. \A k \in Threads :
          job'[k].peer \in {None, job[k].peer} /\ job'[k].fresh \in {None, job[k].fresh}
    BY <1>36 DEF FinishRetire, Leave, Idle, JobInv, Jobs
  <2>3. \A u \in Uuids : peers'[u] \in {None, peers[u]}
    BY <1>36 DEF FinishRetire, Without, RestInv
  <2>4. generation' = generation /\ info' = info /\ stop' = stop /\ retiredPeers' \subseteq retiredPeers \cup {Target(t)}
    BY <1>36 DEF FinishRetire
  <2> QED BY <2>1, <2>2, <2>3, <2>4, NoneApart DEF Created
<1>37. ASSUME StartPublishing PROVE Created'
  <2>1. PICK aged \in SUBSET retiredPeers :
           retiredPeers' = retiredPeers \ aged /\ info' = Released(aged)
    BY <1>37 DEF StartPublishing
  <2>2. \A k \in Generations :
          info[k].conn # "none" <=> info'[k].conn # "none"
    <3> TAKE k \in Generations
    <3>1. CASE k \in aged
      BY <2>1, <3>1, ReleasedDoes DEF Created
    <3>2. CASE k \notin aged
      BY <2>1, <3>2, ReleasedDoes
    <3> QED BY <3>1, <3>2
  <2> QED
    BY <1>37, <2>1, <2>2, RegistryAssumption
    DEF StartPublishing, Created, Resting, RestInv, Generations
<1>38. ASSUME StopPublishing PROVE Created'
  <2>1. job' = job /\ generation' = generation /\ retiredPeers' = retiredPeers
    BY <1>38 DEF StopPublishing
  <2>2. \A k \in Generations :
          info[k].conn # "none" <=> info'[k].conn # "none"
    BY <1>38 DEF StopPublishing, InfoInv, PeerInfo, Released, StopInv, Created
  <2>3. \A u \in Uuids : peers'[u] \in {None, peers[u]}
    BY <1>38 DEF StopPublishing, RestInv
  <2>4. \A g \in stop'.todo : g < generation
    BY <1>38
    DEF StopPublishing, StopInv, Created, Collected, Registered, Resting
  <2>5. stop'.peer \in Generations => stop'.peer < generation
    BY <1>38, NoneApart
    DEF StopPublishing, StopInv, Created, Collected, Registered, Resting
  <2> QED BY <2>1, <2>2, <2>3, <2>4, <2>5, NoneApart DEF Created
<1>39. ASSUME Collect PROVE Created'
  <2>1. job' = job /\ generation' = generation /\ retiredPeers' = retiredPeers
    BY <1>39 DEF Collect
  <2>2. \A k \in Generations :
          info[k].conn # "none" <=> info'[k].conn # "none"
    BY <1>39 DEF Collect, InfoInv, PeerInfo, Released, StopInv, Created
  <2>3. \A u \in Uuids : peers'[u] \in {None, peers[u]}
    BY <1>39 DEF Collect, RestInv
  <2>4. \A g \in stop'.todo : g < generation
    BY <1>39 DEF Collect, StopInv, Created, Collected, Registered, Resting
  <2>5. stop'.peer \in Generations => stop'.peer < generation
    BY <1>39, NoneApart
    DEF Collect, StopInv, Created, Collected, Registered, Resting
  <2> QED BY <2>1, <2>2, <2>3, <2>4, <2>5, NoneApart DEF Created
<1>40. ASSUME MarkRetired PROVE Created'
  <2>1. job' = job /\ generation' = generation /\ retiredPeers' = retiredPeers
    BY <1>40 DEF MarkRetired
  <2>2. \A k \in Generations :
          info[k].conn # "none" <=> info'[k].conn # "none"
    BY <1>40 DEF MarkRetired, InfoInv, PeerInfo, Released, StopInv, Created
  <2>3. \A u \in Uuids : peers'[u] \in {None, peers[u]}
    BY <1>40 DEF MarkRetired, RestInv
  <2>4. \A g \in stop'.todo : g < generation
    BY <1>40 DEF MarkRetired, StopInv, Created, Collected, Registered, Resting
  <2>5. stop'.peer \in Generations => stop'.peer < generation
    BY <1>40, NoneApart
    DEF MarkRetired, StopInv, Created, Collected, Registered, Resting
  <2> QED BY <2>1, <2>2, <2>3, <2>4, <2>5, NoneApart DEF Created
<1>41. ASSUME ReleaseOne PROVE Created'
  <2>1. job' = job /\ generation' = generation /\ retiredPeers' = retiredPeers
    BY <1>41 DEF ReleaseOne
  <2>2. \A k \in Generations :
          info[k].conn # "none" <=> info'[k].conn # "none"
    BY <1>41 DEF ReleaseOne, InfoInv, PeerInfo, Released, StopInv, Created
  <2>3. \A u \in Uuids : peers'[u] \in {None, peers[u]}
    BY <1>41 DEF ReleaseOne, RestInv
  <2>4. \A g \in stop'.todo : g < generation
    BY <1>41 DEF ReleaseOne, StopInv, Created, Collected, Registered, Resting
  <2>5. stop'.peer \in Generations => stop'.peer < generation
    BY <1>41, NoneApart
    DEF ReleaseOne, StopInv, Created, Collected, Registered, Resting
  <2> QED BY <2>1, <2>2, <2>3, <2>4, <2>5, NoneApart DEF Created
<1>42. ASSUME FinishStop PROVE Created'
  <2>1. PICK aged \in SUBSET retiredPeers :
           retiredPeers' = retiredPeers \ aged /\ info' = Released(aged)
    BY <1>42 DEF FinishStop
  <2>2. \A k \in Generations :
          info[k].conn # "none" <=> info'[k].conn # "none"
    <3> TAKE k \in Generations
    <3>1. CASE k \in aged
      BY <2>1, <3>1, ReleasedDoes DEF Created
    <3>2. CASE k \notin aged
      BY <2>1, <3>2, ReleasedDoes
    <3> QED BY <3>1, <3>2
  <2> QED
    BY <1>42, <2>1, <2>2, RegistryAssumption
    DEF FinishStop, Created, Resting, RestInv, Generations
<1>43. CASE UNCHANGED vars
  BY <1>43 DEF vars, Created
<1> QED
  BY <1>1, <1>2, <1>3, <1>4, <1>5, <1>6, <1>7, <1>8, <1>9, <1>10, <1>11,
     <1>12, <1>13, <1>14, <1>15, <1>16, <1>17, <1>18, <1>19, <1>20, <1>21,
     <1>22, <1>23, <1>24, <1>25, <1>26, <1>27, <1>28, <1>29, <1>30, <1>31,
     <1>32, <1>33, <1>34, <1>35, <1>36, <1>37, <1>38, <1>39, <1>40, <1>41,
     <1>42, <1>43 DEF Next, Request, Restart, Leaving, Callback, Retire,
     Control
------------------------------------------------------------------------------
Erasing(t, g) == job[t].at \in {"erasePeer", "eraseFresh"} /\ Target(t) = g

Releasing(g) == stop.at = "release" /\ stop.peer = g

\* Somebody is going to queue or to release the peer, or has: a later thread
\* that finds it marked need not.
InHand(g) ==
  \/ info[g].conn \in {"none", "released"}
  \/ g \in retiredPeers
  \/ Releasing(g)
  \/ \E t \in Threads : Erasing(t, g) /\ ~job[t].already

\* A thread that took the peer out of the registry, or never put it in.
Keeps(t, g) ==
  \/ job[t].at \in {"register", "recheck", "swap", "retireFresh"} /\ job[t].fresh = g
  \/ job[t].at \in {"offer", "sendFresh", "describeFresh", "rollback", "restore",
                    "close", "retirePeer"} /\ job[t].peer = g
  \/ job[t].at \in {"retireFresh", "eraseFresh"} /\ job[t].next = "retirePeer"
       /\ job[t].peer = g

Held(g) ==
  InHand(g) \/ Registered(g) \/ g \in stop.todo \/ \E t \in Threads : Keeps(t, g)

Custody ==
  /\ \A g \in Generations :
       /\ Held(g)
       /\ info[g].retired => InHand(g)
       /\ \A t \in Threads : Erasing(t, g) /\ job[t].already => InHand(g)
  /\ stop.at \in {"idle", "collect"} => stop.todo = {}

\* The thread of a connection works on its own peer.
OwnThread ==
  \A g \in Generations : job[g].at # "idle" =>
    /\ job[g].at \in {"changed", "dispatch", "send", "retirePeer", "erasePeer"}
    /\ job[g].peer = g /\ job[g].next = "idle"

\* Whoever was reported as disconnected is marked by the same thread, before
\* that thread looks at another state change.
Told ==
  \A g \in Generations : info[g].report = "disconnected" =>
    /\ g < generation
    /\ job[g].at = "retirePeer" \/ (info[g].retired /\ job[g].at # "changed")

\* A step of one thread that retires nobody keeps every peer in somebody's
\* hands, if it puts back or passes on what it takes.
LEMMA CustodyKept ==
  ASSUME TypeInv, Custody, NEW t \in Threads,
         retiredPeers' = retiredPeers, stop' = stop,
         \A k \in Threads \ {t} : job'[k] = job[k],
         \A g \in Generations :
           /\ info'[g].retired => info[g].retired
           /\ info[g].conn \in {"none", "released"} => info'[g].conn = info[g].conn
           /\ Registered(g) \/ Keeps(t, g) => Registered(g)' \/ Keeps(t, g)',
         job[t].at \notin {"erasePeer", "eraseFresh"},
         job'[t].at \notin {"erasePeer", "eraseFresh"}
  PROVE  Custody'
<1>1. ASSUME NEW g \in Generations, NEW k \in Threads
      PROVE  Erasing(k, g)' <=> Erasing(k, g)
  BY DEF Erasing, Target
<1>2. ASSUME NEW g \in Generations, InHand(g) PROVE InHand(g)'
  <2>1. ASSUME NEW k \in Threads, Erasing(k, g), ~job[k].already
        PROVE  Erasing(k, g)' /\ ~job'[k].already
    BY <1>1, <2>1 DEF Erasing
  <2> QED BY <1>2, <2>1 DEF InHand, Releasing
<1>3. ASSUME NEW g \in Generations PROVE Held(g)'
  <2>1. ASSUME NEW k \in Threads, Keeps(k, g), k # t PROVE Keeps(k, g)'
    BY <2>1 DEF Keeps
  <2> QED BY <1>2, <2>1 DEF Held, Custody
<1>4. ASSUME NEW g \in Generations, info'[g].retired PROVE InHand(g)'
  BY <1>2, <1>4 DEF Custody
<1>5. ASSUME NEW g \in Generations, NEW k \in Threads, Erasing(k, g)', job'[k].already
      PROVE  InHand(g)'
  <2>1. k # t
    BY <1>5 DEF Erasing
  <2> QED BY <1>1, <1>2, <1>5, <2>1 DEF Custody
<1> QED BY <1>3, <1>4, <1>5 DEF Custody

\* Releasing the aged peers of the queue leaves nobody out.
LEMMA CustodyAged ==
  ASSUME TypeInv, Custody, NEW aged \in SUBSET retiredPeers,
         retiredPeers' = retiredPeers \ aged, info' = Released(aged),
         job' = job, peers' = peers, stop'.todo = stop.todo,
         \A g \in Generations : ~Releasing(g) \/ Releasing(g)',
         stop'.at \in {"idle", "collect"} => stop.todo = {}
  PROVE  Custody'
<1>1. \A g \in Generations :
        /\ g \in aged => info'[g].conn = "released"
        /\ g \notin aged => info'[g] = info[g]
  BY DEF Released, TypeInv, InfoInv, PeerInfo
<1>2. ASSUME NEW g \in Generations, InHand(g) PROVE InHand(g)'
  BY <1>1, <1>2 DEF InHand, Erasing, Target
<1>3. ASSUME NEW g \in Generations PROVE Held(g)'
  BY <1>2 DEF Held, Custody, Keeps, Registered
<1>4. ASSUME NEW g \in Generations, info'[g].retired PROVE InHand(g)'
  BY <1>1, <1>2, <1>4 DEF Custody, InHand
<1>5. ASSUME NEW g \in Generations, NEW k \in Threads, Erasing(k, g)', job'[k].already
      PROVE  InHand(g)'
  BY <1>2, <1>5 DEF Custody, Erasing, Target
<1> QED BY <1>3, <1>4, <1>5 DEF Custody

\* A thread is about to remove only peers that were created.
LEMMA ErasingCreated ==
  ASSUME TypeInv, Created, NEW t \in Threads, NEW g \in Generations, Erasing(t, g)
  PROVE  g < generation
BY DEF Erasing, Target, Created

\* A new connection belongs to the thread that made it.
LEMMA CustodyConstruct ==
  ASSUME TypeInv, Created, Custody, NEW t \in Threads,
         NEW place \in {"register", "recheck"}, Construct(t, place),
         job[t].at \in {"create", "rebuild"}
  PROVE  Custody'
<1> USE DEF TypeInv
<1>1. PICK aged \in SUBSET retiredPeers, s \in Sessions :
        /\ retiredPeers' = retiredPeers \ aged
        /\ info' = [Released(aged) EXCEPT ![generation] = NewPeer(job[t].uuid, s)]
  BY DEF Construct
<1>2. generation \in Generations /\ ~(generation < generation)
  BY DEF Construct, RestInv, Generations
<1>3. /\ \A k \in Threads \ {t} : job'[k] = job[k]
      /\ job'[t].at = place /\ job'[t].fresh = generation
      /\ job'[t].peer = job[t].peer /\ job'[t].next = job[t].next
      /\ stop' = stop /\ peers' = peers
  BY <1>2 DEF Construct, JobInv, Jobs
<1>4. /\ \A g \in Generations \ {generation} :
           /\ g \in aged => info'[g].conn = "released"
           /\ g \notin aged => info'[g] = info[g]
      /\ ~info'[generation].retired
  BY <1>1, <1>2 DEF Released, InfoInv, PeerInfo, NewPeer, Uncreated
<1>5. ASSUME NEW g \in Generations, NEW k \in Threads
      PROVE  Erasing(k, g)' <=> k # t /\ Erasing(k, g)
  BY <1>3 DEF Erasing, Target
<1>6. ASSUME NEW k \in Threads PROVE ~Erasing(k, generation)
  BY <1>2, ErasingCreated
<1>7. ASSUME NEW g \in Generations \ {generation}, InHand(g) PROVE InHand(g)'
  <2>1. ASSUME NEW k \in Threads, Erasing(k, g), ~job[k].already
        PROVE  Erasing(k, g)' /\ ~job'[k].already
    BY <1>3, <1>5, <2>1 DEF Erasing
  <2> QED BY <1>1, <1>3, <1>4, <1>7, <2>1 DEF InHand, Releasing
<1>8. ASSUME NEW g \in Generations PROVE Held(g)'
  <2>1. CASE g = generation
    BY <1>3, <2>1 DEF Held, Keeps
  <2>2. CASE g # generation
    <3>1. ASSUME NEW k \in Threads, Keeps(k, g) PROVE Keeps(k, g)'
      BY <1>3, <3>1 DEF Keeps
    <3> QED BY <1>3, <1>7, <2>2, <3>1 DEF Held, Custody, Registered
  <2> QED BY <2>1, <2>2
<1>9. ASSUME NEW g \in Generations, info'[g].retired PROVE InHand(g)'
  BY <1>4, <1>7, <1>9 DEF Custody, InHand
<1>10. ASSUME NEW g \in Generations, NEW k \in Threads, Erasing(k, g)', job'[k].already
       PROVE  InHand(g)'
  BY <1>3, <1>5, <1>6, <1>7, <1>10 DEF Custody
<1> QED BY <1>3, <1>8, <1>9, <1>10 DEF Custody

\* One that is thrown away while it is made is released at once.
LEMMA CustodyThrows ==
  ASSUME TypeInv, Created, Custody, NEW t \in Threads, ConstructThrows(t),
         job[t].at \in {"create", "rebuild"}
  PROVE  Custody'
<1> USE DEF TypeInv
<1>1. PICK aged \in SUBSET retiredPeers :
        /\ retiredPeers' = retiredPeers \ aged
        /\ info' = [Released(aged) EXCEPT ![generation].retired = TRUE,
                                          ![generation].conn = "released"]
  BY DEF ConstructThrows
<1>2. generation \in Generations /\ ~(generation < generation)
  BY DEF ConstructThrows, RestInv, Generations
<1>3. /\ \A k \in Threads \ {t} : job'[k] = job[k]
      /\ job'[t] = Idle /\ stop' = stop /\ peers' = peers
  BY <1>2 DEF ConstructThrows, JobInv, Jobs, Leave
<1>4. /\ \A g \in Generations \ {generation} :
           /\ g \in aged => info'[g].conn = "released"
           /\ g \notin aged => info'[g] = info[g]
      /\ info'[generation].conn = "released"
  <2> DEFINE F == [Released(aged) EXCEPT ![generation].retired = TRUE]
  <2>1. Released(aged) \in [Generations -> PeerInfo]
    BY ReleasedType
  <2>a. ASSUME NEW f \in [Generations -> PeerInfo]
        PROVE  [f EXCEPT ![generation].retired = TRUE] \in [Generations -> PeerInfo]
    <3>1. f[generation] \in PeerInfo
      BY <1>2
    <3>2. ASSUME NEW i \in PeerInfo
          PROVE  [i EXCEPT !.retired = TRUE] \in PeerInfo
      BY DEF PeerInfo
    <3>3. [f EXCEPT ![generation].retired = TRUE]
            = [f EXCEPT ![generation] = [f[generation] EXCEPT !.retired = TRUE]]
      OBVIOUS
    <3> QED BY <3>1, <3>2, <3>3
  <2>2. /\ info' = [F EXCEPT ![generation].conn = "released"]
        /\ F \in [Generations -> PeerInfo]
    <3>1. info' = [F EXCEPT ![generation].conn = "released"]
      BY <1>1
    <3> QED BY <2>1, <2>a, <3>1
  <2>3. \A g \in Generations \ {generation} : F[g] = Released(aged)[g]
    BY <2>1
  <2>4. \A g \in Generations \ {generation} :
           /\ g \in aged => Released(aged)[g].conn = "released"
           /\ g \notin aged => Released(aged)[g] = info[g]
    BY DEF Released, InfoInv, PeerInfo
  <2> HIDE DEF F
  <2> QED BY <1>2, <2>2, <2>3, <2>4 DEF PeerInfo
<1>5. ASSUME NEW g \in Generations, NEW k \in Threads
      PROVE  Erasing(k, g)' <=> k # t /\ Erasing(k, g)
  BY <1>3 DEF Erasing, Target, Idle
<1>7. ASSUME NEW g \in Generations, InHand(g) PROVE InHand(g)'
  <2>1. ASSUME NEW k \in Threads, Erasing(k, g), ~job[k].already
        PROVE  Erasing(k, g)' /\ ~job'[k].already
    BY <1>3, <1>5, <2>1 DEF Erasing
  <2> QED BY <1>1, <1>3, <1>4, <1>7, <2>1 DEF InHand, Releasing
<1>8. ASSUME NEW g \in Generations PROVE Held(g)'
  <2>1. ASSUME NEW k \in Threads, Keeps(k, g) PROVE Keeps(k, g)'
    BY <1>3, <2>1 DEF Keeps, Idle
  <2> QED BY <1>3, <1>7, <2>1 DEF Held, Custody, Registered
<1>9. ASSUME NEW g \in Generations, info'[g].retired PROVE InHand(g)'
  BY <1>4, <1>7, <1>9 DEF Custody, InHand
<1>10. ASSUME NEW g \in Generations, NEW k \in Threads, Erasing(k, g)', job'[k].already
       PROVE  InHand(g)'
  BY <1>3, <1>5, <1>7, <1>10 DEF Custody
<1> QED BY <1>3, <1>8, <1>9, <1>10 DEF Custody

\* No peer is marked or closed; who is in the registry or in a thread's hands stays.
MarksOn ==
  \A k \in Generations :
    /\ info'[k].retired => info[k].retired
    /\ info'[k].conn = info[k].conn
KeepsOn(t) ==
  \A k \in Generations : Registered(k) \/ Keeps(t, k) => Registered(k)' \/ Keeps(t, k)'

\* No step leaves a connection with nobody who will release it.
LEMMA CustodyStep ==
  ASSUME TypeInv, Created, Custody, [Next]_vars
  PROVE  Custody'
<1> USE DEF TypeInv, OthersRest, MarksOn, KeepsOn
<1>1. ASSUME NEW h \in Handlers, OfferRequest(h) PROVE Custody'
  BY <1>1, CustodyKept, Threaded, SMTT(40)
  DEF OfferRequest, At, Go, Leave, Deliver, manager, bounds, Keeps, Idle,
      JobInv, InfoInv,
      RestInv, Jobs, PeerInfo, Equipped, PeerPlaces, FreshPlaces, UuidPlaces,
      Registered
<1>2. ASSUME NEW h \in Handlers, LookupNobody(h) PROVE Custody'
  BY <1>2, CustodyKept, Threaded, SMTT(40)
  DEF LookupNobody, At, Go, Leave, Deliver, manager, bounds, Keeps, Idle,
      JobInv, InfoInv,
      RestInv, Jobs, PeerInfo, Equipped, PeerPlaces, FreshPlaces, UuidPlaces,
      Registered
<1>3. ASSUME NEW h \in Handlers, LookupStale(h) PROVE Custody'
  <2>1. /\ h \in Threads /\ job[h] \in Jobs /\ job[h].at = "lookup"
        /\ job[h].uuid \in Uuids
    BY <1>3, Threaded DEF LookupStale, At, JobInv, Equipped, UuidPlaces
  <2>2. /\ OthersRest(h)
        /\ job'[h].at = "retirePeer" /\ job'[h].peer = peers[job[h].uuid]
    BY <1>3, <2>1 DEF LookupStale, JobInv, Jobs
  <2>3. /\ peers' = [peers EXCEPT ![job[h].uuid] = None] /\ info' = info
        /\ retiredPeers' = retiredPeers /\ stop' = stop
    BY <1>3 DEF LookupStale
  <2>4. \A g \in Generations : Registered(g) => Registered(g)' \/ Keeps(h, g)'
    BY <2>1, <2>2, <2>3 DEF Registered, Keeps, RestInv
  <2>5. \A g \in Generations : ~Keeps(h, g)
    BY <2>1 DEF Keeps
  <2> QED BY <2>1, <2>2, <2>3, <2>4, <2>5, CustodyKept
<1>4. ASSUME NEW h \in Handlers, LookupPeer(h) PROVE Custody'
  BY <1>4, CustodyKept, Threaded, SMTT(40)
  DEF LookupPeer, At, Go, Leave, Deliver, manager, bounds, Keeps, Idle,
      JobInv, InfoInv,
      RestInv, Jobs, PeerInfo, Equipped, PeerPlaces, FreshPlaces, UuidPlaces,
      Registered
<1>5. ASSUME NEW h \in Handlers, Admit(h) PROVE Custody'
  BY <1>5, CustodyKept, Threaded, SMTT(40)
  DEF Admit, At, Go, Leave, Deliver, manager, bounds, Keeps, Idle, JobInv,
      InfoInv,
      RestInv, Jobs, PeerInfo, Equipped, PeerPlaces, FreshPlaces, UuidPlaces,
      Registered
<1>6. ASSUME NEW h \in Handlers, Create(h) PROVE Custody'
  <2>1. CASE Construct(h, "register")
    BY <1>6, <2>1, CustodyConstruct, Threaded DEF Create, At
  <2>2. CASE ConstructThrows(h)
    BY <1>6, <2>2, CustodyThrows, Threaded DEF Create, At
  <2> QED BY <1>6, <2>1, <2>2 DEF Create
<1>7. ASSUME NEW h \in Handlers, Register(h) PROVE Custody'
  BY <1>7, CustodyKept, Threaded, SMTT(40)
  DEF Register, At, Go, Leave, Deliver, manager, bounds, Keeps, Idle, JobInv,
      InfoInv,
      RestInv, Jobs, PeerInfo, Equipped, PeerPlaces, FreshPlaces, UuidPlaces,
      Registered
<1>8. ASSUME NEW h \in Handlers, RegisterConcurrent(h) PROVE Custody'
  <2>1. /\ h \in Threads /\ job[h] \in Jobs /\ job[h].at = "register"
    BY <1>8, Threaded DEF RegisterConcurrent, At, JobInv
  <2>2. /\ OthersRest(h)
        /\ job'[h].at = "retireFresh" /\ job'[h].fresh = job[h].fresh
    BY <1>8, <2>1 DEF RegisterConcurrent, WithLoser, JobInv, Jobs
  <2>3. UNCHANGED <<peers, info, retiredPeers, stop>>
    BY <1>8 DEF RegisterConcurrent, manager
  <2>4. \A g \in Generations : Keeps(h, g) => Keeps(h, g)'
    BY <2>1, <2>2 DEF Keeps
  <2>5. \A g \in Generations : Registered(g) => Registered(g)'
    BY <2>3 DEF Registered
  <2> QED BY <2>1, <2>2, <2>3, <2>4, <2>5, CustodyKept
<1>9. ASSUME NEW h \in Handlers, Claim(h) PROVE Custody'
  <2>1. /\ h \in Threads /\ job[h] \in Jobs /\ job[h].at = "claim"
        /\ job[h].peer \in Generations
    BY <1>9, Threaded DEF Claim, At, JobInv, Equipped, PeerPlaces
  <2>2. /\ OthersRest(h)
        /\ job'[h].at \in {"describe", "resend", "idle"}
    BY <1>9, <2>1 DEF Claim, Go, Leave, Idle, JobInv, Jobs
  <2>3. /\ UNCHANGED <<peers, retiredPeers, stop>>
        /\ info' = [info EXCEPT ![job[h].peer].requested = TRUE]
    BY <1>9 DEF Claim
  <2>4. \A g \in Generations :
          info'[g].retired = info[g].retired /\ info'[g].conn = info[g].conn
    BY <2>1, <2>3 DEF InfoInv, PeerInfo
  <2>5. \A g \in Generations :
          ~Keeps(h, g) /\ (Registered(g) => Registered(g)')
    BY <2>1, <2>3 DEF Keeps, Registered
  <2> QED BY <2>1, <2>2, <2>3, <2>4, <2>5, CustodyKept
<1>10. ASSUME NEW h \in Handlers, Resend(h) PROVE Custody'
  BY <1>10, CustodyKept, Threaded, SMTT(40)
  DEF Resend, At, Go, Leave, Deliver, manager, bounds, Keeps, Idle, JobInv,
      InfoInv,
      RestInv, Jobs, PeerInfo, Equipped, PeerPlaces, FreshPlaces, UuidPlaces,
      Registered
<1>11. ASSUME NEW h \in Handlers, Describe(h) PROVE Custody'
  <2>1. MarksOn
    BY <1>11
    DEF Describe, InfoInv, PeerInfo, Offered, Unclaimed, Described, Delivered,
        manager
  <2>2. job[h].at \notin {"erasePeer", "eraseFresh"}
    BY <1>11 DEF Describe, At
  <2>3. /\ job'[h].at \notin {"erasePeer", "eraseFresh"}
        /\ OthersRest(h)
    BY <1>11, Threaded DEF Describe, Go, Leave, Idle, JobInv, Jobs
  <2>4. KeepsOn(h)
    BY <1>11, Threaded
    DEF Describe, At, Go, Leave, Idle, JobInv, Jobs, Keeps, Registered,
        manager
  <2>5. retiredPeers' = retiredPeers /\ stop' = stop
    BY <1>11 DEF Describe, manager
  <2> QED BY <2>1, <2>2, <2>3, <2>4, <2>5, CustodyKept, Threaded
<1>12. ASSUME NEW h \in Handlers, SendCached(h) PROVE Custody'
  <2>1. MarksOn
    BY <1>12
    DEF SendCached, InfoInv, PeerInfo, Offered, Unclaimed, Described,
        Delivered, manager
  <2>2. job[h].at \notin {"erasePeer", "eraseFresh"}
    BY <1>12 DEF SendCached, At
  <2>3. /\ job'[h].at \notin {"erasePeer", "eraseFresh"}
        /\ OthersRest(h)
    BY <1>12, Threaded DEF SendCached, Go, Leave, Idle, JobInv, Jobs
  <2>4. KeepsOn(h)
    BY <1>12, Threaded
    DEF SendCached, At, Go, Leave, Idle, JobInv, Jobs, Keeps, Registered,
        manager
  <2>5. retiredPeers' = retiredPeers /\ stop' = stop
    BY <1>12 DEF SendCached, manager
  <2> QED BY <2>1, <2>2, <2>3, <2>4, <2>5, CustodyKept, Threaded
<1>13. ASSUME NEW h \in Handlers, SetLocalDescription(h) PROVE Custody'
  <2>1. MarksOn
    BY <1>13
    DEF SetLocalDescription, InfoInv, PeerInfo, Offered, Unclaimed, Described,
        Delivered, manager
  <2>2. job[h].at \notin {"erasePeer", "eraseFresh"}
    BY <1>13 DEF SetLocalDescription, At
  <2>3. /\ job'[h].at \notin {"erasePeer", "eraseFresh"}
        /\ OthersRest(h)
    BY <1>13, Threaded DEF SetLocalDescription, Go, Leave, Idle, JobInv, Jobs
  <2>4. KeepsOn(h)
    BY <1>13, Threaded
    DEF SetLocalDescription, At, Go, Leave, Idle, JobInv, Jobs, Keeps,
        Registered, manager
  <2>5. retiredPeers' = retiredPeers /\ stop' = stop
    BY <1>13 DEF SetLocalDescription, manager
  <2> QED BY <2>1, <2>2, <2>3, <2>4, <2>5, CustodyKept, Threaded
<1>14. ASSUME NEW h \in Handlers, Answer(h) PROVE Custody'
  BY <1>14, CustodyKept, Threaded, SMTT(40)
  DEF Answer, At, Go, Leave, Deliver, manager, bounds, Keeps, Idle, JobInv,
      InfoInv,
      RestInv, Jobs, PeerInfo, Equipped, PeerPlaces, FreshPlaces, UuidPlaces,
      Registered
<1>15. ASSUME NEW h \in Handlers, SetRemoteDescription(h) PROVE Custody'
  <2>1. MarksOn
    BY <1>15
    DEF SetRemoteDescription, InfoInv, PeerInfo, Offered, Unclaimed,
        Described, Delivered, manager
  <2>2. job[h].at \notin {"erasePeer", "eraseFresh"}
    BY <1>15 DEF SetRemoteDescription, At
  <2>3. /\ job'[h].at \notin {"erasePeer", "eraseFresh"}
        /\ OthersRest(h)
    BY <1>15, Threaded DEF SetRemoteDescription, Go, Leave, Idle, JobInv, Jobs
  <2>4. KeepsOn(h)
    BY <1>15, Threaded
    DEF SetRemoteDescription, At, Go, Leave, Idle, JobInv, Jobs, Keeps,
        Registered, manager
  <2>5. retiredPeers' = retiredPeers /\ stop' = stop
    BY <1>15 DEF SetRemoteDescription, manager
  <2> QED BY <2>1, <2>2, <2>3, <2>4, <2>5, CustodyKept, Threaded
<1>16. ASSUME NEW h \in Handlers, IceRestart(h) PROVE Custody'
  BY <1>16, CustodyKept, Threaded, SMTT(40)
  DEF IceRestart, At, Go, Leave, Deliver, manager, bounds, Keeps, Idle,
      JobInv, InfoInv,
      RestInv, Jobs, PeerInfo, Equipped, PeerPlaces, FreshPlaces, UuidPlaces,
      Registered
<1>17. ASSUME NEW h \in Handlers, RestartPeer(h) PROVE Custody'
  BY <1>17, CustodyKept, Threaded, SMTT(40)
  DEF RestartPeer, At, Go, Leave, Deliver, manager, bounds, Keeps, Idle,
      JobInv, InfoInv,
      RestInv, Jobs, PeerInfo, Equipped, PeerPlaces, FreshPlaces, UuidPlaces,
      Registered
<1>18. ASSUME NEW h \in Handlers, Rebuild(h) PROVE Custody'
  <2>1. CASE Construct(h, "recheck")
    BY <1>18, <2>1, CustodyConstruct, Threaded DEF Rebuild, At
  <2>2. CASE ConstructThrows(h)
    BY <1>18, <2>2, CustodyThrows, Threaded DEF Rebuild, At
  <2> QED BY <1>18, <2>1, <2>2 DEF Rebuild
<1>19. ASSUME NEW h \in Handlers, Recheck(h) PROVE Custody'
  BY <1>19, CustodyKept, Threaded, SMTT(40)
  DEF Recheck, At, Go, Leave, Deliver, manager, bounds, Keeps, Idle, JobInv,
      InfoInv,
      RestInv, Jobs, PeerInfo, Equipped, PeerPlaces, FreshPlaces, UuidPlaces,
      Registered
<1>20. ASSUME NEW h \in Handlers, Swap(h) PROVE Custody'
  BY <1>20, CustodyKept, Threaded, SMTT(40)
  DEF Swap, At, Go, Leave, Deliver, manager, bounds, Keeps, Idle, JobInv,
      InfoInv,
      RestInv, Jobs, PeerInfo, Equipped, PeerPlaces, FreshPlaces, UuidPlaces,
      Registered
<1>21. ASSUME NEW h \in Handlers, Superseded(h) PROVE Custody'
  BY <1>21, CustodyKept, Threaded, SMTT(40)
  DEF Superseded, At, Go, Leave, Deliver, manager, bounds, Keeps, Idle,
      JobInv, InfoInv,
      RestInv, Jobs, PeerInfo, Equipped, PeerPlaces, FreshPlaces, UuidPlaces,
      Registered
<1>22. ASSUME NEW h \in Handlers, RestartOffer(h) PROVE Custody'
  <2>1. MarksOn
    BY <1>22
    DEF RestartOffer, InfoInv, PeerInfo, Offered, Unclaimed, Described,
        Delivered, manager
  <2>2. job[h].at \notin {"erasePeer", "eraseFresh"}
    BY <1>22 DEF RestartOffer, At
  <2>3. /\ job'[h].at \notin {"erasePeer", "eraseFresh"}
        /\ OthersRest(h)
    BY <1>22, Threaded DEF RestartOffer, Go, Leave, Idle, JobInv, Jobs
  <2>4. KeepsOn(h)
    BY <1>22, Threaded
    DEF RestartOffer, At, Go, Leave, Idle, JobInv, Jobs, Keeps, Registered,
        manager
  <2>5. retiredPeers' = retiredPeers /\ stop' = stop
    BY <1>22 DEF RestartOffer, manager
  <2> QED BY <2>1, <2>2, <2>3, <2>4, <2>5, CustodyKept, Threaded
<1>23. ASSUME NEW h \in Handlers, SendFresh(h) PROVE Custody'
  <2>1. MarksOn
    BY <1>23
    DEF SendFresh, InfoInv, PeerInfo, Offered, Unclaimed, Described,
        Delivered, manager
  <2>2. job[h].at \notin {"erasePeer", "eraseFresh"}
    BY <1>23 DEF SendFresh, At
  <2>3. /\ job'[h].at \notin {"erasePeer", "eraseFresh"}
        /\ OthersRest(h)
    BY <1>23, Threaded DEF SendFresh, Go, Leave, Idle, JobInv, Jobs
  <2>4. KeepsOn(h)
    BY <1>23, Threaded
    DEF SendFresh, At, Go, Leave, Idle, JobInv, Jobs, Keeps, Registered,
        manager
  <2>5. retiredPeers' = retiredPeers /\ stop' = stop
    BY <1>23 DEF SendFresh, manager
  <2> QED BY <2>1, <2>2, <2>3, <2>4, <2>5, CustodyKept, Threaded
<1>24. ASSUME NEW h \in Handlers, DescribeFresh(h) PROVE Custody'
  <2>1. MarksOn
    BY <1>24
    DEF DescribeFresh, InfoInv, PeerInfo, Offered, Unclaimed, Described,
        Delivered, manager
  <2>2. job[h].at \notin {"erasePeer", "eraseFresh"}
    BY <1>24 DEF DescribeFresh, At
  <2>3. /\ job'[h].at \notin {"erasePeer", "eraseFresh"}
        /\ OthersRest(h)
    BY <1>24, Threaded DEF DescribeFresh, Go, Leave, Idle, JobInv, Jobs
  <2>4. KeepsOn(h)
    BY <1>24, Threaded
    DEF DescribeFresh, At, Go, Leave, Idle, JobInv, Jobs, Keeps, Registered,
        manager
  <2>5. retiredPeers' = retiredPeers /\ stop' = stop
    BY <1>24 DEF DescribeFresh, manager
  <2> QED BY <2>1, <2>2, <2>3, <2>4, <2>5, CustodyKept, Threaded
<1>25. ASSUME NEW h \in Handlers, Rollback(h) PROVE Custody'
  BY <1>25, CustodyKept, Threaded, SMTT(40)
  DEF Rollback, At, Go, Leave, Deliver, manager, bounds, Keeps, Idle, JobInv,
      InfoInv,
      RestInv, Jobs, PeerInfo, Equipped, PeerPlaces, FreshPlaces, UuidPlaces,
      Registered
<1>26. ASSUME NEW h \in Handlers, Restore(h) PROVE Custody'
  <2>1. MarksOn
    BY <1>26
    DEF Restore, InfoInv, PeerInfo, Offered, Unclaimed, Described, Delivered,
        manager
  <2>2. job[h].at \notin {"erasePeer", "eraseFresh"}
    BY <1>26 DEF Restore, At
  <2>3. /\ job'[h].at \notin {"erasePeer", "eraseFresh"}
        /\ OthersRest(h)
    BY <1>26, Threaded DEF Restore, Go, Leave, Idle, JobInv, Jobs
  <2>4. KeepsOn(h)
    <3> USE DEF Keeps, JobInv, Jobs
    <3>1. job[h] \in Jobs /\ job[h].at = "restore"
      BY <1>26, Threaded DEF Restore, At
    <3>2. CASE MayRestore(h)
      <4>1. /\ job[h].uuid \in Uuids /\ peers[job[h].uuid] = job[h].fresh
            /\ peers' = [peers EXCEPT ![job[h].uuid] = job[h].peer]
            /\ job'[h].at = "retireFresh" /\ job'[h].fresh = job[h].fresh
        BY <1>26, <3>2, Threaded
        DEF Restore, At, MayRestore, Go, Equipped, UuidPlaces
      <4> QED BY <3>1, <4>1 DEF Registered, RestInv
    <3>3. CASE ~MayRestore(h)
      <4>1. /\ peers' = peers /\ job'[h].at = "retireFresh" /\ job'[h].next = "retirePeer"
            /\ job'[h].peer = job[h].peer
        BY <1>26, <3>3, Threaded DEF Restore
      <4> QED BY <3>1, <4>1 DEF Registered
    <3> QED BY <3>2, <3>3
  <2>5. retiredPeers' = retiredPeers /\ stop' = stop
    BY <1>26 DEF Restore, manager
  <2> QED BY <2>1, <2>2, <2>3, <2>4, <2>5, CustodyKept, Threaded
<1>27. ASSUME NEW h \in Handlers, Disconnect(h) PROVE Custody'
  BY <1>27, CustodyKept, Threaded, SMTT(40)
  DEF Disconnect, At, Go, Leave, Deliver, manager, bounds, Keeps, Idle,
      JobInv, InfoInv,
      RestInv, Jobs, PeerInfo, Equipped, PeerPlaces, FreshPlaces, UuidPlaces,
      Registered
<1>28. ASSUME NEW h \in Handlers, Close(h) PROVE Custody'
  BY <1>28, CustodyKept, Threaded, SMTT(40)
  DEF Close, At, Go, Leave, Deliver, manager, bounds, Keeps, Idle, JobInv,
      InfoInv,
      RestInv, Jobs, PeerInfo, Equipped, PeerPlaces, FreshPlaces, UuidPlaces,
      Registered, Offered, Unclaimed, Described, Closed, Delivered
<1>29. ASSUME NEW g \in Generations, StateChange(g) PROVE Custody'
  <2>1. MarksOn
    BY <1>29
    DEF StateChange, InfoInv, PeerInfo, Offered, Unclaimed, Described,
        Delivered, manager
  <2>2. job[g].at \notin {"erasePeer", "eraseFresh"}
    BY <1>29 DEF StateChange, At, Quiet
  <2>3. /\ job'[g].at \notin {"erasePeer", "eraseFresh"}
        /\ OthersRest(g)
    BY <1>29, Threaded DEF StateChange, Go, Leave, Idle, JobInv, Jobs
  <2>4. KeepsOn(g)
    BY <1>29, Threaded
    DEF StateChange, At, Go, Leave, Idle, JobInv, Jobs, Keeps, Registered,
        manager, Quiet
  <2>5. retiredPeers' = retiredPeers /\ stop' = stop
    BY <1>29 DEF StateChange, manager
  <2> QED BY <2>1, <2>2, <2>3, <2>4, <2>5, CustodyKept, Threaded
<1>30. ASSUME NEW g \in Generations, Connected(g) PROVE Custody'
  BY <1>30, CustodyKept, Threaded, SMTT(40)
  DEF Connected, At, Go, Leave, Deliver, manager, bounds, Keeps, Idle, JobInv,
      InfoInv,
      RestInv, Jobs, PeerInfo, Equipped, PeerPlaces, FreshPlaces, UuidPlaces,
      Registered
<1>31. ASSUME NEW g \in Generations, Disconnected(g) PROVE Custody'
  <2>1. MarksOn
    BY <1>31
    DEF Disconnected, InfoInv, PeerInfo, Offered, Unclaimed, Described,
        Delivered, manager
  <2>2. job[g].at \notin {"erasePeer", "eraseFresh"}
    BY <1>31 DEF Disconnected, At
  <2>3. /\ job'[g].at \notin {"erasePeer", "eraseFresh"}
        /\ OthersRest(g)
    BY <1>31, Threaded DEF Disconnected, Go, Leave, Idle, JobInv, Jobs
  <2>4. KeepsOn(g)
    BY <1>31, Threaded
    DEF Disconnected, At, Go, Leave, Idle, JobInv, Jobs, Keeps, Registered,
        manager
  <2>5. retiredPeers' = retiredPeers /\ stop' = stop
    BY <1>31 DEF Disconnected, manager
  <2> QED BY <2>1, <2>2, <2>3, <2>4, <2>5, CustodyKept, Threaded
<1>32. ASSUME NEW g \in Generations, DispatchDisconnected(g) PROVE Custody'
  BY <1>32, CustodyKept, Threaded, SMTT(40)
  DEF DispatchDisconnected, At, Go, Leave, Deliver, manager, bounds, Keeps,
      Idle, JobInv, InfoInv,
      RestInv, Jobs, PeerInfo, Equipped, PeerPlaces, FreshPlaces, UuidPlaces,
      Registered
<1>33. ASSUME NEW g \in Generations, LocalDescription(g) PROVE Custody'
  <2>1. MarksOn
    BY <1>33
    DEF LocalDescription, InfoInv, PeerInfo, Offered, Unclaimed, Described,
        Delivered, manager
  <2>2. job[g].at \notin {"erasePeer", "eraseFresh"}
    BY <1>33 DEF LocalDescription, At, Quiet
  <2>3. /\ job'[g].at \notin {"erasePeer", "eraseFresh"}
        /\ OthersRest(g)
    BY <1>33, Threaded DEF LocalDescription, Go, Leave, Idle, JobInv, Jobs
  <2>4. KeepsOn(g)
    BY <1>33, Threaded
    DEF LocalDescription, At, Go, Leave, Idle, JobInv, Jobs, Keeps,
        Registered, manager, Quiet
  <2>5. retiredPeers' = retiredPeers /\ stop' = stop
    BY <1>33 DEF LocalDescription, manager
  <2> QED BY <2>1, <2>2, <2>3, <2>4, <2>5, CustodyKept, Threaded
<1>34. ASSUME NEW g \in Generations, SendLocal(g) PROVE Custody'
  BY <1>34, CustodyKept, Threaded, SMTT(40)
  DEF SendLocal, At, Go, Leave, Deliver, manager, bounds, Keeps, Idle, JobInv,
      InfoInv,
      RestInv, Jobs, PeerInfo, Equipped, PeerPlaces, FreshPlaces, UuidPlaces,
      Registered, Offered, Unclaimed, Described, Closed, Delivered
<1>35. ASSUME NEW t \in Threads, BeginRetire(t) PROVE Custody'
  <2>1. PICK g \in Generations :
        /\ g = Target(t) /\ job[t].at \in {"retirePeer", "retireFresh"}
        /\ info'[g].conn = info[g].conn
        /\ \A k \in Generations \ {g} : info'[k] = info[k]
    BY <1>35
    DEF BeginRetire, Target, JobInv, Equipped, PeerPlaces, FreshPlaces,
        InfoInv, PeerInfo
  <2>2. /\ OthersRest(t)
        /\ job'[t].at = IF job[t].at = "retirePeer" THEN "erasePeer" ELSE "eraseFresh"
        /\ job'[t].peer = job[t].peer /\ job'[t].fresh = job[t].fresh
        /\ job'[t].next = job[t].next /\ job'[t].already = info[g].retired
    BY <1>35, <2>1 DEF BeginRetire, JobInv, Jobs
  <2>3. /\ retiredPeers' = retiredPeers /\ stop' = stop /\ peers' = peers
    BY <1>35 DEF BeginRetire
  <2>4. Erasing(t, g)' /\ (\A k \in Generations : Erasing(t, k)' => k = g)
          /\ (\A k \in Generations : ~Erasing(t, k))
    BY <2>1, <2>2 DEF Erasing, Target
  <2>5. \A k \in Threads \ {t} :
          \A l \in Generations : Erasing(k, l)' <=> Erasing(k, l)
    BY <2>2 DEF Erasing, Target
  <2>6. ASSUME NEW k \in Generations, InHand(k) PROVE InHand(k)'
    <3>1. ASSUME NEW l \in Threads, Erasing(l, k), ~job[l].already
          PROVE  Erasing(l, k)' /\ ~job'[l].already
      BY <2>2, <2>4, <2>5, <3>1
    <3> QED BY <2>1, <2>3, <2>6, <3>1 DEF InHand, Releasing
  <2>7. InHand(g)'
    BY <2>1, <2>2, <2>4, <2>6 DEF InHand, Custody
  <2>8. ASSUME NEW k \in Generations PROVE Held(k)'
    <3>1. ASSUME NEW l \in Threads, Keeps(l, k), k # g PROVE Keeps(l, k)'
      BY <2>1, <2>2, <3>1 DEF Keeps, Target
    <3> QED BY <2>3, <2>6, <2>7, <3>1 DEF Held, Custody, Registered
  <2>9. ASSUME NEW k \in Generations, info'[k].retired PROVE InHand(k)'
    BY <2>1, <2>6, <2>7, <2>9 DEF Custody
  <2>10. ASSUME NEW k \in Generations, NEW l \in Threads, Erasing(l, k)', job'[l].already
         PROVE  InHand(k)'
    BY <2>2, <2>4, <2>5, <2>6, <2>7, <2>10 DEF Custody
  <2> QED BY <2>3, <2>8, <2>9, <2>10 DEF Custody
<1>36. ASSUME NEW t \in Threads, FinishRetire(t) PROVE Custody'
  <2>1. PICK g \in Generations : g = Target(t) /\ Erasing(t, g)
    BY <1>36
    DEF FinishRetire, Target, JobInv, Equipped, PeerPlaces, FreshPlaces,
        Erasing
  <2>2. /\ OthersRest(t)
        /\ job'[t].at \notin {"erasePeer", "eraseFresh"}
        /\ job[t].next = "retirePeer" => job'[t].at = "retirePeer" /\ job'[t].peer = job[t].peer
    BY <1>36 DEF FinishRetire, Leave, Idle, JobInv, Jobs, Returns
  <2>3. /\ retiredPeers' = (IF job[t].already THEN retiredPeers ELSE retiredPeers \cup {g})
        /\ stop' = stop /\ info' = info
        /\ \A k \in Generations : k # g /\ Registered(k) => Registered(k)'
    BY <1>36, <2>1, NoneApart DEF FinishRetire, Without, Registered, RestInv
  <2>4. \A k \in Generations : Erasing(t, k) <=> k = g
    BY <2>1 DEF Erasing
  <2>5. \A k \in Threads, l \in Generations :
          Erasing(k, l)' <=> k # t /\ Erasing(k, l)
    BY <2>2 DEF Erasing, Target
  <2>6. ASSUME NEW k \in Generations, InHand(k) PROVE InHand(k)'
    <3>1. ASSUME NEW l \in Threads, Erasing(l, k), ~job[l].already
          PROVE  (Erasing(l, k)' /\ ~job'[l].already) \/ k \in retiredPeers'
      BY <2>2, <2>3, <2>4, <2>5, <3>1
    <3> QED BY <2>3, <2>6, <3>1 DEF InHand, Releasing
  <2>7. InHand(g)'
    BY <2>1, <2>3, <2>6 DEF InHand, Custody
  <2>8. ASSUME NEW k \in Generations PROVE Held(k)'
    <3>1. ASSUME NEW l \in Threads, Keeps(l, k), k # g PROVE Keeps(l, k)'
      BY <2>1, <2>2, <3>1 DEF Keeps, Erasing, Target
    <3> QED BY <2>3, <2>6, <2>7, <3>1 DEF Held, Custody
  <2>9. ASSUME NEW k \in Generations, info'[k].retired PROVE InHand(k)'
    BY <2>3, <2>6, <2>9 DEF Custody
  <2>10. ASSUME NEW k \in Generations, NEW l \in Threads, Erasing(l, k)', job'[l].already
         PROVE  InHand(k)'
    BY <2>2, <2>5, <2>6, <2>10 DEF Custody
  <2> QED BY <2>3, <2>8, <2>9, <2>10 DEF Custody
<1>37. ASSUME StartPublishing PROVE Custody'
  <2>1. PICK aged \in SUBSET retiredPeers :
           retiredPeers' = retiredPeers \ aged /\ info' = Released(aged)
    BY <1>37 DEF StartPublishing
  <2>2. \A g \in Generations : ~Releasing(g) \/ Releasing(g)'
    BY <1>37 DEF StartPublishing, Releasing
  <2>3. job' = job /\ peers' = peers /\ stop'.todo = stop.todo
    BY <1>37 DEF StartPublishing, Resting
  <2>4. stop'.at \in {"idle", "collect"} => stop.todo = {}
    BY <1>37 DEF StartPublishing, Custody, Resting
  <2> QED BY <2>1, <2>2, <2>3, <2>4, CustodyAged
<1>38. ASSUME StopPublishing PROVE Custody'
  <2>1. job' = job /\ retiredPeers' = retiredPeers
    BY <1>38 DEF StopPublishing
  <2>2. ASSUME NEW g \in Generations, InHand(g) PROVE InHand(g)'
    BY <1>38, <2>1, <2>2
    DEF StopPublishing, InHand, Erasing, Target, Releasing, InfoInv, PeerInfo,
        Released, StopInv, Resting
  <2>3. ASSUME NEW g \in Generations PROVE Held(g)'
    BY <1>38, <2>1, <2>2
    DEF StopPublishing, Held, Custody, Keeps, Registered, Collected, InHand,
        Releasing, StopInv
  <2>4. ASSUME NEW g \in Generations, info'[g].retired PROVE InHand(g)'
    BY <1>38, <2>2, <2>4
    DEF StopPublishing, Custody, InHand, Releasing, InfoInv, PeerInfo,
        Released, StopInv
  <2>5. ASSUME NEW g \in Generations, NEW k \in Threads, Erasing(k, g)', job'[k].already
        PROVE  InHand(g)'
    BY <2>1, <2>2, <2>5 DEF Custody, Erasing, Target
  <2>6. stop'.at \in {"idle", "collect"} => stop'.todo = {}
    BY <1>38 DEF StopPublishing, Custody, StopInv, Resting
  <2> QED BY <2>3, <2>4, <2>5, <2>6 DEF Custody
<1>39. ASSUME Collect PROVE Custody'
  <2>1. job' = job /\ retiredPeers' = retiredPeers
    BY <1>39 DEF Collect
  <2>2. ASSUME NEW g \in Generations, InHand(g) PROVE InHand(g)'
    BY <1>39, <2>1, <2>2
    DEF Collect, InHand, Erasing, Target, Releasing, InfoInv, PeerInfo,
        Released, StopInv, Resting
  <2>3. ASSUME NEW g \in Generations PROVE Held(g)'
    BY <1>39, <2>1, <2>2
    DEF Collect, Held, Custody, Keeps, Registered, Collected, InHand,
        Releasing, StopInv
  <2>4. ASSUME NEW g \in Generations, info'[g].retired PROVE InHand(g)'
    BY <1>39, <2>2, <2>4
    DEF Collect, Custody, InHand, Releasing, InfoInv, PeerInfo, Released,
        StopInv
  <2>5. ASSUME NEW g \in Generations, NEW k \in Threads, Erasing(k, g)', job'[k].already
        PROVE  InHand(g)'
    BY <2>1, <2>2, <2>5 DEF Custody, Erasing, Target
  <2>6. stop'.at \in {"idle", "collect"} => stop'.todo = {}
    BY <1>39 DEF Collect, Custody, StopInv, Resting
  <2> QED BY <2>3, <2>4, <2>5, <2>6 DEF Custody
<1>40. ASSUME MarkRetired PROVE Custody'
  <2>1. job' = job /\ retiredPeers' = retiredPeers
    BY <1>40 DEF MarkRetired
  <2>2. ASSUME NEW g \in Generations, InHand(g) PROVE InHand(g)'
    BY <1>40, <2>1, <2>2
    DEF MarkRetired, InHand, Erasing, Target, Releasing, InfoInv, PeerInfo,
        Released, StopInv, Resting
  <2>3. ASSUME NEW g \in Generations PROVE Held(g)'
    BY <1>40, <2>1, <2>2
    DEF MarkRetired, Held, Custody, Keeps, Registered, Collected, InHand,
        Releasing, StopInv
  <2>4. ASSUME NEW g \in Generations, info'[g].retired PROVE InHand(g)'
    BY <1>40, <2>2, <2>4
    DEF MarkRetired, Custody, InHand, Releasing, InfoInv, PeerInfo, Released,
        StopInv
  <2>5. ASSUME NEW g \in Generations, NEW k \in Threads, Erasing(k, g)', job'[k].already
        PROVE  InHand(g)'
    BY <2>1, <2>2, <2>5 DEF Custody, Erasing, Target
  <2>6. stop'.at \in {"idle", "collect"} => stop'.todo = {}
    BY <1>40 DEF MarkRetired, Custody, StopInv, Resting
  <2> QED BY <2>3, <2>4, <2>5, <2>6 DEF Custody
<1>41. ASSUME ReleaseOne PROVE Custody'
  <2>1. job' = job /\ retiredPeers' = retiredPeers
    BY <1>41 DEF ReleaseOne
  <2>2. ASSUME NEW g \in Generations, InHand(g) PROVE InHand(g)'
    <3>1. info' = Released({stop.peer}) /\ stop.peer \in Generations
      BY <1>41 DEF ReleaseOne, StopInv
    <3>2. CASE g = stop.peer
      <4>1. info'[g].conn = "released"
        BY <3>1, <3>2, ReleasedDoes
      <4> QED BY <4>1 DEF InHand
    <3>3. CASE g # stop.peer
      <4>1. info'[g] = info[g]
        BY <3>1, <3>3, ReleasedDoes
      <4>2. \A t \in Threads : Erasing(t, g) => Erasing(t, g)'
        BY <2>1 DEF Erasing, Target
      <4> QED BY <2>1, <2>2, <3>3, <4>1, <4>2 DEF InHand, Releasing
    <3> QED BY <3>2, <3>3
  <2>3. ASSUME NEW g \in Generations PROVE Held(g)'
    <3>1. /\ Registered(g) => Registered(g)'
          /\ stop'.todo = stop.todo
          /\ \A k \in Threads : Keeps(k, g) => Keeps(k, g)'
      BY <1>41, <2>1 DEF ReleaseOne, Registered, Keeps, StopInv
    <3> QED BY <2>2, <3>1 DEF Held, Custody
  <2>4. ASSUME NEW g \in Generations, info'[g].retired PROVE InHand(g)'
    <3>1. info' = Released({stop.peer}) /\ stop.peer \in Generations
      BY <1>41 DEF ReleaseOne, StopInv
    <3>2. CASE g = stop.peer
      <4>1. info'[g].conn = "released"
        BY <3>1, <3>2, ReleasedDoes
      <4> QED BY <4>1 DEF InHand
    <3>3. CASE g # stop.peer
      <4>1. info'[g] = info[g]
        BY <3>1, <3>3, ReleasedDoes
      <4> QED BY <2>2, <2>4, <4>1 DEF Custody
    <3> QED BY <3>2, <3>3
  <2>5. ASSUME NEW g \in Generations, NEW k \in Threads, Erasing(k, g)', job'[k].already
        PROVE  InHand(g)'
    BY <2>1, <2>2, <2>5 DEF Custody, Erasing, Target
  <2>6. stop'.at \in {"idle", "collect"} => stop'.todo = {}
    BY <1>41 DEF ReleaseOne, Custody, StopInv, Resting
  <2> QED BY <2>3, <2>4, <2>5, <2>6 DEF Custody
<1>42. ASSUME FinishStop PROVE Custody'
  <2>1. PICK aged \in SUBSET retiredPeers :
           retiredPeers' = retiredPeers \ aged /\ info' = Released(aged)
    BY <1>42 DEF FinishStop
  <2>2. \A g \in Generations : ~Releasing(g) \/ Releasing(g)'
    BY <1>42 DEF FinishStop, Releasing
  <2>3. job' = job /\ peers' = peers /\ stop'.todo = stop.todo
    BY <1>42 DEF FinishStop, Resting
  <2>4. stop'.at \in {"idle", "collect"} => stop.todo = {}
    BY <1>42 DEF FinishStop, Custody, Resting
  <2> QED BY <2>1, <2>2, <2>3, <2>4, CustodyAged
<1>43. CASE UNCHANGED vars
  BY <1>43 DEF vars, Custody, Held, InHand, Keeps, Erasing, Target, Releasing,
     Registered
<1> QED
  BY <1>1, <1>2, <1>3, <1>4, <1>5, <1>6, <1>7, <1>8, <1>9, <1>10, <1>11,
     <1>12, <1>13, <1>14, <1>15, <1>16, <1>17, <1>18, <1>19, <1>20, <1>21,
     <1>22, <1>23, <1>24, <1>25, <1>26, <1>27, <1>28, <1>29, <1>30, <1>31,
     <1>32, <1>33, <1>34, <1>35, <1>36, <1>37, <1>38, <1>39, <1>40, <1>41,
     <1>42, <1>43 DEF Next, Request, Restart, Leaving, Callback, Retire,
     Control
------------------------------------------------------------------------------
\* A handler is not the thread of a connection.
LEMMA HandlersApart == Handlers \cap Generations = {}
BY RegistryAssumption DEF Generations

\* Releasing peers reports nothing and takes no mark away.
LEMMA ReleasedFields ==
  ASSUME InfoInv, NEW S, NEW g \in Generations
  PROVE  /\ Released(S)[g].report = info[g].report
         /\ info[g].retired => Released(S)[g].retired
BY DEF Released, InfoInv, PeerInfo

\* No step makes the thread of a connection work on another peer.
LEMMA OwnThreadStep ==
  ASSUME TypeInv, OwnThread, [Next]_vars
  PROVE  OwnThread'
<1> USE DEF TypeInv, OthersRest
<1>1. ASSUME NEW h \in Handlers, OfferRequest(h) PROVE OwnThread'
  <2>1. OthersRest(h)
    BY <1>1, Threaded DEF OfferRequest, Go, Leave, JobInv
  <2> QED BY <2>1, HandlersApart, Threaded DEF OwnThread
<1>2. ASSUME NEW h \in Handlers, LookupNobody(h) PROVE OwnThread'
  <2>1. OthersRest(h)
    BY <1>2, Threaded DEF LookupNobody, Go, Leave, JobInv
  <2> QED BY <2>1, HandlersApart, Threaded DEF OwnThread
<1>3. ASSUME NEW h \in Handlers, LookupStale(h) PROVE OwnThread'
  <2>1. OthersRest(h)
    BY <1>3, Threaded DEF LookupStale, Go, Leave, JobInv
  <2> QED BY <2>1, HandlersApart, Threaded DEF OwnThread
<1>4. ASSUME NEW h \in Handlers, LookupPeer(h) PROVE OwnThread'
  <2>1. OthersRest(h)
    BY <1>4, Threaded DEF LookupPeer, Go, Leave, JobInv
  <2> QED BY <2>1, HandlersApart, Threaded DEF OwnThread
<1>5. ASSUME NEW h \in Handlers, Admit(h) PROVE OwnThread'
  <2>1. OthersRest(h)
    BY <1>5, Threaded DEF Admit, Go, Leave, JobInv
  <2> QED BY <2>1, HandlersApart, Threaded DEF OwnThread
<1>6. ASSUME NEW h \in Handlers, Create(h) PROVE OwnThread'
  <2>1. OthersRest(h)
    BY <1>6, Threaded
    DEF Create, Go, Leave, JobInv, Construct, ConstructThrows
  <2> QED BY <2>1, HandlersApart, Threaded DEF OwnThread
<1>7. ASSUME NEW h \in Handlers, Register(h) PROVE OwnThread'
  <2>1. OthersRest(h)
    BY <1>7, Threaded DEF Register, Go, Leave, JobInv
  <2> QED BY <2>1, HandlersApart, Threaded DEF OwnThread
<1>8. ASSUME NEW h \in Handlers, RegisterConcurrent(h) PROVE OwnThread'
  <2>1. OthersRest(h)
    BY <1>8, Threaded DEF RegisterConcurrent, Go, Leave, JobInv
  <2> QED BY <2>1, HandlersApart, Threaded DEF OwnThread
<1>9. ASSUME NEW h \in Handlers, Claim(h) PROVE OwnThread'
  <2>1. OthersRest(h)
    BY <1>9, Threaded DEF Claim, Go, Leave, JobInv
  <2> QED BY <2>1, HandlersApart, Threaded DEF OwnThread
<1>10. ASSUME NEW h \in Handlers, Resend(h) PROVE OwnThread'
  <2>1. OthersRest(h)
    BY <1>10, Threaded DEF Resend, Go, Leave, JobInv
  <2> QED BY <2>1, HandlersApart, Threaded DEF OwnThread
<1>11. ASSUME NEW h \in Handlers, Describe(h) PROVE OwnThread'
  <2>1. OthersRest(h)
    BY <1>11, Threaded DEF Describe, Go, Leave, JobInv
  <2> QED BY <2>1, HandlersApart, Threaded DEF OwnThread
<1>12. ASSUME NEW h \in Handlers, SendCached(h) PROVE OwnThread'
  <2>1. OthersRest(h)
    BY <1>12, Threaded DEF SendCached, Go, Leave, JobInv
  <2> QED BY <2>1, HandlersApart, Threaded DEF OwnThread
<1>13. ASSUME NEW h \in Handlers, SetLocalDescription(h) PROVE OwnThread'
  <2>1. OthersRest(h)
    BY <1>13, Threaded DEF SetLocalDescription, Go, Leave, JobInv
  <2> QED BY <2>1, HandlersApart, Threaded DEF OwnThread
<1>14. ASSUME NEW h \in Handlers, Answer(h) PROVE OwnThread'
  <2>1. OthersRest(h)
    BY <1>14, Threaded DEF Answer, Go, Leave, JobInv
  <2> QED BY <2>1, HandlersApart, Threaded DEF OwnThread
<1>15. ASSUME NEW h \in Handlers, SetRemoteDescription(h) PROVE OwnThread'
  <2>1. OthersRest(h)
    BY <1>15, Threaded DEF SetRemoteDescription, Go, Leave, JobInv
  <2> QED BY <2>1, HandlersApart, Threaded DEF OwnThread
<1>16. ASSUME NEW h \in Handlers, IceRestart(h) PROVE OwnThread'
  <2>1. OthersRest(h)
    BY <1>16, Threaded DEF IceRestart, Go, Leave, JobInv
  <2> QED BY <2>1, HandlersApart, Threaded DEF OwnThread
<1>17. ASSUME NEW h \in Handlers, RestartPeer(h) PROVE OwnThread'
  <2>1. OthersRest(h)
    BY <1>17, Threaded DEF RestartPeer, Go, Leave, JobInv
  <2> QED BY <2>1, HandlersApart, Threaded DEF OwnThread
<1>18. ASSUME NEW h \in Handlers, Rebuild(h) PROVE OwnThread'
  <2>1. OthersRest(h)
    BY <1>18, Threaded
    DEF Rebuild, Go, Leave, JobInv, Construct, ConstructThrows
  <2> QED BY <2>1, HandlersApart, Threaded DEF OwnThread
<1>19. ASSUME NEW h \in Handlers, Recheck(h) PROVE OwnThread'
  <2>1. OthersRest(h)
    BY <1>19, Threaded DEF Recheck, Go, Leave, JobInv
  <2> QED BY <2>1, HandlersApart, Threaded DEF OwnThread
<1>20. ASSUME NEW h \in Handlers, Swap(h) PROVE OwnThread'
  <2>1. OthersRest(h)
    BY <1>20, Threaded DEF Swap, Go, Leave, JobInv
  <2> QED BY <2>1, HandlersApart, Threaded DEF OwnThread
<1>21. ASSUME NEW h \in Handlers, Superseded(h) PROVE OwnThread'
  <2>1. OthersRest(h)
    BY <1>21, Threaded DEF Superseded, Go, Leave, JobInv
  <2> QED BY <2>1, HandlersApart, Threaded DEF OwnThread
<1>22. ASSUME NEW h \in Handlers, RestartOffer(h) PROVE OwnThread'
  <2>1. OthersRest(h)
    BY <1>22, Threaded DEF RestartOffer, Go, Leave, JobInv
  <2> QED BY <2>1, HandlersApart, Threaded DEF OwnThread
<1>23. ASSUME NEW h \in Handlers, SendFresh(h) PROVE OwnThread'
  <2>1. OthersRest(h)
    BY <1>23, Threaded DEF SendFresh, Go, Leave, JobInv
  <2> QED BY <2>1, HandlersApart, Threaded DEF OwnThread
<1>24. ASSUME NEW h \in Handlers, DescribeFresh(h) PROVE OwnThread'
  <2>1. OthersRest(h)
    BY <1>24, Threaded DEF DescribeFresh, Go, Leave, JobInv
  <2> QED BY <2>1, HandlersApart, Threaded DEF OwnThread
<1>25. ASSUME NEW h \in Handlers, Rollback(h) PROVE OwnThread'
  <2>1. OthersRest(h)
    BY <1>25, Threaded DEF Rollback, Go, Leave, JobInv
  <2> QED BY <2>1, HandlersApart, Threaded DEF OwnThread
<1>26. ASSUME NEW h \in Handlers, Restore(h) PROVE OwnThread'
  <2>1. OthersRest(h)
    BY <1>26, Threaded DEF Restore, Go, Leave, JobInv
  <2> QED BY <2>1, HandlersApart, Threaded DEF OwnThread
<1>27. ASSUME NEW h \in Handlers, Disconnect(h) PROVE OwnThread'
  <2>1. OthersRest(h)
    BY <1>27, Threaded DEF Disconnect, Go, Leave, JobInv
  <2> QED BY <2>1, HandlersApart, Threaded DEF OwnThread
<1>28. ASSUME NEW h \in Handlers, Close(h) PROVE OwnThread'
  <2>1. OthersRest(h)
    BY <1>28, Threaded DEF Close, Go, Leave, JobInv
  <2> QED BY <2>1, HandlersApart, Threaded DEF OwnThread
<1>29. ASSUME NEW g \in Generations, StateChange(g) PROVE OwnThread'
  BY <1>29, Threaded
  DEF OwnThread, StateChange, At, Quiet, Go, Leave, Idle, JobInv, Jobs
<1>30. ASSUME NEW g \in Generations, Connected(g) PROVE OwnThread'
  BY <1>30, Threaded
  DEF OwnThread, Connected, At, Quiet, Go, Leave, Idle, JobInv, Jobs
<1>31. ASSUME NEW g \in Generations, Disconnected(g) PROVE OwnThread'
  BY <1>31, Threaded
  DEF OwnThread, Disconnected, At, Quiet, Go, Leave, Idle, JobInv, Jobs
<1>32. ASSUME NEW g \in Generations, DispatchDisconnected(g) PROVE OwnThread'
  BY <1>32, Threaded
  DEF OwnThread, DispatchDisconnected, At, Quiet, Go, Leave, Idle, JobInv,
      Jobs
<1>33. ASSUME NEW g \in Generations, LocalDescription(g) PROVE OwnThread'
  BY <1>33, Threaded
  DEF OwnThread, LocalDescription, At, Quiet, Go, Leave, Idle, JobInv, Jobs
<1>34. ASSUME NEW g \in Generations, SendLocal(g) PROVE OwnThread'
  BY <1>34, Threaded
  DEF OwnThread, SendLocal, At, Quiet, Go, Leave, Idle, JobInv, Jobs
<1>35. ASSUME NEW t \in Threads, BeginRetire(t) PROVE OwnThread'
  BY <1>35, Threaded
  DEF OwnThread, BeginRetire, At, Quiet, Go, Leave, Idle, JobInv, Jobs
<1>36. ASSUME NEW t \in Threads, FinishRetire(t) PROVE OwnThread'
  BY <1>36, Threaded
  DEF OwnThread, FinishRetire, At, Quiet, Go, Leave, Idle, JobInv, Jobs
<1>37. ASSUME StartPublishing PROVE OwnThread'
  BY <1>37 DEF OwnThread, StartPublishing
<1>38. ASSUME StopPublishing PROVE OwnThread'
  BY <1>38 DEF OwnThread, StopPublishing
<1>39. ASSUME Collect PROVE OwnThread'
  BY <1>39 DEF OwnThread, Collect
<1>40. ASSUME MarkRetired PROVE OwnThread'
  BY <1>40 DEF OwnThread, MarkRetired
<1>41. ASSUME ReleaseOne PROVE OwnThread'
  BY <1>41 DEF OwnThread, ReleaseOne
<1>42. ASSUME FinishStop PROVE OwnThread'
  BY <1>42 DEF OwnThread, FinishStop
<1>43. CASE UNCHANGED vars
  BY <1>43 DEF vars, OwnThread
<1> QED
  BY <1>1, <1>2, <1>3, <1>4, <1>5, <1>6, <1>7, <1>8, <1>9, <1>10, <1>11,
     <1>12, <1>13, <1>14, <1>15, <1>16, <1>17, <1>18, <1>19, <1>20, <1>21,
     <1>22, <1>23, <1>24, <1>25, <1>26, <1>27, <1>28, <1>29, <1>30, <1>31,
     <1>32, <1>33, <1>34, <1>35, <1>36, <1>37, <1>38, <1>39, <1>40, <1>41,
     <1>42, <1>43 DEF Next, Request, Restart, Leaving, Callback, Retire,
     Control

\* No thread that RTC calls a peer's callbacks on does anything; no peer is made,
\* reports or is marked.
WorkRests == \A k \in Generations : job'[k] = job[k]
ReportsRest ==
  /\ generation' = generation
  /\ \A k \in Generations : /\ info'[k].report = info[k].report
                            /\ info'[k].retired = info[k].retired

\* No step lets a peer that was reported as disconnected report again.
LEMMA ToldStep ==
  ASSUME TypeInv, Created, OwnThread, Told, [Next]_vars
  PROVE  Told'
<1> USE DEF TypeInv, WorkRests, ReportsRest
<1>1. ASSUME NEW h \in Handlers, OfferRequest(h) PROVE Told'
  <2>1. WorkRests
    BY <1>1, Threaded, HandlersApart DEF OfferRequest, Go, Leave, JobInv
  <2>2. ReportsRest
    BY <1>1
    DEF OfferRequest, InfoInv, PeerInfo, Offered, Unclaimed, Described,
        Closed, manager
  <2> QED BY <2>1, <2>2 DEF Told
<1>2. ASSUME NEW h \in Handlers, LookupNobody(h) PROVE Told'
  <2>1. WorkRests
    BY <1>2, Threaded, HandlersApart DEF LookupNobody, Go, Leave, JobInv
  <2>2. ReportsRest
    BY <1>2
    DEF LookupNobody, InfoInv, PeerInfo, Offered, Unclaimed, Described,
        Closed, manager
  <2> QED BY <2>1, <2>2 DEF Told
<1>3. ASSUME NEW h \in Handlers, LookupStale(h) PROVE Told'
  <2>1. WorkRests
    BY <1>3, Threaded, HandlersApart DEF LookupStale, Go, Leave, JobInv
  <2>2. ReportsRest
    BY <1>3
    DEF LookupStale, InfoInv, PeerInfo, Offered, Unclaimed, Described, Closed,
        manager
  <2> QED BY <2>1, <2>2 DEF Told
<1>4. ASSUME NEW h \in Handlers, LookupPeer(h) PROVE Told'
  <2>1. WorkRests
    BY <1>4, Threaded, HandlersApart DEF LookupPeer, Go, Leave, JobInv
  <2>2. ReportsRest
    BY <1>4
    DEF LookupPeer, InfoInv, PeerInfo, Offered, Unclaimed, Described, Closed,
        manager
  <2> QED BY <2>1, <2>2 DEF Told
<1>5. ASSUME NEW h \in Handlers, Admit(h) PROVE Told'
  <2>1. WorkRests
    BY <1>5, Threaded, HandlersApart DEF Admit, Go, Leave, JobInv
  <2>2. ReportsRest
    BY <1>5
    DEF Admit, InfoInv, PeerInfo, Offered, Unclaimed, Described, Closed,
        manager
  <2> QED BY <2>1, <2>2 DEF Told
<1>6. ASSUME NEW h \in Handlers, Create(h) PROVE Told'
  <2>1. WorkRests
    BY <1>6, Threaded, HandlersApart
    DEF Create, Construct, ConstructThrows, Leave, JobInv
  <2>2. generation \in Generations /\ generation' = generation + 1 /\ generation \in Int
    BY <1>6 DEF Create, Construct, ConstructThrows, RestInv, Generations
  <2>3. \A k \in Generations \ {generation} :
          /\ info'[k].report = info[k].report
          /\ info[k].retired => info'[k].retired
    <3>1. CASE Construct(h, "register")
      <4>1. PICK aged \in SUBSET retiredPeers, s \in Sessions :
               info' = [Released(aged) EXCEPT ![generation] = NewPeer(job[h].uuid, s)]
        BY <3>1 DEF Construct
      <4>2. \A k \in Generations \ {generation} : info'[k] = Released(aged)[k]
        BY <2>2, <4>1 DEF Released
      <4> QED BY <4>2, ReleasedFields
    <3>2. CASE ConstructThrows(h)
      <4>1. PICK aged : info' = [Released(aged) EXCEPT ![generation].retired = TRUE,
                                                      ![generation].conn = "released"]
        BY <3>2 DEF ConstructThrows
      <4>2. \A k \in Generations \ {generation} : info'[k] = Released(aged)[k]
        BY <2>2, <4>1 DEF Released
      <4> QED BY <4>2, ReleasedFields
    <3> QED BY <1>6, <3>1, <3>2 DEF Create
  <2>4. info'[generation].report # "disconnected"
    <3>1. CASE Construct(h, "register")
      BY <2>2, <3>1 DEF Construct, NewPeer, Uncreated, Released
    <3>2. CASE ConstructThrows(h)
      <4>1. PICK aged : info' = [Released(aged) EXCEPT ![generation].retired = TRUE,
                                                      ![generation].conn = "released"]
        BY <3>2 DEF ConstructThrows
      <4> DEFINE F == [Released(aged) EXCEPT ![generation].retired = TRUE]
      <4>0. Released(aged) \in [Generations -> PeerInfo]
        BY ReleasedType
      <4>2. F \in [Generations -> PeerInfo]
        BY <4>0 DEF PeerInfo
      <4>3. F[generation].report = Released(aged)[generation].report
        BY <2>2, <4>0 DEF PeerInfo
      <4>4. info'[generation].report = F[generation].report
        <5>1. info' = [F EXCEPT ![generation].conn = "released"]
          BY <4>1
        <5> HIDE DEF F
        <5> QED BY <2>2, <4>2, <5>1 DEF PeerInfo
      <4>5. info[generation].report # "disconnected"
        BY <2>2 DEF Told
      <4> QED BY <2>2, <4>3, <4>4, <4>5, ReleasedFields
    <3> QED BY <1>6, <3>1, <3>2 DEF Create
  <2> QED BY <2>1, <2>2, <2>3, <2>4 DEF Told, Generations
<1>7. ASSUME NEW h \in Handlers, Register(h) PROVE Told'
  <2>1. WorkRests
    BY <1>7, Threaded, HandlersApart DEF Register, Go, Leave, JobInv
  <2>2. ReportsRest
    BY <1>7
    DEF Register, InfoInv, PeerInfo, Offered, Unclaimed, Described, Closed,
        manager
  <2> QED BY <2>1, <2>2 DEF Told
<1>8. ASSUME NEW h \in Handlers, RegisterConcurrent(h) PROVE Told'
  <2>1. WorkRests
    BY <1>8, Threaded, HandlersApart DEF RegisterConcurrent, Go, Leave, JobInv
  <2>2. ReportsRest
    BY <1>8
    DEF RegisterConcurrent, InfoInv, PeerInfo, Offered, Unclaimed, Described,
        Closed, manager
  <2> QED BY <2>1, <2>2 DEF Told
<1>9. ASSUME NEW h \in Handlers, Claim(h) PROVE Told'
  <2>1. WorkRests
    BY <1>9, Threaded, HandlersApart DEF Claim, Go, Leave, JobInv
  <2>2. ReportsRest
    BY <1>9
    DEF Claim, InfoInv, PeerInfo, Offered, Unclaimed, Described, Closed,
        manager
  <2> QED BY <2>1, <2>2 DEF Told
<1>10. ASSUME NEW h \in Handlers, Resend(h) PROVE Told'
  <2>1. WorkRests
    BY <1>10, Threaded, HandlersApart DEF Resend, Go, Leave, JobInv
  <2>2. ReportsRest
    BY <1>10
    DEF Resend, InfoInv, PeerInfo, Offered, Unclaimed, Described, Closed,
        manager
  <2> QED BY <2>1, <2>2 DEF Told
<1>11. ASSUME NEW h \in Handlers, Describe(h) PROVE Told'
  <2>1. WorkRests
    BY <1>11, Threaded, HandlersApart DEF Describe, Go, Leave, JobInv
  <2>2. ReportsRest
    BY <1>11
    DEF Describe, InfoInv, PeerInfo, Offered, Unclaimed, Described, Closed,
        manager
  <2> QED BY <2>1, <2>2 DEF Told
<1>12. ASSUME NEW h \in Handlers, SendCached(h) PROVE Told'
  <2>1. WorkRests
    BY <1>12, Threaded, HandlersApart DEF SendCached, Go, Leave, JobInv
  <2>2. ReportsRest
    BY <1>12
    DEF SendCached, InfoInv, PeerInfo, Offered, Unclaimed, Described, Closed,
        manager
  <2> QED BY <2>1, <2>2 DEF Told
<1>13. ASSUME NEW h \in Handlers, SetLocalDescription(h) PROVE Told'
  <2>1. WorkRests
    BY <1>13, Threaded, HandlersApart
    DEF SetLocalDescription, Go, Leave, JobInv
  <2>2. ReportsRest
    BY <1>13
    DEF SetLocalDescription, InfoInv, PeerInfo, Offered, Unclaimed, Described,
        Closed, manager
  <2> QED BY <2>1, <2>2 DEF Told
<1>14. ASSUME NEW h \in Handlers, Answer(h) PROVE Told'
  <2>1. WorkRests
    BY <1>14, Threaded, HandlersApart DEF Answer, Go, Leave, JobInv
  <2>2. ReportsRest
    BY <1>14
    DEF Answer, InfoInv, PeerInfo, Offered, Unclaimed, Described, Closed,
        manager
  <2> QED BY <2>1, <2>2 DEF Told
<1>15. ASSUME NEW h \in Handlers, SetRemoteDescription(h) PROVE Told'
  <2>1. WorkRests
    BY <1>15, Threaded, HandlersApart
    DEF SetRemoteDescription, Go, Leave, JobInv
  <2>2. ReportsRest
    BY <1>15
    DEF SetRemoteDescription, InfoInv, PeerInfo, Offered, Unclaimed,
        Described, Closed, manager
  <2> QED BY <2>1, <2>2 DEF Told
<1>16. ASSUME NEW h \in Handlers, IceRestart(h) PROVE Told'
  <2>1. WorkRests
    BY <1>16, Threaded, HandlersApart DEF IceRestart, Go, Leave, JobInv
  <2>2. ReportsRest
    BY <1>16
    DEF IceRestart, InfoInv, PeerInfo, Offered, Unclaimed, Described, Closed,
        manager
  <2> QED BY <2>1, <2>2 DEF Told
<1>17. ASSUME NEW h \in Handlers, RestartPeer(h) PROVE Told'
  <2>1. WorkRests
    BY <1>17, Threaded, HandlersApart DEF RestartPeer, Go, Leave, JobInv
  <2>2. ReportsRest
    BY <1>17
    DEF RestartPeer, InfoInv, PeerInfo, Offered, Unclaimed, Described, Closed,
        manager
  <2> QED BY <2>1, <2>2 DEF Told
<1>18. ASSUME NEW h \in Handlers, Rebuild(h) PROVE Told'
  <2>1. WorkRests
    BY <1>18, Threaded, HandlersApart
    DEF Rebuild, Construct, ConstructThrows, Leave, JobInv
  <2>2. generation \in Generations /\ generation' = generation + 1 /\ generation \in Int
    BY <1>18 DEF Rebuild, Construct, ConstructThrows, RestInv, Generations
  <2>3. \A k \in Generations \ {generation} :
          /\ info'[k].report = info[k].report
          /\ info[k].retired => info'[k].retired
    <3>1. CASE Construct(h, "recheck")
      <4>1. PICK aged \in SUBSET retiredPeers, s \in Sessions :
               info' = [Released(aged) EXCEPT ![generation] = NewPeer(job[h].uuid, s)]
        BY <3>1 DEF Construct
      <4>2. \A k \in Generations \ {generation} : info'[k] = Released(aged)[k]
        BY <2>2, <4>1 DEF Released
      <4> QED BY <4>2, ReleasedFields
    <3>2. CASE ConstructThrows(h)
      <4>1. PICK aged : info' = [Released(aged) EXCEPT ![generation].retired = TRUE,
                                                      ![generation].conn = "released"]
        BY <3>2 DEF ConstructThrows
      <4>2. \A k \in Generations \ {generation} : info'[k] = Released(aged)[k]
        BY <2>2, <4>1 DEF Released
      <4> QED BY <4>2, ReleasedFields
    <3> QED BY <1>18, <3>1, <3>2 DEF Rebuild
  <2>4. info'[generation].report # "disconnected"
    <3>1. CASE Construct(h, "recheck")
      BY <2>2, <3>1 DEF Construct, NewPeer, Uncreated, Released
    <3>2. CASE ConstructThrows(h)
      <4>1. PICK aged : info' = [Released(aged) EXCEPT ![generation].retired = TRUE,
                                                      ![generation].conn = "released"]
        BY <3>2 DEF ConstructThrows
      <4> DEFINE F == [Released(aged) EXCEPT ![generation].retired = TRUE]
      <4>0. Released(aged) \in [Generations -> PeerInfo]
        BY ReleasedType
      <4>2. F \in [Generations -> PeerInfo]
        BY <4>0 DEF PeerInfo
      <4>3. F[generation].report = Released(aged)[generation].report
        BY <2>2, <4>0 DEF PeerInfo
      <4>4. info'[generation].report = F[generation].report
        <5>1. info' = [F EXCEPT ![generation].conn = "released"]
          BY <4>1
        <5> HIDE DEF F
        <5> QED BY <2>2, <4>2, <5>1 DEF PeerInfo
      <4>5. info[generation].report # "disconnected"
        BY <2>2 DEF Told
      <4> QED BY <2>2, <4>3, <4>4, <4>5, ReleasedFields
    <3> QED BY <1>18, <3>1, <3>2 DEF Rebuild
  <2> QED BY <2>1, <2>2, <2>3, <2>4 DEF Told, Generations
<1>19. ASSUME NEW h \in Handlers, Recheck(h) PROVE Told'
  <2>1. WorkRests
    BY <1>19, Threaded, HandlersApart DEF Recheck, Go, Leave, JobInv
  <2>2. ReportsRest
    BY <1>19
    DEF Recheck, InfoInv, PeerInfo, Offered, Unclaimed, Described, Closed,
        manager
  <2> QED BY <2>1, <2>2 DEF Told
<1>20. ASSUME NEW h \in Handlers, Swap(h) PROVE Told'
  <2>1. WorkRests
    BY <1>20, Threaded, HandlersApart DEF Swap, Go, Leave, JobInv
  <2>2. ReportsRest
    BY <1>20
    DEF Swap, InfoInv, PeerInfo, Offered, Unclaimed, Described, Closed,
        manager
  <2> QED BY <2>1, <2>2 DEF Told
<1>21. ASSUME NEW h \in Handlers, Superseded(h) PROVE Told'
  <2>1. WorkRests
    BY <1>21, Threaded, HandlersApart DEF Superseded, Go, Leave, JobInv
  <2>2. ReportsRest
    BY <1>21
    DEF Superseded, InfoInv, PeerInfo, Offered, Unclaimed, Described, Closed,
        manager
  <2> QED BY <2>1, <2>2 DEF Told
<1>22. ASSUME NEW h \in Handlers, RestartOffer(h) PROVE Told'
  <2>1. WorkRests
    BY <1>22, Threaded, HandlersApart DEF RestartOffer, Go, Leave, JobInv
  <2>2. ReportsRest
    BY <1>22
    DEF RestartOffer, InfoInv, PeerInfo, Offered, Unclaimed, Described,
        Closed, manager
  <2> QED BY <2>1, <2>2 DEF Told
<1>23. ASSUME NEW h \in Handlers, SendFresh(h) PROVE Told'
  <2>1. WorkRests
    BY <1>23, Threaded, HandlersApart DEF SendFresh, Go, Leave, JobInv
  <2>2. ReportsRest
    BY <1>23
    DEF SendFresh, InfoInv, PeerInfo, Offered, Unclaimed, Described, Closed,
        manager
  <2> QED BY <2>1, <2>2 DEF Told
<1>24. ASSUME NEW h \in Handlers, DescribeFresh(h) PROVE Told'
  <2>1. WorkRests
    BY <1>24, Threaded, HandlersApart DEF DescribeFresh, Go, Leave, JobInv
  <2>2. ReportsRest
    BY <1>24
    DEF DescribeFresh, InfoInv, PeerInfo, Offered, Unclaimed, Described,
        Closed, manager
  <2> QED BY <2>1, <2>2 DEF Told
<1>25. ASSUME NEW h \in Handlers, Rollback(h) PROVE Told'
  <2>1. WorkRests
    BY <1>25, Threaded, HandlersApart DEF Rollback, Go, Leave, JobInv
  <2>2. ReportsRest
    BY <1>25
    DEF Rollback, InfoInv, PeerInfo, Offered, Unclaimed, Described, Closed,
        manager
  <2> QED BY <2>1, <2>2 DEF Told
<1>26. ASSUME NEW h \in Handlers, Restore(h) PROVE Told'
  <2>1. WorkRests
    BY <1>26, Threaded, HandlersApart DEF Restore, Go, Leave, JobInv
  <2>2. ReportsRest
    BY <1>26
    DEF Restore, InfoInv, PeerInfo, Offered, Unclaimed, Described, Closed,
        manager
  <2> QED BY <2>1, <2>2 DEF Told
<1>27. ASSUME NEW h \in Handlers, Disconnect(h) PROVE Told'
  <2>1. WorkRests
    BY <1>27, Threaded, HandlersApart DEF Disconnect, Go, Leave, JobInv
  <2>2. ReportsRest
    BY <1>27
    DEF Disconnect, InfoInv, PeerInfo, Offered, Unclaimed, Described, Closed,
        manager
  <2> QED BY <2>1, <2>2 DEF Told
<1>28. ASSUME NEW h \in Handlers, Close(h) PROVE Told'
  <2>1. WorkRests
    BY <1>28, Threaded, HandlersApart DEF Close, Go, Leave, JobInv
  <2>2. ReportsRest
    BY <1>28
    DEF Close, InfoInv, PeerInfo, Offered, Unclaimed, Described, Closed,
        manager
  <2> QED BY <2>1, <2>2 DEF Told
<1>29. ASSUME NEW g \in Generations, StateChange(g) PROVE Told'
  <2>1. job[g].peer = g \/ job[g].at = "idle"
    BY DEF OwnThread
  <2>2. \A k \in Threads \ {g} : job'[k] = job[k]
    BY <1>29, Threaded DEF StateChange, Go, Leave, JobInv, manager
  <2>3. \A k \in Generations \ {g} : info'[k] = info[k]
    BY <1>29 DEF StateChange, InfoInv, Offered, Delivered, manager
  <2>4. generation' = generation
    BY <1>29 DEF StateChange, manager
  <2>5. info'[g].report = "disconnected" =>
          g < generation /\ (job'[g].at = "retirePeer" \/ (info'[g].retired /\ job'[g].at # "changed"))
    BY <1>29, Threaded
    DEF StateChange, At, Quiet, Go, Leave, Idle, JobInv, Jobs, InfoInv,
        PeerInfo, Told, Listens, Current, Created, Entries, Offered,
        Delivered, manager
  <2> QED BY <2>2, <2>3, <2>4, <2>5, Threaded DEF Told
<1>30. ASSUME NEW g \in Generations, Connected(g) PROVE Told'
  <2>1. job[g].peer = g \/ job[g].at = "idle"
    BY DEF OwnThread
  <2>2. \A k \in Threads \ {g} : job'[k] = job[k]
    BY <1>30, Threaded DEF Connected, Go, Leave, JobInv, manager
  <2>3. \A k \in Generations \ {g} : info'[k] = info[k]
    BY <1>30 DEF Connected, InfoInv, Offered, Delivered, manager
  <2>4. generation' = generation
    BY <1>30 DEF Connected, manager
  <2>5. info'[g].report = "disconnected" =>
          g < generation /\ (job'[g].at = "retirePeer" \/ (info'[g].retired /\ job'[g].at # "changed"))
    BY <1>30, Threaded
    DEF Connected, At, Quiet, Go, Leave, Idle, JobInv, Jobs, InfoInv,
        PeerInfo, Told, Listens, Current, Created, Entries, Offered,
        Delivered, manager
  <2> QED BY <2>2, <2>3, <2>4, <2>5, Threaded DEF Told
<1>31. ASSUME NEW g \in Generations, Disconnected(g) PROVE Told'
  <2>1. job[g].peer = g \/ job[g].at = "idle"
    BY DEF OwnThread
  <2>2. \A k \in Threads \ {g} : job'[k] = job[k]
    BY <1>31, Threaded DEF Disconnected, Go, Leave, JobInv, manager
  <2>3. \A k \in Generations \ {g} : info'[k] = info[k]
    BY <1>31 DEF Disconnected, InfoInv, Offered, Delivered, manager
  <2>4. generation' = generation
    BY <1>31 DEF Disconnected, manager
  <2>5. info'[g].report = "disconnected" =>
          g < generation /\ (job'[g].at = "retirePeer" \/ (info'[g].retired /\ job'[g].at # "changed"))
    BY <1>31, Threaded
    DEF Disconnected, At, Quiet, Go, Leave, Idle, JobInv, Jobs, InfoInv,
        PeerInfo, Told, Listens, Current, Created, Entries, Offered,
        Delivered, manager
  <2> QED BY <2>2, <2>3, <2>4, <2>5, Threaded DEF Told
<1>32. ASSUME NEW g \in Generations, DispatchDisconnected(g) PROVE Told'
  <2>1. job[g].peer = g \/ job[g].at = "idle"
    BY DEF OwnThread
  <2>2. \A k \in Threads \ {g} : job'[k] = job[k]
    BY <1>32, Threaded DEF DispatchDisconnected, Go, Leave, JobInv, manager
  <2>3. \A k \in Generations \ {g} : info'[k] = info[k]
    BY <1>32 DEF DispatchDisconnected, InfoInv, Offered, Delivered, manager
  <2>4. generation' = generation
    BY <1>32 DEF DispatchDisconnected, manager
  <2>5. /\ job[g].at = "dispatch" /\ job'[g].at = "retirePeer"
        /\ info'[g].report = "disconnected" => info[g].report = "disconnected" \/ Listens(g)
    BY <1>32, Threaded
    DEF DispatchDisconnected, At, Go, JobInv, Jobs, InfoInv, PeerInfo
  <2>6. Listens(g) => g < generation
    BY DEF Listens, Current, InfoInv, PeerInfo, Created
  <2> QED BY <2>2, <2>3, <2>4, <2>5, <2>6, Threaded DEF Told
<1>33. ASSUME NEW g \in Generations, LocalDescription(g) PROVE Told'
  <2>1. job[g].peer = g \/ job[g].at = "idle"
    BY DEF OwnThread
  <2>2. \A k \in Threads \ {g} : job'[k] = job[k]
    BY <1>33, Threaded DEF LocalDescription, Go, Leave, JobInv, manager
  <2>3. \A k \in Generations \ {g} : info'[k] = info[k]
    BY <1>33 DEF LocalDescription, InfoInv, Offered, Delivered, manager
  <2>4. generation' = generation
    BY <1>33 DEF LocalDescription, manager
  <2>5. info'[g].report = "disconnected" =>
          g < generation /\ (job'[g].at = "retirePeer" \/ (info'[g].retired /\ job'[g].at # "changed"))
    BY <1>33, Threaded
    DEF LocalDescription, At, Quiet, Go, Leave, Idle, JobInv, Jobs, InfoInv,
        PeerInfo, Told, Listens, Current, Created, Entries, Offered,
        Delivered, manager
  <2> QED BY <2>2, <2>3, <2>4, <2>5, Threaded DEF Told
<1>34. ASSUME NEW g \in Generations, SendLocal(g) PROVE Told'
  <2>1. job[g].peer = g \/ job[g].at = "idle"
    BY DEF OwnThread
  <2>2. \A k \in Threads \ {g} : job'[k] = job[k]
    BY <1>34, Threaded DEF SendLocal, Go, Leave, JobInv, manager
  <2>3. \A k \in Generations \ {g} : info'[k] = info[k]
    BY <1>34 DEF SendLocal, InfoInv, Offered, Delivered, manager
  <2>4. generation' = generation
    BY <1>34 DEF SendLocal, manager
  <2>5. info'[g].report = "disconnected" =>
          g < generation /\ (job'[g].at = "retirePeer" \/ (info'[g].retired /\ job'[g].at # "changed"))
    BY <1>34, Threaded
    DEF SendLocal, At, Quiet, Go, Leave, Idle, JobInv, Jobs, InfoInv,
        PeerInfo, Told, Listens, Current, Created, Entries, Offered,
        Delivered, manager
  <2> QED BY <2>2, <2>3, <2>4, <2>5, Threaded DEF Told
<1>35. ASSUME NEW t \in Threads, BeginRetire(t) PROVE Told'
  <2>1. PICK p \in Generations : p = Target(t)
    BY <1>35
    DEF BeginRetire, Target, JobInv, Equipped, PeerPlaces, FreshPlaces
  <2>2. \A k \in Generations :
          info'[k].report = info[k].report /\ (info[k].retired => info'[k].retired)
    BY <1>35, <2>1 DEF BeginRetire, InfoInv, PeerInfo
  <2>3. \A k \in Generations :
          t = k => job'[k].at = "erasePeer" /\ info'[k].retired
    BY <1>35, Threaded
    DEF BeginRetire, OwnThread, Target, JobInv, Jobs, InfoInv, PeerInfo
  <2>4. generation' = generation /\ \A k \in Threads \ {t} : job'[k] = job[k]
    BY <1>35 DEF BeginRetire, JobInv
  <2> QED BY <2>2, <2>3, <2>4, Threaded DEF Told
<1>36. ASSUME NEW t \in Threads, FinishRetire(t) PROVE Told'
  <2>1. \A k \in Generations :
          t = k => job[k].at = "erasePeer" /\ job'[k].at = "idle"
    BY <1>36, Threaded DEF FinishRetire, OwnThread, Leave, Idle, JobInv, Jobs
  <2>2. generation' = generation /\ info' = info /\ \A k \in Threads \ {t} : job'[k] = job[k]
    BY <1>36 DEF FinishRetire, Leave, JobInv
  <2> QED BY <2>1, <2>2, Threaded DEF Told
<1>37. ASSUME StartPublishing PROVE Told'
  <2>1. job' = job /\ generation' = generation
    BY <1>37 DEF StartPublishing
  <2>2. \A k \in Generations :
          info'[k].report = info[k].report /\ (info[k].retired => info'[k].retired)
    BY <1>37, ReleasedFields DEF StartPublishing, InfoInv, PeerInfo
  <2> QED BY <2>1, <2>2 DEF Told
<1>38. ASSUME StopPublishing PROVE Told'
  <2>1. job' = job /\ generation' = generation
    BY <1>38 DEF StopPublishing
  <2>2. \A k \in Generations :
          info'[k].report = info[k].report /\ (info[k].retired => info'[k].retired)
    BY <1>38, ReleasedFields DEF StopPublishing, InfoInv, PeerInfo
  <2> QED BY <2>1, <2>2 DEF Told
<1>39. ASSUME Collect PROVE Told'
  <2>1. job' = job /\ generation' = generation
    BY <1>39 DEF Collect
  <2>2. \A k \in Generations :
          info'[k].report = info[k].report /\ (info[k].retired => info'[k].retired)
    BY <1>39, ReleasedFields DEF Collect, InfoInv, PeerInfo
  <2> QED BY <2>1, <2>2 DEF Told
<1>40. ASSUME MarkRetired PROVE Told'
  <2>1. job' = job /\ generation' = generation
    BY <1>40 DEF MarkRetired
  <2>2. \A k \in Generations :
          info'[k].report = info[k].report /\ (info[k].retired => info'[k].retired)
    BY <1>40, ReleasedFields DEF MarkRetired, InfoInv, PeerInfo
  <2> QED BY <2>1, <2>2 DEF Told
<1>41. ASSUME ReleaseOne PROVE Told'
  <2>1. job' = job /\ generation' = generation
    BY <1>41 DEF ReleaseOne
  <2>2. \A k \in Generations :
          info'[k].report = info[k].report /\ (info[k].retired => info'[k].retired)
    BY <1>41, ReleasedFields DEF ReleaseOne, InfoInv, PeerInfo
  <2> QED BY <2>1, <2>2 DEF Told
<1>42. ASSUME FinishStop PROVE Told'
  <2>1. job' = job /\ generation' = generation
    BY <1>42 DEF FinishStop
  <2>2. \A k \in Generations :
          info'[k].report = info[k].report /\ (info[k].retired => info'[k].retired)
    BY <1>42, ReleasedFields DEF FinishStop, InfoInv, PeerInfo
  <2> QED BY <2>1, <2>2 DEF Told
<1>43. CASE UNCHANGED vars
  BY <1>43 DEF vars, Told
<1> QED
  BY <1>1, <1>2, <1>3, <1>4, <1>5, <1>6, <1>7, <1>8, <1>9, <1>10, <1>11,
     <1>12, <1>13, <1>14, <1>15, <1>16, <1>17, <1>18, <1>19, <1>20, <1>21,
     <1>22, <1>23, <1>24, <1>25, <1>26, <1>27, <1>28, <1>29, <1>30, <1>31,
     <1>32, <1>33, <1>34, <1>35, <1>36, <1>37, <1>38, <1>39, <1>40, <1>41,
     <1>42, <1>43 DEF Next, Request, Restart, Leaving, Callback, Retire,
     Control
------------------------------------------------------------------------------
\* No callback takes the mark off a peer that a thread has begun to retire.
MarksStay ==
  \A g \in Generations : info[g].retired => info'[g].retired

\* Only the thread knows the connection it made.
Private(t, g) == job[t].at \in {"register", "recheck", "swap"} /\ job[t].fresh = g

\* The thread may yet put the peer into the registry.
Mine(t, g) ==
  \/ Private(t, g)
  \/ job[t].at \in {"offer", "sendFresh", "describeFresh", "rollback", "restore"}
       /\ job[t].peer = g

\* The thread may yet retire the peer.
Touches(t, g) ==
  \/ job[t].peer = g /\ job[t].at \in
       {"offer", "sendFresh", "describeFresh", "rollback", "restore", "close",
        "changed", "dispatch", "retirePeer", "erasePeer"}
  \/ job[t].fresh = g /\ job[t].at \in
       {"register", "recheck", "swap", "offer", "sendFresh", "describeFresh",
        "rollback", "restore", "retireFresh", "eraseFresh"}
  \/ job[t].peer = g /\ job[t].next = "retirePeer"

Closing(t, g) == At(t, "close") /\ job[t].peer = g

\* The peer left the registry for good and is not marked yet.
Withdrawn(g) ==
  \/ info[g].conn = "closed" \/ g \in stop.todo
  \/ \E t \in Threads : Closing(t, g)

Discarded(g) ==
  \/ g \in retiredPeers \/ Releasing(g) \/ info[g].conn = "released"
  \/ \E t \in Threads : Erasing(t, g)

OpenInv ==
  \A g \in Generations :
    /\ Discarded(g) => info[g].retired
    /\ Registered(g) =>
         g \notin retiredPeers /\ ~Releasing(g) /\ info[g].conn # "released"
    /\ Withdrawn(g) => ~Registered(g) /\ \A t \in Threads : ~Mine(t, g)
    /\ \A t \in Threads : Mine(t, g) =>
         ~Registered(g) /\ \A k \in Threads : Mine(k, g) => k = t
    /\ \A t \in Threads : Private(t, g) =>
         ~info[g].retired /\ \A k \in Threads : Touches(k, g) => k = t

\* A step of one thread that retires nobody and enters into the registry only
\* what is its own.
LEMMA OpenKept ==
  ASSUME OpenInv, NEW t \in Threads,
         \A k \in Threads \ {t} : job'[k] = job[k],
         retiredPeers' = retiredPeers, stop' = stop,
         \A g \in Generations :
           /\ info'[g].retired = info[g].retired
           /\ info'[g].conn # info[g].conn => info'[g].conn = "closed" /\ Closing(t, g)
           /\ Registered(g)' => Registered(g) \/ (Mine(t, g) /\ ~info[g].retired)
           /\ Private(t, g)' => Private(t, g)
           /\ Mine(t, g)' => (Mine(t, g) \/ Registered(g)) /\ ~Registered(g)'
           /\ Touches(t, g)' => Touches(t, g) \/ Registered(g)
           /\ Erasing(t, g)' => Erasing(t, g)
           /\ Closing(t, g)' => Closing(t, g) \/ (Registered(g) /\ ~Registered(g)')
  PROVE  OpenInv'
<1> SUFFICES ASSUME NEW g \in Generations
             PROVE  /\ Discarded(g)' => info'[g].retired
                    /\ Registered(g)' => g \notin retiredPeers' /\ ~Releasing(g)'
                                           /\ info'[g].conn # "released"
                    /\ Withdrawn(g)' => ~Registered(g)' /\ \A k \in Threads : ~Mine(k, g)'
                    /\ \A k \in Threads : Mine(k, g)' =>
                         ~Registered(g)' /\ \A l \in Threads : Mine(l, g)' => l = k
                    /\ \A k \in Threads : Private(k, g)' =>
                         ~info'[g].retired /\ \A l \in Threads : Touches(l, g)' => l = k
  BY DEF OpenInv
<1>1. \A k \in Threads \ {t} :
        /\ Private(k, g)' <=> Private(k, g)
        /\ Mine(k, g)' <=> Mine(k, g)
        /\ Touches(k, g)' <=> Touches(k, g)
        /\ Closing(k, g)' <=> Closing(k, g)
        /\ Erasing(k, g)' <=> Erasing(k, g)
  BY DEF Private, Mine, Touches, Closing, At, Erasing, Target
<1>2. Releasing(g)' <=> Releasing(g)
  BY DEF Releasing
<1>3. Discarded(g)' => Discarded(g)
  BY <1>1, <1>2 DEF Discarded
<1>4. (Mine(t, g) /\ ~info[g].retired) \/ Registered(g) =>
        g \notin retiredPeers /\ ~Releasing(g) /\ info[g].conn # "released"
  BY DEF OpenInv, Discarded
<1>5. Registered(g)' => g \notin retiredPeers' /\ ~Releasing(g)' /\ info'[g].conn # "released"
  BY <1>2, <1>4
<1>6. ASSUME Withdrawn(g)'
      PROVE  ~Registered(g)' /\ \A k \in Threads : ~Mine(k, g)'
  <2>1. CASE Withdrawn(g)
    BY <1>1, <2>1 DEF OpenInv
  <2>2. CASE ~Withdrawn(g)
    <3>1. Closing(t, g)' /\ Registered(g) /\ ~Registered(g)'
      BY <1>1, <1>6, <2>2 DEF Withdrawn
    <3>2. ~Mine(t, g)'
      BY <3>1 DEF Closing, At, Mine, Private
    <3> QED BY <1>1, <3>1, <3>2 DEF OpenInv
  <2> QED BY <2>1, <2>2
<1>7. ASSUME NEW k \in Threads, Mine(k, g)'
      PROVE  ~Registered(g)' /\ \A l \in Threads : Mine(l, g)' => l = k
  BY <1>1, <1>7 DEF OpenInv
<1>8. ASSUME NEW k \in Threads, Private(k, g)'
      PROVE  ~info'[g].retired /\ \A l \in Threads : Touches(l, g)' => l = k
  BY <1>1, <1>8 DEF OpenInv, Mine
<1> QED BY <1>3, <1>5, <1>6, <1>7, <1>8 DEF OpenInv

\* A new connection is known to its thread alone.
LEMMA OpenConstruct ==
  ASSUME TypeInv, Created, OpenInv, NEW t \in Threads,
         NEW place \in {"register", "recheck"}, Construct(t, place),
         job[t].at \in {"create", "rebuild"}
  PROVE  OpenInv'
<1> USE DEF TypeInv
<1>1. PICK aged \in SUBSET retiredPeers, s \in Sessions :
        /\ retiredPeers' = retiredPeers \ aged
        /\ info' = [Released(aged) EXCEPT ![generation] = NewPeer(job[t].uuid, s)]
  BY DEF Construct
<1>2. generation \in Generations /\ ~(generation < generation)
  BY DEF Construct, RestInv, Generations
<1>3. /\ \A k \in Threads \ {t} : job'[k] = job[k]
      /\ job'[t].at = place /\ job'[t].fresh = generation
      /\ job'[t].peer = job[t].peer /\ job'[t].next = job[t].next
      /\ stop' = stop /\ peers' = peers
  BY <1>2 DEF Construct, JobInv, Jobs
<1>4. /\ \A g \in Generations \ {generation} :
           /\ g \in aged => info'[g].conn = "released" /\ info[g].retired /\ info'[g].retired
           /\ g \notin aged => info'[g] = info[g]
      /\ ~info'[generation].retired /\ info'[generation].conn = "open"
  <2>1. /\ info'[generation] = NewPeer(job[t].uuid, s)
        /\ \A g \in Generations \ {generation} : info'[g] = Released(aged)[g]
    BY <1>1, <1>2 DEF Released
  <2>2. \A g \in aged : info[g].retired
    BY DEF OpenInv, Discarded, RestInv
  <2>3. ~info'[generation].retired /\ info'[generation].conn = "open"
    BY <2>1 DEF NewPeer, Uncreated
  <2> QED BY <2>1, <2>2, <2>3, ReleasedDoes
<1>5. \A k \in Threads, g \in Generations :
        /\ Private(k, g)' <=> (k # t /\ Private(k, g)) \/ (k = t /\ g = generation)
        /\ Mine(k, g)' <=> (k # t /\ Mine(k, g)) \/ (k = t /\ g = generation)
        /\ Touches(k, g)' => Touches(k, g) \/ (k = t /\ g = generation)
        /\ Closing(k, g)' => Closing(k, g)
        /\ Erasing(k, g)' => Erasing(k, g)
  BY <1>3 DEF Private, Mine, Touches, Closing, At, Erasing, Target
<1>6. /\ \A k \in Threads : /\ ~Mine(k, generation) /\ ~Touches(k, generation)
                            /\ ~Closing(k, generation) /\ ~Erasing(k, generation)
      /\ ~Registered(generation) /\ ~Releasing(generation)
      /\ generation \notin retiredPeers /\ generation \notin stop.todo
  BY <1>2
  DEF Created, Mine, Private, Touches, Closing, Erasing, Target, Registered,
      Releasing
<1>7. \A g \in Generations : /\ Registered(g)' <=> Registered(g)
                             /\ Releasing(g)' <=> Releasing(g)
  BY <1>3 DEF Registered, Releasing
<1>8. \A g \in Generations :
        /\ Discarded(g)' => g # generation /\ (Discarded(g) \/ g \in aged)
        /\ Withdrawn(g)' => g # generation /\ Withdrawn(g)
  BY <1>1, <1>3, <1>4, <1>5, <1>6, <1>7 DEF Discarded, Withdrawn
<1> SUFFICES ASSUME NEW g \in Generations
             PROVE  /\ Discarded(g)' => info'[g].retired
                    /\ Registered(g)' => g \notin retiredPeers' /\ ~Releasing(g)'
                                           /\ info'[g].conn # "released"
                    /\ Withdrawn(g)' => ~Registered(g)' /\ \A k \in Threads : ~Mine(k, g)'
                    /\ \A k \in Threads : Mine(k, g)' =>
                         ~Registered(g)' /\ \A l \in Threads : Mine(l, g)' => l = k
                    /\ \A k \in Threads : Private(k, g)' =>
                         ~info'[g].retired /\ \A l \in Threads : Touches(l, g)' => l = k
  BY DEF OpenInv
<1>9. CASE g = generation
  <2>1. ~Discarded(g)' /\ ~Registered(g)' /\ ~Withdrawn(g)' /\ ~info'[g].retired
    BY <1>4, <1>6, <1>7, <1>8, <1>9
  <2>2. \A k \in Threads : (Mine(k, g)' => k = t) /\ (Private(k, g)' => k = t)
                           /\ (Touches(k, g)' => k = t)
    BY <1>2, <1>5, <1>6, <1>9 DEF Mine
  <2> QED BY <2>1, <2>2
<1>10. CASE g # generation
  <2>1. Registered(g) => g \notin aged
    BY <1>1 DEF OpenInv
  <2>2. \A k \in Threads : Private(k, g) => g \notin aged
    BY <1>4, <1>10 DEF OpenInv
  <2> QED BY <1>1, <1>4, <1>5, <1>7, <1>8, <1>10, <2>1, <2>2 DEF OpenInv
<1> QED BY <1>9, <1>10

\* One that is thrown away while it is set up was never registered.
LEMMA OpenThrows ==
  ASSUME TypeInv, Created, OpenInv, NEW t \in Threads, ConstructThrows(t)
  PROVE  OpenInv'
<1> USE DEF TypeInv
<1>1. PICK aged \in SUBSET retiredPeers :
        /\ retiredPeers' = retiredPeers \ aged
        /\ info' = [Released(aged) EXCEPT ![generation].retired = TRUE,
                                          ![generation].conn = "released"]
  BY DEF ConstructThrows
<1>2. generation \in Generations /\ ~(generation < generation)
  BY DEF ConstructThrows, RestInv, Generations
<1>3. /\ \A k \in Threads \ {t} : job'[k] = job[k]
      /\ job'[t] = Idle /\ stop' = stop /\ peers' = peers
  BY <1>2 DEF ConstructThrows, JobInv, Jobs, Leave
<1>4. /\ \A g \in Generations \ {generation} :
           /\ g \in aged => info'[g].conn = "released" /\ info[g].retired /\ info'[g].retired
           /\ g \notin aged => info'[g] = info[g]
      /\ info'[generation].retired /\ info'[generation].conn = "released"
  <2> DEFINE F == [Released(aged) EXCEPT ![generation].retired = TRUE]
  <2>1. Released(aged) \in [Generations -> PeerInfo]
    BY ReleasedType
  <2>a. ASSUME NEW f \in [Generations -> PeerInfo], NEW h,
               h = [f EXCEPT ![generation].retired = TRUE]
        PROVE  h \in [Generations -> PeerInfo] /\ h[generation].retired
    <3>1. f[generation] \in PeerInfo
      BY <1>2
    <3>2. ASSUME NEW i \in PeerInfo, NEW j, j = [i EXCEPT !.retired = TRUE]
          PROVE  j \in PeerInfo /\ j.retired
      BY <3>2 DEF PeerInfo
    <3>3. h = [f EXCEPT ![generation] = [f[generation] EXCEPT !.retired = TRUE]]
      BY <2>a
    <3> QED BY <1>2, <3>1, <3>2, <3>3
  <2>2. info' = [F EXCEPT ![generation].conn = "released"] /\ F \in [Generations -> PeerInfo]
          /\ F[generation].retired
    <3>1. info' = [F EXCEPT ![generation].conn = "released"]
      BY <1>1
    <3> QED BY <2>1, <2>a, <3>1
  <2>3. \A g \in Generations \ {generation} : F[g] = Released(aged)[g]
    BY <2>1
  <2>4. \A g \in Generations \ {generation} :
           /\ g \in aged => Released(aged)[g].conn = "released" /\ Released(aged)[g].retired
           /\ g \notin aged => Released(aged)[g] = info[g]
    BY ReleasedDoes
  <2>5. \A g \in aged : info[g].retired
    BY DEF OpenInv, Discarded, RestInv
  <2> HIDE DEF F
  <2> QED BY <1>2, <2>2, <2>3, <2>4, <2>5 DEF PeerInfo
<1>5. \A k \in Threads, g \in Generations :
        /\ Private(k, g)' <=> (k # t /\ Private(k, g))
        /\ Mine(k, g)' <=> (k # t /\ Mine(k, g))
        /\ Touches(k, g)' => Touches(k, g)
        /\ Closing(k, g)' => Closing(k, g)
        /\ Erasing(k, g)' => Erasing(k, g)
  BY <1>3, NoneApart
  DEF Private, Mine, Touches, Closing, At, Erasing, Target, Idle
<1>6. /\ \A k \in Threads : ~Mine(k, generation) /\ ~Private(k, generation) /\ ~Closing(k, generation)
      /\ ~Registered(generation) /\ generation \notin stop.todo
  BY <1>2 DEF Created, Mine, Private, Closing, Registered
<1>7. \A g \in Generations : /\ Registered(g)' <=> Registered(g)
                             /\ Releasing(g)' <=> Releasing(g)
  BY <1>3 DEF Registered, Releasing
<1>8. \A g \in Generations :
        /\ Discarded(g)' => Discarded(g) \/ g \in aged \/ g = generation
        /\ Withdrawn(g)' => g # generation /\ Withdrawn(g)
  BY <1>1, <1>3, <1>4, <1>5, <1>6, <1>7 DEF Discarded, Withdrawn
<1> SUFFICES ASSUME NEW g \in Generations
             PROVE  /\ Discarded(g)' => info'[g].retired
                    /\ Registered(g)' => g \notin retiredPeers' /\ ~Releasing(g)'
                                           /\ info'[g].conn # "released"
                    /\ Withdrawn(g)' => ~Registered(g)' /\ \A k \in Threads : ~Mine(k, g)'
                    /\ \A k \in Threads : Mine(k, g)' =>
                         ~Registered(g)' /\ \A l \in Threads : Mine(l, g)' => l = k
                    /\ \A k \in Threads : Private(k, g)' =>
                         ~info'[g].retired /\ \A l \in Threads : Touches(l, g)' => l = k
  BY DEF OpenInv
<1>9. CASE g = generation
  BY <1>4, <1>5, <1>6, <1>7, <1>8, <1>9
<1>10. CASE g # generation
  <2>1. Registered(g) => g \notin aged
    BY <1>1 DEF OpenInv
  <2>2. \A k \in Threads : Private(k, g) => g \notin aged
    BY <1>4, <1>10 DEF OpenInv
  <2> QED BY <1>1, <1>4, <1>5, <1>7, <1>8, <1>10, <2>1, <2>2 DEF OpenInv
<1> QED BY <1>9, <1>10

\* What OpenKept asks of a step of thread t.
MarksRest ==
  \A k \in Generations : info'[k].retired = info[k].retired /\ info'[k].conn = info[k].conn
EntersOn(t) ==
  \A k \in Generations : Registered(k)' => Registered(k) \/ (Mine(t, k) /\ ~info[k].retired)
OwnsOn(t) ==
  \A k \in Generations :
    /\ Private(t, k)' => Private(t, k)
    /\ Mine(t, k)' => (Mine(t, k) \/ Registered(k)) /\ ~Registered(k)'
TouchesOn(t) ==
  \A k \in Generations : Touches(t, k)' => Touches(t, k) \/ Registered(k)
ErasesOn(t) == \A k \in Generations : Erasing(t, k)' => Erasing(t, k)
ClosesOn(t) ==
  \A k \in Generations :
    Closing(t, k)' => Closing(t, k) \/ (Registered(k) /\ ~Registered(k)')
AllOn ==
  \A t \in Threads, g \in Generations :
    /\ Private(t, g)' <=> Private(t, g)
    /\ Mine(t, g)' <=> Mine(t, g)
    /\ Touches(t, g)' <=> Touches(t, g)
    /\ Closing(t, g)' <=> Closing(t, g)
    /\ Erasing(t, g)' <=> Erasing(t, g)

\* While marks stay, no step registers a peer that is being released.
LEMMA OpenStep ==
  ASSUME TypeInv, Entries, Created, OpenInv, MarksStay, [Next]_vars
  PROVE  OpenInv'
<1> USE DEF TypeInv, OthersRest, OwnsOn, MarksRest, ClosesOn, EntersOn, TouchesOn, ErasesOn,
            AllOn
<1>1. ASSUME NEW h \in Handlers, OfferRequest(h) PROVE OpenInv'
  <2>1. OthersRest(h)
    BY <1>1, Threaded DEF OfferRequest, Go, Leave, JobInv
  <2>2. retiredPeers' = retiredPeers /\ stop' = stop
    BY <1>1 DEF OfferRequest, manager
  <2>3. MarksRest
    BY <1>1
    DEF OfferRequest, InfoInv, PeerInfo, Offered, Unclaimed, Described,
        Delivered, Closed, manager
  <2>4. EntersOn(h)
    BY <1>1, Threaded, NoneApart
    DEF OfferRequest, At, Registered, RestInv, manager
  <2>5. OwnsOn(h)
    BY <1>1, Threaded, NoneApart
    DEF OfferRequest, At, Go, Leave, Idle, JobInv, Jobs, Private, Mine,
        manager
  <2>6. TouchesOn(h)
    BY <1>1, Threaded, NoneApart
    DEF OfferRequest, At, Quiet, Go, Leave, Idle, JobInv, Jobs, Touches,
        Registered, RestInv, Equipped, UuidPlaces, manager
  <2>7. ErasesOn(h)
    BY <1>1, Threaded, NoneApart
    DEF OfferRequest, Go, Leave, Idle, JobInv, Jobs, Erasing, manager
  <2>8. ClosesOn(h)
    BY <1>1, Threaded, NoneApart
    DEF OfferRequest, At, Go, Leave, Idle, JobInv, Jobs, Closing, manager
  <2> QED
    BY <2>1, <2>2, <2>3, <2>4, <2>5, <2>6, <2>7, <2>8, OpenKept, Threaded
<1>2. ASSUME NEW h \in Handlers, LookupNobody(h) PROVE OpenInv'
  <2>1. OthersRest(h)
    BY <1>2, Threaded DEF LookupNobody, Go, Leave, JobInv
  <2>2. retiredPeers' = retiredPeers /\ stop' = stop
    BY <1>2 DEF LookupNobody, manager
  <2>3. MarksRest
    BY <1>2
    DEF LookupNobody, InfoInv, PeerInfo, Offered, Unclaimed, Described,
        Delivered, Closed, manager
  <2>4. EntersOn(h)
    BY <1>2, Threaded, NoneApart
    DEF LookupNobody, At, Registered, RestInv, manager
  <2>5. OwnsOn(h)
    BY <1>2, Threaded, NoneApart
    DEF LookupNobody, At, Go, Leave, Idle, JobInv, Jobs, Private, Mine,
        manager
  <2>6. TouchesOn(h)
    BY <1>2, Threaded, NoneApart
    DEF LookupNobody, At, Quiet, Go, Leave, Idle, JobInv, Jobs, Touches,
        Registered, RestInv, Equipped, UuidPlaces, manager
  <2>7. ErasesOn(h)
    BY <1>2, Threaded, NoneApart
    DEF LookupNobody, Go, Leave, Idle, JobInv, Jobs, Erasing, manager
  <2>8. ClosesOn(h)
    BY <1>2, Threaded, NoneApart
    DEF LookupNobody, At, Go, Leave, Idle, JobInv, Jobs, Closing, manager
  <2> QED
    BY <2>1, <2>2, <2>3, <2>4, <2>5, <2>6, <2>7, <2>8, OpenKept, Threaded
<1>3. ASSUME NEW h \in Handlers, LookupStale(h) PROVE OpenInv'
  <2>1. OthersRest(h)
    BY <1>3, Threaded DEF LookupStale, Go, Leave, JobInv
  <2>2. retiredPeers' = retiredPeers /\ stop' = stop
    BY <1>3 DEF LookupStale, manager
  <2>3. MarksRest
    BY <1>3
    DEF LookupStale, InfoInv, PeerInfo, Offered, Unclaimed, Described,
        Delivered, Closed, manager
  <2>4. EntersOn(h)
    BY <1>3, Threaded, NoneApart
    DEF LookupStale, At, Registered, RestInv, manager
  <2>5. OwnsOn(h)
    BY <1>3, Threaded, NoneApart
    DEF LookupStale, At, Go, Leave, Idle, JobInv, Jobs, Private, Mine, manager
  <2>6. TouchesOn(h)
    BY <1>3, Threaded, NoneApart
    DEF LookupStale, At, Quiet, Go, Leave, Idle, JobInv, Jobs, Touches,
        Registered, RestInv, Equipped, UuidPlaces, manager
  <2>7. ErasesOn(h)
    BY <1>3, Threaded, NoneApart
    DEF LookupStale, Go, Leave, Idle, JobInv, Jobs, Erasing, manager
  <2>8. ClosesOn(h)
    BY <1>3, Threaded, NoneApart
    DEF LookupStale, At, Go, Leave, Idle, JobInv, Jobs, Closing, manager
  <2> QED
    BY <2>1, <2>2, <2>3, <2>4, <2>5, <2>6, <2>7, <2>8, OpenKept, Threaded
<1>4. ASSUME NEW h \in Handlers, LookupPeer(h) PROVE OpenInv'
  <2>1. OthersRest(h)
    BY <1>4, Threaded DEF LookupPeer, Go, Leave, JobInv
  <2>2. retiredPeers' = retiredPeers /\ stop' = stop
    BY <1>4 DEF LookupPeer, manager
  <2>3. MarksRest
    BY <1>4
    DEF LookupPeer, InfoInv, PeerInfo, Offered, Unclaimed, Described,
        Delivered, Closed, manager
  <2>4. EntersOn(h)
    BY <1>4, Threaded, NoneApart
    DEF LookupPeer, At, Registered, RestInv, manager
  <2>5. OwnsOn(h)
    BY <1>4, Threaded, NoneApart
    DEF LookupPeer, At, Go, Leave, Idle, JobInv, Jobs, Private, Mine, manager
  <2>6. TouchesOn(h)
    BY <1>4, Threaded, NoneApart
    DEF LookupPeer, At, Quiet, Go, Leave, Idle, JobInv, Jobs, Touches,
        Registered, RestInv, Equipped, UuidPlaces, manager
  <2>7. ErasesOn(h)
    BY <1>4, Threaded, NoneApart
    DEF LookupPeer, Go, Leave, Idle, JobInv, Jobs, Erasing, manager
  <2>8. ClosesOn(h)
    BY <1>4, Threaded, NoneApart
    DEF LookupPeer, At, Go, Leave, Idle, JobInv, Jobs, Closing, manager
  <2> QED
    BY <2>1, <2>2, <2>3, <2>4, <2>5, <2>6, <2>7, <2>8, OpenKept, Threaded
<1>5. ASSUME NEW h \in Handlers, Admit(h) PROVE OpenInv'
  <2>1. OthersRest(h)
    BY <1>5, Threaded DEF Admit, Go, Leave, JobInv
  <2>2. retiredPeers' = retiredPeers /\ stop' = stop
    BY <1>5 DEF Admit, manager
  <2>3. MarksRest
    BY <1>5
    DEF Admit, InfoInv, PeerInfo, Offered, Unclaimed, Described, Delivered,
        Closed, manager
  <2>4. EntersOn(h)
    BY <1>5, Threaded, NoneApart DEF Admit, At, Registered, RestInv, manager
  <2>5. OwnsOn(h)
    BY <1>5, Threaded, NoneApart
    DEF Admit, At, Go, Leave, Idle, JobInv, Jobs, Private, Mine, manager
  <2>6. TouchesOn(h)
    BY <1>5, Threaded, NoneApart
    DEF Admit, At, Quiet, Go, Leave, Idle, JobInv, Jobs, Touches, Registered,
        RestInv, Equipped, UuidPlaces, manager
  <2>7. ErasesOn(h)
    BY <1>5, Threaded, NoneApart
    DEF Admit, Go, Leave, Idle, JobInv, Jobs, Erasing, manager
  <2>8. ClosesOn(h)
    BY <1>5, Threaded, NoneApart
    DEF Admit, At, Go, Leave, Idle, JobInv, Jobs, Closing, manager
  <2> QED
    BY <2>1, <2>2, <2>3, <2>4, <2>5, <2>6, <2>7, <2>8, OpenKept, Threaded
<1>6. ASSUME NEW h \in Handlers, Create(h) PROVE OpenInv'
  <2>1. CASE Construct(h, "register")
    BY <1>6, <2>1, OpenConstruct, Threaded DEF Create, At
  <2>2. CASE ConstructThrows(h)
    BY <1>6, <2>2, OpenThrows, Threaded DEF Create
  <2> QED BY <1>6, <2>1, <2>2 DEF Create
<1>7. ASSUME NEW h \in Handlers, Register(h) PROVE OpenInv'
  <2>1. OthersRest(h)
    BY <1>7, Threaded DEF Register, Go, Leave, JobInv
  <2>2. retiredPeers' = retiredPeers /\ stop' = stop
    BY <1>7 DEF Register, manager
  <2>3. MarksRest
    BY <1>7
    DEF Register, InfoInv, PeerInfo, Offered, Unclaimed, Described, Delivered,
        Closed, manager
  <2>4. EntersOn(h)
    BY <1>7, Threaded, NoneApart
    DEF Register, At, Registered, RestInv, manager, OpenInv, Mine, Private,
        JobInv, Equipped, UuidPlaces, FreshPlaces
  <2>5. OwnsOn(h)
    BY <1>7, Threaded, NoneApart
    DEF Register, At, Go, Leave, Idle, JobInv, Jobs, Private, Mine, manager
  <2>6. TouchesOn(h)
    BY <1>7, Threaded, NoneApart
    DEF Register, At, Quiet, Go, Leave, Idle, JobInv, Jobs, Touches,
        Registered, RestInv, Equipped, UuidPlaces, manager
  <2>7. ErasesOn(h)
    BY <1>7, Threaded, NoneApart
    DEF Register, Go, Leave, Idle, JobInv, Jobs, Erasing, manager
  <2>8. ClosesOn(h)
    BY <1>7, Threaded, NoneApart
    DEF Register, At, Go, Leave, Idle, JobInv, Jobs, Closing, manager
  <2> QED
    BY <2>1, <2>2, <2>3, <2>4, <2>5, <2>6, <2>7, <2>8, OpenKept, Threaded
<1>8. ASSUME NEW h \in Handlers, RegisterConcurrent(h) PROVE OpenInv'
  <2>1. OthersRest(h)
    BY <1>8, Threaded DEF RegisterConcurrent, Go, Leave, JobInv, WithLoser
  <2>2. retiredPeers' = retiredPeers /\ stop' = stop
    BY <1>8 DEF RegisterConcurrent, manager
  <2>3. MarksRest
    BY <1>8
    DEF RegisterConcurrent, InfoInv, PeerInfo, Offered, Unclaimed, Described,
        Delivered, Closed, manager
  <2>4. EntersOn(h)
    BY <1>8, Threaded, NoneApart
    DEF RegisterConcurrent, At, Registered, RestInv, manager
  <2>5. OwnsOn(h)
    BY <1>8, Threaded, NoneApart
    DEF RegisterConcurrent, At, Go, Leave, Idle, JobInv, Jobs, Private, Mine,
        manager, WithLoser
  <2>6. TouchesOn(h)
    BY <1>8, Threaded, NoneApart
    DEF RegisterConcurrent, At, Quiet, Go, Leave, Idle, JobInv, Jobs, Touches,
        Registered, RestInv, Equipped, UuidPlaces, manager, WithLoser
  <2>7. ErasesOn(h)
    BY <1>8, Threaded, NoneApart
    DEF RegisterConcurrent, Go, Leave, Idle, JobInv, Jobs, Erasing, manager,
        WithLoser
  <2>8. ClosesOn(h)
    BY <1>8, Threaded, NoneApart
    DEF RegisterConcurrent, At, Go, Leave, Idle, JobInv, Jobs, Closing,
        manager, WithLoser
  <2> QED
    BY <2>1, <2>2, <2>3, <2>4, <2>5, <2>6, <2>7, <2>8, OpenKept, Threaded
<1>9. ASSUME NEW h \in Handlers, Claim(h) PROVE OpenInv'
  <2>1. OthersRest(h)
    BY <1>9, Threaded DEF Claim, Go, Leave, JobInv
  <2>2. retiredPeers' = retiredPeers /\ stop' = stop
    BY <1>9 DEF Claim, manager
  <2>3. MarksRest
    BY <1>9
    DEF Claim, InfoInv, PeerInfo, Offered, Unclaimed, Described, Delivered,
        Closed, manager
  <2>4. EntersOn(h)
    BY <1>9, Threaded, NoneApart DEF Claim, At, Registered, RestInv, manager
  <2>5. OwnsOn(h)
    BY <1>9, Threaded, NoneApart
    DEF Claim, At, Go, Leave, Idle, JobInv, Jobs, Private, Mine, manager
  <2>6. TouchesOn(h)
    BY <1>9, Threaded, NoneApart
    DEF Claim, At, Quiet, Go, Leave, Idle, JobInv, Jobs, Touches, Registered,
        RestInv, Equipped, UuidPlaces, manager
  <2>7. ErasesOn(h)
    BY <1>9, Threaded, NoneApart
    DEF Claim, Go, Leave, Idle, JobInv, Jobs, Erasing, manager
  <2>8. ClosesOn(h)
    BY <1>9, Threaded, NoneApart
    DEF Claim, At, Go, Leave, Idle, JobInv, Jobs, Closing, manager
  <2> QED
    BY <2>1, <2>2, <2>3, <2>4, <2>5, <2>6, <2>7, <2>8, OpenKept, Threaded
<1>10. ASSUME NEW h \in Handlers, Resend(h) PROVE OpenInv'
  <2>1. OthersRest(h)
    BY <1>10, Threaded DEF Resend, Go, Leave, JobInv
  <2>2. retiredPeers' = retiredPeers /\ stop' = stop
    BY <1>10 DEF Resend, manager
  <2>3. MarksRest
    BY <1>10
    DEF Resend, InfoInv, PeerInfo, Offered, Unclaimed, Described, Delivered,
        Closed, manager
  <2>4. EntersOn(h)
    BY <1>10, Threaded, NoneApart DEF Resend, At, Registered, RestInv, manager
  <2>5. OwnsOn(h)
    BY <1>10, Threaded, NoneApart
    DEF Resend, At, Go, Leave, Idle, JobInv, Jobs, Private, Mine, manager
  <2>6. TouchesOn(h)
    BY <1>10, Threaded, NoneApart
    DEF Resend, At, Quiet, Go, Leave, Idle, JobInv, Jobs, Touches, Registered,
        RestInv, Equipped, UuidPlaces, manager
  <2>7. ErasesOn(h)
    BY <1>10, Threaded, NoneApart
    DEF Resend, Go, Leave, Idle, JobInv, Jobs, Erasing, manager
  <2>8. ClosesOn(h)
    BY <1>10, Threaded, NoneApart
    DEF Resend, At, Go, Leave, Idle, JobInv, Jobs, Closing, manager
  <2> QED
    BY <2>1, <2>2, <2>3, <2>4, <2>5, <2>6, <2>7, <2>8, OpenKept, Threaded
<1>11. ASSUME NEW h \in Handlers, Describe(h) PROVE OpenInv'
  <2>1. OthersRest(h)
    BY <1>11, Threaded DEF Describe, Go, Leave, JobInv
  <2>2. retiredPeers' = retiredPeers /\ stop' = stop
    BY <1>11 DEF Describe, manager
  <2>3. MarksRest
    BY <1>11
    DEF Describe, InfoInv, PeerInfo, Offered, Unclaimed, Described, Delivered,
        Closed, manager
  <2>4. EntersOn(h)
    BY <1>11, Threaded, NoneApart
    DEF Describe, At, Registered, RestInv, manager
  <2>5. OwnsOn(h)
    BY <1>11, Threaded, NoneApart
    DEF Describe, At, Go, Leave, Idle, JobInv, Jobs, Private, Mine, manager
  <2>6. TouchesOn(h)
    BY <1>11, Threaded, NoneApart
    DEF Describe, At, Quiet, Go, Leave, Idle, JobInv, Jobs, Touches,
        Registered, RestInv, Equipped, UuidPlaces, manager
  <2>7. ErasesOn(h)
    BY <1>11, Threaded, NoneApart
    DEF Describe, Go, Leave, Idle, JobInv, Jobs, Erasing, manager
  <2>8. ClosesOn(h)
    BY <1>11, Threaded, NoneApart
    DEF Describe, At, Go, Leave, Idle, JobInv, Jobs, Closing, manager
  <2> QED
    BY <2>1, <2>2, <2>3, <2>4, <2>5, <2>6, <2>7, <2>8, OpenKept, Threaded
<1>12. ASSUME NEW h \in Handlers, SendCached(h) PROVE OpenInv'
  <2>1. OthersRest(h)
    BY <1>12, Threaded DEF SendCached, Go, Leave, JobInv
  <2>2. retiredPeers' = retiredPeers /\ stop' = stop
    BY <1>12 DEF SendCached, manager
  <2>3. MarksRest
    BY <1>12
    DEF SendCached, InfoInv, PeerInfo, Offered, Unclaimed, Described,
        Delivered, Closed, manager
  <2>4. EntersOn(h)
    BY <1>12, Threaded, NoneApart
    DEF SendCached, At, Registered, RestInv, manager
  <2>5. OwnsOn(h)
    BY <1>12, Threaded, NoneApart
    DEF SendCached, At, Go, Leave, Idle, JobInv, Jobs, Private, Mine, manager
  <2>6. TouchesOn(h)
    BY <1>12, Threaded, NoneApart
    DEF SendCached, At, Quiet, Go, Leave, Idle, JobInv, Jobs, Touches,
        Registered, RestInv, Equipped, UuidPlaces, manager
  <2>7. ErasesOn(h)
    BY <1>12, Threaded, NoneApart
    DEF SendCached, Go, Leave, Idle, JobInv, Jobs, Erasing, manager
  <2>8. ClosesOn(h)
    BY <1>12, Threaded, NoneApart
    DEF SendCached, At, Go, Leave, Idle, JobInv, Jobs, Closing, manager
  <2> QED
    BY <2>1, <2>2, <2>3, <2>4, <2>5, <2>6, <2>7, <2>8, OpenKept, Threaded
<1>13. ASSUME NEW h \in Handlers, SetLocalDescription(h) PROVE OpenInv'
  <2>1. OthersRest(h)
    BY <1>13, Threaded DEF SetLocalDescription, Go, Leave, JobInv
  <2>2. retiredPeers' = retiredPeers /\ stop' = stop
    BY <1>13 DEF SetLocalDescription, manager
  <2>3. MarksRest
    BY <1>13
    DEF SetLocalDescription, InfoInv, PeerInfo, Offered, Unclaimed, Described,
        Delivered, Closed, manager
  <2>4. EntersOn(h)
    BY <1>13, Threaded, NoneApart
    DEF SetLocalDescription, At, Registered, RestInv, manager
  <2>5. OwnsOn(h)
    BY <1>13, Threaded, NoneApart
    DEF SetLocalDescription, At, Go, Leave, Idle, JobInv, Jobs, Private, Mine,
        manager
  <2>6. TouchesOn(h)
    BY <1>13, Threaded, NoneApart
    DEF SetLocalDescription, At, Quiet, Go, Leave, Idle, JobInv, Jobs,
        Touches, Registered, RestInv, Equipped, UuidPlaces, manager
  <2>7. ErasesOn(h)
    BY <1>13, Threaded, NoneApart
    DEF SetLocalDescription, Go, Leave, Idle, JobInv, Jobs, Erasing, manager
  <2>8. ClosesOn(h)
    BY <1>13, Threaded, NoneApart
    DEF SetLocalDescription, At, Go, Leave, Idle, JobInv, Jobs, Closing,
        manager
  <2> QED
    BY <2>1, <2>2, <2>3, <2>4, <2>5, <2>6, <2>7, <2>8, OpenKept, Threaded
<1>14. ASSUME NEW h \in Handlers, Answer(h) PROVE OpenInv'
  <2>1. OthersRest(h)
    BY <1>14, Threaded DEF Answer, Go, Leave, JobInv
  <2>2. retiredPeers' = retiredPeers /\ stop' = stop
    BY <1>14 DEF Answer, manager
  <2>3. MarksRest
    BY <1>14
    DEF Answer, InfoInv, PeerInfo, Offered, Unclaimed, Described, Delivered,
        Closed, manager
  <2>4. EntersOn(h)
    BY <1>14, Threaded, NoneApart DEF Answer, At, Registered, RestInv, manager
  <2>5. OwnsOn(h)
    BY <1>14, Threaded, NoneApart
    DEF Answer, At, Go, Leave, Idle, JobInv, Jobs, Private, Mine, manager
  <2>6. TouchesOn(h)
    BY <1>14, Threaded, NoneApart
    DEF Answer, At, Quiet, Go, Leave, Idle, JobInv, Jobs, Touches, Registered,
        RestInv, Equipped, UuidPlaces, manager
  <2>7. ErasesOn(h)
    BY <1>14, Threaded, NoneApart
    DEF Answer, Go, Leave, Idle, JobInv, Jobs, Erasing, manager
  <2>8. ClosesOn(h)
    BY <1>14, Threaded, NoneApart
    DEF Answer, At, Go, Leave, Idle, JobInv, Jobs, Closing, manager
  <2> QED
    BY <2>1, <2>2, <2>3, <2>4, <2>5, <2>6, <2>7, <2>8, OpenKept, Threaded
<1>15. ASSUME NEW h \in Handlers, SetRemoteDescription(h) PROVE OpenInv'
  <2>1. OthersRest(h)
    BY <1>15, Threaded DEF SetRemoteDescription, Go, Leave, JobInv
  <2>2. retiredPeers' = retiredPeers /\ stop' = stop
    BY <1>15 DEF SetRemoteDescription, manager
  <2>3. MarksRest
    BY <1>15
    DEF SetRemoteDescription, InfoInv, PeerInfo, Offered, Unclaimed,
        Described, Delivered, Closed, manager
  <2>4. EntersOn(h)
    BY <1>15, Threaded, NoneApart
    DEF SetRemoteDescription, At, Registered, RestInv, manager
  <2>5. OwnsOn(h)
    BY <1>15, Threaded, NoneApart
    DEF SetRemoteDescription, At, Go, Leave, Idle, JobInv, Jobs, Private,
        Mine, manager
  <2>6. TouchesOn(h)
    BY <1>15, Threaded, NoneApart
    DEF SetRemoteDescription, At, Quiet, Go, Leave, Idle, JobInv, Jobs,
        Touches, Registered, RestInv, Equipped, UuidPlaces, manager
  <2>7. ErasesOn(h)
    BY <1>15, Threaded, NoneApart
    DEF SetRemoteDescription, Go, Leave, Idle, JobInv, Jobs, Erasing, manager
  <2>8. ClosesOn(h)
    BY <1>15, Threaded, NoneApart
    DEF SetRemoteDescription, At, Go, Leave, Idle, JobInv, Jobs, Closing,
        manager
  <2> QED
    BY <2>1, <2>2, <2>3, <2>4, <2>5, <2>6, <2>7, <2>8, OpenKept, Threaded
<1>16. ASSUME NEW h \in Handlers, IceRestart(h) PROVE OpenInv'
  <2>1. OthersRest(h)
    BY <1>16, Threaded DEF IceRestart, Go, Leave, JobInv
  <2>2. retiredPeers' = retiredPeers /\ stop' = stop
    BY <1>16 DEF IceRestart, manager
  <2>3. MarksRest
    BY <1>16
    DEF IceRestart, InfoInv, PeerInfo, Offered, Unclaimed, Described,
        Delivered, Closed, manager
  <2>4. EntersOn(h)
    BY <1>16, Threaded, NoneApart
    DEF IceRestart, At, Registered, RestInv, manager
  <2>5. OwnsOn(h)
    BY <1>16, Threaded, NoneApart
    DEF IceRestart, At, Go, Leave, Idle, JobInv, Jobs, Private, Mine, manager
  <2>6. TouchesOn(h)
    BY <1>16, Threaded, NoneApart
    DEF IceRestart, At, Quiet, Go, Leave, Idle, JobInv, Jobs, Touches,
        Registered, RestInv, Equipped, UuidPlaces, manager
  <2>7. ErasesOn(h)
    BY <1>16, Threaded, NoneApart
    DEF IceRestart, Go, Leave, Idle, JobInv, Jobs, Erasing, manager
  <2>8. ClosesOn(h)
    BY <1>16, Threaded, NoneApart
    DEF IceRestart, At, Go, Leave, Idle, JobInv, Jobs, Closing, manager
  <2> QED
    BY <2>1, <2>2, <2>3, <2>4, <2>5, <2>6, <2>7, <2>8, OpenKept, Threaded
<1>17. ASSUME NEW h \in Handlers, RestartPeer(h) PROVE OpenInv'
  <2>1. OthersRest(h)
    BY <1>17, Threaded DEF RestartPeer, Go, Leave, JobInv
  <2>2. retiredPeers' = retiredPeers /\ stop' = stop
    BY <1>17 DEF RestartPeer, manager
  <2>3. MarksRest
    BY <1>17
    DEF RestartPeer, InfoInv, PeerInfo, Offered, Unclaimed, Described,
        Delivered, Closed, manager
  <2>4. EntersOn(h)
    BY <1>17, Threaded, NoneApart
    DEF RestartPeer, At, Registered, RestInv, manager
  <2>5. OwnsOn(h)
    BY <1>17, Threaded, NoneApart
    DEF RestartPeer, At, Go, Leave, Idle, JobInv, Jobs, Private, Mine, manager
  <2>6. TouchesOn(h)
    BY <1>17, Threaded, NoneApart
    DEF RestartPeer, At, Quiet, Go, Leave, Idle, JobInv, Jobs, Touches,
        Registered, RestInv, Equipped, UuidPlaces, manager
  <2>7. ErasesOn(h)
    BY <1>17, Threaded, NoneApart
    DEF RestartPeer, Go, Leave, Idle, JobInv, Jobs, Erasing, manager
  <2>8. ClosesOn(h)
    BY <1>17, Threaded, NoneApart
    DEF RestartPeer, At, Go, Leave, Idle, JobInv, Jobs, Closing, manager
  <2> QED
    BY <2>1, <2>2, <2>3, <2>4, <2>5, <2>6, <2>7, <2>8, OpenKept, Threaded
<1>18. ASSUME NEW h \in Handlers, Rebuild(h) PROVE OpenInv'
  <2>1. CASE Construct(h, "recheck")
    BY <1>18, <2>1, OpenConstruct, Threaded DEF Rebuild, At
  <2>2. CASE ConstructThrows(h)
    BY <1>18, <2>2, OpenThrows, Threaded DEF Rebuild
  <2> QED BY <1>18, <2>1, <2>2 DEF Rebuild
<1>19. ASSUME NEW h \in Handlers, Recheck(h) PROVE OpenInv'
  <2>1. OthersRest(h)
    BY <1>19, Threaded DEF Recheck, Go, Leave, JobInv
  <2>2. retiredPeers' = retiredPeers /\ stop' = stop
    BY <1>19 DEF Recheck, manager
  <2>3. MarksRest
    BY <1>19
    DEF Recheck, InfoInv, PeerInfo, Offered, Unclaimed, Described, Delivered,
        Closed, manager
  <2>4. EntersOn(h)
    BY <1>19, Threaded, NoneApart
    DEF Recheck, At, Registered, RestInv, manager
  <2>5. OwnsOn(h)
    BY <1>19, Threaded, NoneApart
    DEF Recheck, At, Go, Leave, Idle, JobInv, Jobs, Private, Mine, manager,
        Registered, OpenInv
  <2>6. TouchesOn(h)
    BY <1>19, Threaded, NoneApart
    DEF Recheck, At, Quiet, Go, Leave, Idle, JobInv, Jobs, Touches,
        Registered, RestInv, Equipped, UuidPlaces, manager
  <2>7. ErasesOn(h)
    BY <1>19, Threaded, NoneApart
    DEF Recheck, Go, Leave, Idle, JobInv, Jobs, Erasing, manager
  <2>8. ClosesOn(h)
    BY <1>19, Threaded, NoneApart
    DEF Recheck, At, Go, Leave, Idle, JobInv, Jobs, Closing, manager
  <2> QED
    BY <2>1, <2>2, <2>3, <2>4, <2>5, <2>6, <2>7, <2>8, OpenKept, Threaded
<1>20. ASSUME NEW h \in Handlers, Swap(h) PROVE OpenInv'
  <2>1. OthersRest(h)
    BY <1>20, Threaded DEF Swap, Go, Leave, JobInv
  <2>2. retiredPeers' = retiredPeers /\ stop' = stop
    BY <1>20 DEF Swap, manager
  <2>3. MarksRest
    BY <1>20
    DEF Swap, InfoInv, PeerInfo, Offered, Unclaimed, Described, Delivered,
        Closed, manager
  <2>4. EntersOn(h)
    BY <1>20, Threaded, NoneApart
    DEF Swap, At, Registered, RestInv, manager, OpenInv, Mine, Private,
        JobInv, Equipped, UuidPlaces, FreshPlaces
  <2>5. OwnsOn(h)
    BY <1>20, Threaded, NoneApart
    DEF Swap, At, Go, Leave, Idle, JobInv, Jobs, Private, Mine, manager,
        Registered, RestInv, Entries, Equipped, UuidPlaces, PeerPlaces,
        FreshPlaces, OpenInv
  <2>6. TouchesOn(h)
    BY <1>20, Threaded, NoneApart
    DEF Swap, At, Quiet, Go, Leave, Idle, JobInv, Jobs, Touches, Registered,
        RestInv, Equipped, UuidPlaces, manager
  <2>7. ErasesOn(h)
    BY <1>20, Threaded, NoneApart
    DEF Swap, Go, Leave, Idle, JobInv, Jobs, Erasing, manager
  <2>8. ClosesOn(h)
    BY <1>20, Threaded, NoneApart
    DEF Swap, At, Go, Leave, Idle, JobInv, Jobs, Closing, manager
  <2> QED
    BY <2>1, <2>2, <2>3, <2>4, <2>5, <2>6, <2>7, <2>8, OpenKept, Threaded
<1>21. ASSUME NEW h \in Handlers, Superseded(h) PROVE OpenInv'
  <2>1. OthersRest(h)
    BY <1>21, Threaded DEF Superseded, Go, Leave, JobInv
  <2>2. retiredPeers' = retiredPeers /\ stop' = stop
    BY <1>21 DEF Superseded, manager
  <2>3. MarksRest
    BY <1>21
    DEF Superseded, InfoInv, PeerInfo, Offered, Unclaimed, Described,
        Delivered, Closed, manager
  <2>4. EntersOn(h)
    BY <1>21, Threaded, NoneApart
    DEF Superseded, At, Registered, RestInv, manager
  <2>5. OwnsOn(h)
    BY <1>21, Threaded, NoneApart
    DEF Superseded, At, Go, Leave, Idle, JobInv, Jobs, Private, Mine, manager
  <2>6. TouchesOn(h)
    BY <1>21, Threaded, NoneApart
    DEF Superseded, At, Quiet, Go, Leave, Idle, JobInv, Jobs, Touches,
        Registered, RestInv, Equipped, UuidPlaces, manager
  <2>7. ErasesOn(h)
    BY <1>21, Threaded, NoneApart
    DEF Superseded, Go, Leave, Idle, JobInv, Jobs, Erasing, manager
  <2>8. ClosesOn(h)
    BY <1>21, Threaded, NoneApart
    DEF Superseded, At, Go, Leave, Idle, JobInv, Jobs, Closing, manager
  <2> QED
    BY <2>1, <2>2, <2>3, <2>4, <2>5, <2>6, <2>7, <2>8, OpenKept, Threaded
<1>22. ASSUME NEW h \in Handlers, RestartOffer(h) PROVE OpenInv'
  <2>1. OthersRest(h)
    BY <1>22, Threaded DEF RestartOffer, Go, Leave, JobInv
  <2>2. retiredPeers' = retiredPeers /\ stop' = stop
    BY <1>22 DEF RestartOffer, manager
  <2>3. MarksRest
    BY <1>22
    DEF RestartOffer, InfoInv, PeerInfo, Offered, Unclaimed, Described,
        Delivered, Closed, manager
  <2>4. EntersOn(h)
    BY <1>22, Threaded, NoneApart
    DEF RestartOffer, At, Registered, RestInv, manager
  <2>5. OwnsOn(h)
    BY <1>22, Threaded, NoneApart
    DEF RestartOffer, At, Go, Leave, Idle, JobInv, Jobs, Private, Mine,
        manager, Registered, OpenInv
  <2>6. TouchesOn(h)
    BY <1>22, Threaded, NoneApart
    DEF RestartOffer, At, Quiet, Go, Leave, Idle, JobInv, Jobs, Touches,
        Registered, RestInv, Equipped, UuidPlaces, manager
  <2>7. ErasesOn(h)
    BY <1>22, Threaded, NoneApart
    DEF RestartOffer, Go, Leave, Idle, JobInv, Jobs, Erasing, manager
  <2>8. ClosesOn(h)
    BY <1>22, Threaded, NoneApart
    DEF RestartOffer, At, Go, Leave, Idle, JobInv, Jobs, Closing, manager
  <2> QED
    BY <2>1, <2>2, <2>3, <2>4, <2>5, <2>6, <2>7, <2>8, OpenKept, Threaded
<1>23. ASSUME NEW h \in Handlers, SendFresh(h) PROVE OpenInv'
  <2>1. OthersRest(h)
    BY <1>23, Threaded DEF SendFresh, Go, Leave, JobInv
  <2>2. retiredPeers' = retiredPeers /\ stop' = stop
    BY <1>23 DEF SendFresh, manager
  <2>3. MarksRest
    BY <1>23
    DEF SendFresh, InfoInv, PeerInfo, Offered, Unclaimed, Described,
        Delivered, Closed, manager
  <2>4. EntersOn(h)
    BY <1>23, Threaded, NoneApart
    DEF SendFresh, At, Registered, RestInv, manager
  <2>5. OwnsOn(h)
    BY <1>23, Threaded, NoneApart
    DEF SendFresh, At, Go, Leave, Idle, JobInv, Jobs, Private, Mine, manager,
        Registered, OpenInv
  <2>6. TouchesOn(h)
    BY <1>23, Threaded, NoneApart
    DEF SendFresh, At, Quiet, Go, Leave, Idle, JobInv, Jobs, Touches,
        Registered, RestInv, Equipped, UuidPlaces, manager
  <2>7. ErasesOn(h)
    BY <1>23, Threaded, NoneApart
    DEF SendFresh, Go, Leave, Idle, JobInv, Jobs, Erasing, manager
  <2>8. ClosesOn(h)
    BY <1>23, Threaded, NoneApart
    DEF SendFresh, At, Go, Leave, Idle, JobInv, Jobs, Closing, manager
  <2> QED
    BY <2>1, <2>2, <2>3, <2>4, <2>5, <2>6, <2>7, <2>8, OpenKept, Threaded
<1>24. ASSUME NEW h \in Handlers, DescribeFresh(h) PROVE OpenInv'
  <2>1. OthersRest(h)
    BY <1>24, Threaded DEF DescribeFresh, Go, Leave, JobInv
  <2>2. retiredPeers' = retiredPeers /\ stop' = stop
    BY <1>24 DEF DescribeFresh, manager
  <2>3. MarksRest
    BY <1>24
    DEF DescribeFresh, InfoInv, PeerInfo, Offered, Unclaimed, Described,
        Delivered, Closed, manager
  <2>4. EntersOn(h)
    BY <1>24, Threaded, NoneApart
    DEF DescribeFresh, At, Registered, RestInv, manager
  <2>5. OwnsOn(h)
    BY <1>24, Threaded, NoneApart
    DEF DescribeFresh, At, Go, Leave, Idle, JobInv, Jobs, Private, Mine,
        manager, Registered, OpenInv
  <2>6. TouchesOn(h)
    BY <1>24, Threaded, NoneApart
    DEF DescribeFresh, At, Quiet, Go, Leave, Idle, JobInv, Jobs, Touches,
        Registered, RestInv, Equipped, UuidPlaces, manager
  <2>7. ErasesOn(h)
    BY <1>24, Threaded, NoneApart
    DEF DescribeFresh, Go, Leave, Idle, JobInv, Jobs, Erasing, manager
  <2>8. ClosesOn(h)
    BY <1>24, Threaded, NoneApart
    DEF DescribeFresh, At, Go, Leave, Idle, JobInv, Jobs, Closing, manager
  <2> QED
    BY <2>1, <2>2, <2>3, <2>4, <2>5, <2>6, <2>7, <2>8, OpenKept, Threaded
<1>25. ASSUME NEW h \in Handlers, Rollback(h) PROVE OpenInv'
  <2>1. OthersRest(h)
    BY <1>25, Threaded DEF Rollback, Go, Leave, JobInv
  <2>2. retiredPeers' = retiredPeers /\ stop' = stop
    BY <1>25 DEF Rollback, manager
  <2>3. MarksRest
    BY <1>25
    DEF Rollback, InfoInv, PeerInfo, Offered, Unclaimed, Described, Delivered,
        Closed, manager
  <2>4. EntersOn(h)
    BY <1>25, Threaded, NoneApart
    DEF Rollback, At, Registered, RestInv, manager
  <2>5. OwnsOn(h)
    BY <1>25, Threaded, NoneApart
    DEF Rollback, At, Go, Leave, Idle, JobInv, Jobs, Private, Mine, manager,
        Registered, OpenInv
  <2>6. TouchesOn(h)
    BY <1>25, Threaded, NoneApart
    DEF Rollback, At, Quiet, Go, Leave, Idle, JobInv, Jobs, Touches,
        Registered, RestInv, Equipped, UuidPlaces, manager
  <2>7. ErasesOn(h)
    BY <1>25, Threaded, NoneApart
    DEF Rollback, Go, Leave, Idle, JobInv, Jobs, Erasing, manager
  <2>8. ClosesOn(h)
    BY <1>25, Threaded, NoneApart
    DEF Rollback, At, Go, Leave, Idle, JobInv, Jobs, Closing, manager
  <2> QED
    BY <2>1, <2>2, <2>3, <2>4, <2>5, <2>6, <2>7, <2>8, OpenKept, Threaded
<1>26. ASSUME NEW h \in Handlers, Restore(h) PROVE OpenInv'
  <2>1. OthersRest(h)
    BY <1>26, Threaded DEF Restore, Go, Leave, JobInv
  <2>2. retiredPeers' = retiredPeers /\ stop' = stop
    BY <1>26 DEF Restore, manager
  <2>3. MarksRest
    BY <1>26
    DEF Restore, InfoInv, PeerInfo, Offered, Unclaimed, Described, Delivered,
        Closed, manager
  <2>4. EntersOn(h)
    BY <1>26, Threaded, NoneApart
    DEF Restore, At, Registered, RestInv, manager, MayRestore, Mine, JobInv,
        Equipped, UuidPlaces, PeerPlaces
  <2>5. OwnsOn(h)
    BY <1>26, Threaded, NoneApart
    DEF Restore, At, Go, Leave, Idle, JobInv, Jobs, Private, Mine, manager
  <2>6. TouchesOn(h)
    BY <1>26, Threaded, NoneApart
    DEF Restore, At, Quiet, Go, Leave, Idle, JobInv, Jobs, Touches,
        Registered, RestInv, Equipped, UuidPlaces, manager
  <2>7. ErasesOn(h)
    BY <1>26, Threaded, NoneApart
    DEF Restore, Go, Leave, Idle, JobInv, Jobs, Erasing, manager
  <2>8. ClosesOn(h)
    BY <1>26, Threaded, NoneApart
    DEF Restore, At, Go, Leave, Idle, JobInv, Jobs, Closing, manager
  <2> QED
    BY <2>1, <2>2, <2>3, <2>4, <2>5, <2>6, <2>7, <2>8, OpenKept, Threaded
<1>27. ASSUME NEW h \in Handlers, Disconnect(h) PROVE OpenInv'
  <2>1. OthersRest(h)
    BY <1>27, Threaded DEF Disconnect, Go, Leave, JobInv
  <2>2. retiredPeers' = retiredPeers /\ stop' = stop
    BY <1>27 DEF Disconnect, manager
  <2>3. MarksRest
    BY <1>27
    DEF Disconnect, InfoInv, PeerInfo, Offered, Unclaimed, Described,
        Delivered, Closed, manager
  <2>4. EntersOn(h)
    BY <1>27, Threaded, NoneApart
    DEF Disconnect, At, Registered, RestInv, manager
  <2>5. OwnsOn(h)
    BY <1>27, Threaded, NoneApart
    DEF Disconnect, At, Go, Leave, Idle, JobInv, Jobs, Private, Mine, manager
  <2>6. TouchesOn(h)
    BY <1>27, Threaded, NoneApart
    DEF Disconnect, At, Quiet, Go, Leave, Idle, JobInv, Jobs, Touches,
        Registered, RestInv, Equipped, UuidPlaces, manager
  <2>7. ErasesOn(h)
    BY <1>27, Threaded, NoneApart
    DEF Disconnect, Go, Leave, Idle, JobInv, Jobs, Erasing, manager
  <2>8. ClosesOn(h)
    BY <1>27, Threaded, NoneApart
    DEF Disconnect, At, Go, Leave, Idle, JobInv, Jobs, Closing, manager,
        Registered, RestInv, Entries
  <2> QED
    BY <2>1, <2>2, <2>3, <2>4, <2>5, <2>6, <2>7, <2>8, OpenKept, Threaded
<1>28. ASSUME NEW h \in Handlers, Close(h) PROVE OpenInv'
  <2>1. OthersRest(h)
    BY <1>28, Threaded DEF Close, Go, Leave, JobInv
  <2>2. retiredPeers' = retiredPeers /\ stop' = stop
    BY <1>28 DEF Close, manager
  <2>3. \A k \in Generations :
          info'[k].retired = info[k].retired /\ (info'[k].conn # info[k].conn => info'[k].conn = "closed" /\ Closing(h, k))
    BY <1>28
    DEF Close, InfoInv, PeerInfo, Offered, Unclaimed, Described, Delivered,
        Closed, manager, Closing, At, JobInv, Equipped, PeerPlaces
  <2>4. EntersOn(h)
    BY <1>28, Threaded, NoneApart DEF Close, At, Registered, RestInv, manager
  <2>5. OwnsOn(h)
    BY <1>28, Threaded, NoneApart
    DEF Close, At, Go, Leave, Idle, JobInv, Jobs, Private, Mine, manager
  <2>6. TouchesOn(h)
    BY <1>28, Threaded, NoneApart
    DEF Close, At, Quiet, Go, Leave, Idle, JobInv, Jobs, Touches, Registered,
        RestInv, Equipped, UuidPlaces, manager
  <2>7. ErasesOn(h)
    BY <1>28, Threaded, NoneApart
    DEF Close, Go, Leave, Idle, JobInv, Jobs, Erasing, manager
  <2>8. ClosesOn(h)
    BY <1>28, Threaded, NoneApart
    DEF Close, At, Go, Leave, Idle, JobInv, Jobs, Closing, manager
  <2> QED
    BY <2>1, <2>2, <2>3, <2>4, <2>5, <2>6, <2>7, <2>8, OpenKept, Threaded
<1>29. ASSUME NEW g \in Generations, StateChange(g) PROVE OpenInv'
  <2>1. OthersRest(g)
    BY <1>29, Threaded DEF StateChange, Go, Leave, JobInv
  <2>2. retiredPeers' = retiredPeers /\ stop' = stop
    BY <1>29 DEF StateChange, manager
  <2>3. MarksRest
    BY <1>29
    DEF StateChange, InfoInv, PeerInfo, Offered, Unclaimed, Described,
        Delivered, Closed, manager
  <2>4. EntersOn(g)
    BY <1>29, Threaded, NoneApart
    DEF StateChange, At, Registered, RestInv, manager
  <2>5. OwnsOn(g)
    BY <1>29, Threaded, NoneApart
    DEF StateChange, At, Go, Leave, Idle, JobInv, Jobs, Private, Mine, manager
  <2>6. TouchesOn(g)
    BY <1>29, Threaded, NoneApart
    DEF StateChange, At, Quiet, Go, Leave, Idle, JobInv, Jobs, Touches,
        Registered, RestInv, Equipped, UuidPlaces, manager, Listens, Current,
        InfoInv, PeerInfo
  <2>7. ErasesOn(g)
    BY <1>29, Threaded, NoneApart
    DEF StateChange, Go, Leave, Idle, JobInv, Jobs, Erasing, manager
  <2>8. ClosesOn(g)
    BY <1>29, Threaded, NoneApart
    DEF StateChange, At, Go, Leave, Idle, JobInv, Jobs, Closing, manager
  <2> QED
    BY <2>1, <2>2, <2>3, <2>4, <2>5, <2>6, <2>7, <2>8, OpenKept, Threaded
<1>30. ASSUME NEW g \in Generations, Connected(g) PROVE OpenInv'
  <2>1. OthersRest(g)
    BY <1>30, Threaded DEF Connected, Go, Leave, JobInv
  <2>2. retiredPeers' = retiredPeers /\ stop' = stop
    BY <1>30 DEF Connected, manager
  <2>3. MarksRest
    <3>1. info' = [info EXCEPT ![g].state = "connected", ![g].notified = FALSE,
                               ![g].retired = FALSE, ![g].report = "connected"]
      BY <1>30 DEF Connected
    <3>2. /\ info'[g] = [info[g] EXCEPT !.state = "connected", !.notified = FALSE,
                                        !.retired = FALSE, !.report = "connected"]
          /\ \A k \in Generations : k # g => info'[k] = info[k]
      BY <3>1 DEF InfoInv
    <3>3. info[g] \in PeerInfo /\ (info[g].retired => info'[g].retired)
      BY DEF InfoInv, MarksStay
    <3>4. info'[g].conn = info[g].conn /\ info'[g].retired = FALSE
      BY <3>2, <3>3 DEF PeerInfo
    <3>5. info[g].retired \in BOOLEAN
      BY <3>3 DEF PeerInfo
    <3> QED BY <3>2, <3>3, <3>4, <3>5
  <2>4. EntersOn(g)
    BY <1>30, Threaded, NoneApart
    DEF Connected, At, Registered, RestInv, manager
  <2>5. OwnsOn(g)
    BY <1>30, Threaded, NoneApart
    DEF Connected, At, Go, Leave, Idle, JobInv, Jobs, Private, Mine, manager
  <2>6. TouchesOn(g)
    BY <1>30, Threaded, NoneApart
    DEF Connected, At, Quiet, Go, Leave, Idle, JobInv, Jobs, Touches,
        Registered, RestInv, Equipped, UuidPlaces, manager
  <2>7. ErasesOn(g)
    BY <1>30, Threaded, NoneApart
    DEF Connected, Go, Leave, Idle, JobInv, Jobs, Erasing, manager
  <2>8. ClosesOn(g)
    BY <1>30, Threaded, NoneApart
    DEF Connected, At, Go, Leave, Idle, JobInv, Jobs, Closing, manager
  <2> QED
    BY <2>1, <2>2, <2>3, <2>4, <2>5, <2>6, <2>7, <2>8, OpenKept, Threaded
<1>31. ASSUME NEW g \in Generations, Disconnected(g) PROVE OpenInv'
  <2>1. OthersRest(g)
    BY <1>31, Threaded DEF Disconnected, Go, Leave, JobInv
  <2>2. retiredPeers' = retiredPeers /\ stop' = stop
    BY <1>31 DEF Disconnected, manager
  <2>3. MarksRest
    BY <1>31
    DEF Disconnected, InfoInv, PeerInfo, Offered, Unclaimed, Described,
        Delivered, Closed, manager
  <2>4. EntersOn(g)
    BY <1>31, Threaded, NoneApart
    DEF Disconnected, At, Registered, RestInv, manager
  <2>5. OwnsOn(g)
    BY <1>31, Threaded, NoneApart
    DEF Disconnected, At, Go, Leave, Idle, JobInv, Jobs, Private, Mine,
        manager
  <2>6. TouchesOn(g)
    BY <1>31, Threaded, NoneApart
    DEF Disconnected, At, Quiet, Go, Leave, Idle, JobInv, Jobs, Touches,
        Registered, RestInv, Equipped, UuidPlaces, manager
  <2>7. ErasesOn(g)
    BY <1>31, Threaded, NoneApart
    DEF Disconnected, Go, Leave, Idle, JobInv, Jobs, Erasing, manager
  <2>8. ClosesOn(g)
    BY <1>31, Threaded, NoneApart
    DEF Disconnected, At, Go, Leave, Idle, JobInv, Jobs, Closing, manager
  <2> QED
    BY <2>1, <2>2, <2>3, <2>4, <2>5, <2>6, <2>7, <2>8, OpenKept, Threaded
<1>32. ASSUME NEW g \in Generations, DispatchDisconnected(g) PROVE OpenInv'
  <2>1. OthersRest(g)
    BY <1>32, Threaded DEF DispatchDisconnected, Go, Leave, JobInv
  <2>2. retiredPeers' = retiredPeers /\ stop' = stop
    BY <1>32 DEF DispatchDisconnected, manager
  <2>3. MarksRest
    BY <1>32
    DEF DispatchDisconnected, InfoInv, PeerInfo, Offered, Unclaimed,
        Described, Delivered, Closed, manager
  <2>4. EntersOn(g)
    BY <1>32, Threaded, NoneApart
    DEF DispatchDisconnected, At, Registered, RestInv, manager
  <2>5. OwnsOn(g)
    BY <1>32, Threaded, NoneApart
    DEF DispatchDisconnected, At, Go, Leave, Idle, JobInv, Jobs, Private,
        Mine, manager
  <2>6. TouchesOn(g)
    BY <1>32, Threaded, NoneApart
    DEF DispatchDisconnected, At, Quiet, Go, Leave, Idle, JobInv, Jobs,
        Touches, Registered, RestInv, Equipped, UuidPlaces, manager
  <2>7. ErasesOn(g)
    BY <1>32, Threaded, NoneApart
    DEF DispatchDisconnected, Go, Leave, Idle, JobInv, Jobs, Erasing, manager
  <2>8. ClosesOn(g)
    BY <1>32, Threaded, NoneApart
    DEF DispatchDisconnected, At, Go, Leave, Idle, JobInv, Jobs, Closing,
        manager
  <2> QED
    BY <2>1, <2>2, <2>3, <2>4, <2>5, <2>6, <2>7, <2>8, OpenKept, Threaded
<1>33. ASSUME NEW g \in Generations, LocalDescription(g) PROVE OpenInv'
  <2>1. OthersRest(g)
    BY <1>33, Threaded DEF LocalDescription, Go, Leave, JobInv
  <2>2. retiredPeers' = retiredPeers /\ stop' = stop
    BY <1>33 DEF LocalDescription, manager
  <2>3. MarksRest
    BY <1>33
    DEF LocalDescription, InfoInv, PeerInfo, Offered, Unclaimed, Described,
        Delivered, Closed, manager
  <2>4. EntersOn(g)
    BY <1>33, Threaded, NoneApart
    DEF LocalDescription, At, Registered, RestInv, manager
  <2>5. OwnsOn(g)
    BY <1>33, Threaded, NoneApart
    DEF LocalDescription, At, Go, Leave, Idle, JobInv, Jobs, Private, Mine,
        manager
  <2>6. TouchesOn(g)
    BY <1>33, Threaded, NoneApart
    DEF LocalDescription, At, Quiet, Go, Leave, Idle, JobInv, Jobs, Touches,
        Registered, RestInv, Equipped, UuidPlaces, manager
  <2>7. ErasesOn(g)
    BY <1>33, Threaded, NoneApart
    DEF LocalDescription, Go, Leave, Idle, JobInv, Jobs, Erasing, manager
  <2>8. ClosesOn(g)
    BY <1>33, Threaded, NoneApart
    DEF LocalDescription, At, Go, Leave, Idle, JobInv, Jobs, Closing, manager
  <2> QED
    BY <2>1, <2>2, <2>3, <2>4, <2>5, <2>6, <2>7, <2>8, OpenKept, Threaded
<1>34. ASSUME NEW g \in Generations, SendLocal(g) PROVE OpenInv'
  <2>1. OthersRest(g)
    BY <1>34, Threaded DEF SendLocal, Go, Leave, JobInv
  <2>2. retiredPeers' = retiredPeers /\ stop' = stop
    BY <1>34 DEF SendLocal, manager
  <2>3. MarksRest
    BY <1>34
    DEF SendLocal, InfoInv, PeerInfo, Offered, Unclaimed, Described,
        Delivered, Closed, manager
  <2>4. EntersOn(g)
    BY <1>34, Threaded, NoneApart
    DEF SendLocal, At, Registered, RestInv, manager
  <2>5. OwnsOn(g)
    BY <1>34, Threaded, NoneApart
    DEF SendLocal, At, Go, Leave, Idle, JobInv, Jobs, Private, Mine, manager
  <2>6. TouchesOn(g)
    BY <1>34, Threaded, NoneApart
    DEF SendLocal, At, Quiet, Go, Leave, Idle, JobInv, Jobs, Touches,
        Registered, RestInv, Equipped, UuidPlaces, manager
  <2>7. ErasesOn(g)
    BY <1>34, Threaded, NoneApart
    DEF SendLocal, Go, Leave, Idle, JobInv, Jobs, Erasing, manager
  <2>8. ClosesOn(g)
    BY <1>34, Threaded, NoneApart
    DEF SendLocal, At, Go, Leave, Idle, JobInv, Jobs, Closing, manager
  <2> QED
    BY <2>1, <2>2, <2>3, <2>4, <2>5, <2>6, <2>7, <2>8, OpenKept, Threaded
<1>35. ASSUME NEW t \in Threads, BeginRetire(t) PROVE OpenInv'
  <2>1. PICK g \in Generations :
          g = Target(t) /\ job[t].at \in {"retirePeer", "retireFresh"}
    BY <1>35
    DEF BeginRetire, Target, JobInv, Equipped, PeerPlaces, FreshPlaces
  <2>2. /\ \A k \in Generations : info'[k].conn = info[k].conn
        /\ \A k \in Generations \ {g} : info'[k] = info[k]
        /\ info'[g].retired
    BY <1>35, <2>1 DEF BeginRetire, InfoInv, PeerInfo
  <2>3. /\ OthersRest(t)
        /\ job'[t].at = IF job[t].at = "retirePeer" THEN "erasePeer" ELSE "eraseFresh"
        /\ job'[t].peer = job[t].peer /\ job'[t].fresh = job[t].fresh
        /\ job'[t].next = job[t].next
    BY <1>35 DEF BeginRetire, JobInv, Jobs
  <2>4. /\ retiredPeers' = retiredPeers /\ stop' = stop
        /\ \A k \in Generations : Registered(k)' <=> Registered(k)
    BY <1>35 DEF BeginRetire, Registered
  <2>5. \A k \in Threads, l \in Generations :
          /\ Private(k, l)' <=> Private(k, l)
          /\ Mine(k, l)' <=> Mine(k, l)
          /\ Touches(k, l)' <=> Touches(k, l)
          /\ Closing(k, l)' <=> Closing(k, l)
          /\ Erasing(k, l)' <=> Erasing(k, l) \/ (k = t /\ l = g)
    BY <2>1, <2>3 DEF Private, Mine, Touches, Closing, At, Erasing, Target
  <2>6. \A k \in Threads : ~Private(k, g)
    <3>1. Touches(t, g) /\ ~Private(t, g)
      BY <2>1 DEF Touches, Target, Private
    <3> QED BY <3>1 DEF OpenInv
  <2>7. \A l \in Generations : /\ Discarded(l)' => l = g \/ Discarded(l)
                               /\ Withdrawn(l)' => Withdrawn(l)
    BY <2>2, <2>4, <2>5 DEF Discarded, Withdrawn, Releasing
  <2>8. \A l \in Generations : Releasing(l)' <=> Releasing(l)
    BY <2>4 DEF Releasing
  <2> QED BY <2>2, <2>4, <2>5, <2>6, <2>7, <2>8 DEF OpenInv
<1>36. ASSUME NEW t \in Threads, FinishRetire(t) PROVE OpenInv'
  <2>1. PICK g \in Generations : g = Target(t) /\ Erasing(t, g)
    BY <1>36
    DEF FinishRetire, Target, JobInv, Equipped, PeerPlaces, FreshPlaces,
        Erasing
  <2>2. OthersRest(t)
    BY <1>36 DEF FinishRetire, Leave, JobInv
  <2>3. /\ retiredPeers' \subseteq retiredPeers \cup {g}
        /\ stop' = stop /\ info' = info
        /\ ~Registered(g)' /\ \A k \in Generations : Registered(k)' => Registered(k)
    BY <1>36, <2>1, NoneApart DEF FinishRetire, Without, Registered, RestInv
  <2>4. \A l \in Generations :
          /\ ~Private(t, l)' /\ ~Mine(t, l)' /\ ~Closing(t, l)' /\ ~Erasing(t, l)'
          /\ Touches(t, l)' => Touches(t, l)
    BY <1>36, NoneApart
    DEF FinishRetire, Leave, Idle, JobInv, Jobs, Returns, Private, Mine,
        Closing, At, Erasing, Touches
  <2>5. \A k \in Threads \ {t}, l \in Generations :
          /\ Private(k, l)' <=> Private(k, l)
          /\ Mine(k, l)' <=> Mine(k, l)
          /\ Touches(k, l)' <=> Touches(k, l)
          /\ Closing(k, l)' <=> Closing(k, l)
          /\ Erasing(k, l)' <=> Erasing(k, l)
    BY <2>2 DEF Private, Mine, Touches, Closing, At, Erasing, Target
  <2>6. Discarded(g) /\ info[g].retired
    BY <2>1 DEF Discarded, OpenInv
  <2>7. \A l \in Generations : /\ Discarded(l)' => Discarded(l)
                               /\ Withdrawn(l)' => Withdrawn(l)
                               /\ Releasing(l)' <=> Releasing(l)
    BY <2>3, <2>4, <2>5, <2>6 DEF Discarded, Withdrawn, Releasing
  <2> QED BY <2>3, <2>4, <2>5, <2>7 DEF OpenInv
<1>37. ASSUME StartPublishing PROVE OpenInv'
  <2>1. AllOn
    BY <1>37
    DEF StartPublishing, Private, Mine, Touches, Closing, At, Erasing, Target
  <2>2. PICK aged \in SUBSET retiredPeers :
           retiredPeers' = retiredPeers \ aged /\ info' = Released(aged)
    BY <1>37 DEF StartPublishing
  <2>3. \A g \in Generations :
          /\ g \notin aged => info'[g] = info[g]
          /\ g \in aged => info'[g].conn = "released" /\ info'[g].retired
    BY <2>2, ReleasedDoes
  <2>6. \A g \in aged : info[g].retired /\ ~Registered(g)
    BY <2>2 DEF OpenInv, Discarded, RestInv
  <2>4. /\ stop'.todo = stop.todo
        /\ \A g \in Generations : /\ Registered(g)' <=> Registered(g)
                                  /\ Releasing(g)' => Releasing(g)
    BY <1>37 DEF StartPublishing, Registered, Releasing, StopInv, Resting
  <2>5. \A g \in Generations : /\ Discarded(g)' => Discarded(g) \/ g \in aged
                               /\ Withdrawn(g)' => Withdrawn(g)
    BY <2>1, <2>2, <2>3, <2>4 DEF Discarded, Withdrawn
  <2> QED BY <2>1, <2>2, <2>3, <2>4, <2>5, <2>6 DEF OpenInv
<1>38. ASSUME StopPublishing PROVE OpenInv'
  <2>1. AllOn
    BY <1>38
    DEF StopPublishing, Private, Mine, Touches, Closing, At, Erasing, Target
  <2>2. /\ info' = info /\ retiredPeers' = retiredPeers /\ stop'.todo = stop.todo
        /\ \A g \in Generations : /\ Registered(g)' <=> Registered(g)
                                  /\ ~Releasing(g)'
    BY <1>38 DEF StopPublishing, Registered, Releasing, StopInv
  <2>3. \A g \in Generations :
          (Discarded(g)' => Discarded(g)) /\ (Withdrawn(g)' => Withdrawn(g))
    BY <2>1, <2>2 DEF Discarded, Withdrawn
  <2> QED BY <2>1, <2>2, <2>3 DEF OpenInv
<1>39. ASSUME Collect PROVE OpenInv'
  <2>1. AllOn
    BY <1>39 DEF Collect, Private, Mine, Touches, Closing, At, Erasing, Target
  <2>2. /\ info' = info /\ retiredPeers' = retiredPeers /\ stop'.todo = Collected
        /\ \A g \in Generations : ~Registered(g)' /\ ~Releasing(g)'
    BY <1>39, NoneApart DEF Collect, Registered, Releasing, StopInv, Resting
  <2>3. \A g \in Generations : /\ Discarded(g)' => Discarded(g)
                               /\ Withdrawn(g)' => Withdrawn(g) \/ Registered(g)
    BY <2>1, <2>2 DEF Discarded, Withdrawn, Collected
  <2> QED BY <2>1, <2>2, <2>3 DEF OpenInv
<1>40. ASSUME MarkRetired PROVE OpenInv'
  <2>1. AllOn
    BY <1>40
    DEF MarkRetired, Private, Mine, Touches, Closing, At, Erasing, Target
  <2>2. PICK p \in stop.todo :
          /\ info' = [info EXCEPT ![p].retired = TRUE]
          /\ stop' = [at |-> "release", todo |-> stop.todo \ {p}, peer |-> p]
    BY <1>40 DEF MarkRetired
  <2>3. p \in Generations /\ Withdrawn(p)
    BY <2>2 DEF StopInv, Withdrawn
  <2>4. /\ info'[p].retired /\ \A g \in Generations \ {p} : info'[g] = info[g]
        /\ \A g \in Generations : info'[g].conn = info[g].conn
    BY <2>2, <2>3 DEF InfoInv, PeerInfo
  <2>5. /\ retiredPeers' = retiredPeers
        /\ \A g \in Generations : Registered(g)' <=> Registered(g)
        /\ \A g \in Generations : Releasing(g)' <=> g = p
    BY <1>40, <2>2 DEF MarkRetired, Registered, Releasing
  <2>6. \A g \in Generations : /\ Discarded(g)' => Discarded(g) \/ g = p
                               /\ Withdrawn(g)' => Withdrawn(g)
    BY <2>1, <2>2, <2>4, <2>5 DEF Discarded, Withdrawn
  <2>7. ~Registered(p) /\ \A t \in Threads : ~Mine(t, p) /\ ~Private(t, p)
    BY <2>3 DEF OpenInv, Mine
  <2> QED BY <2>1, <2>4, <2>5, <2>6, <2>7 DEF OpenInv
<1>41. ASSUME ReleaseOne PROVE OpenInv'
  <2>1. AllOn
    BY <1>41
    DEF ReleaseOne, Private, Mine, Touches, Closing, At, Erasing, Target
  <2>2. PICK p \in Generations : p = stop.peer /\ Releasing(p)
    BY <1>41 DEF ReleaseOne, StopInv, Releasing
  <2>3. /\ info'[p].retired /\ info'[p].conn = "released"
        /\ \A g \in Generations \ {p} : info'[g] = info[g]
    <3>1. info' = Released({p})
      BY <1>41, <2>2 DEF ReleaseOne
    <3> QED BY <3>1, ReleasedDoes
  <2>4. /\ retiredPeers' = retiredPeers /\ stop'.todo = stop.todo
        /\ \A g \in Generations :
             (Registered(g)' <=> Registered(g)) /\ ~Releasing(g)'
    BY <1>41 DEF ReleaseOne, Registered, Releasing, StopInv
  <2>5. info[p].retired /\ ~Registered(p)
    BY <2>2 DEF OpenInv, Discarded
  <2>6. \A g \in Generations : /\ Discarded(g)' => Discarded(g) \/ g = p
                               /\ Withdrawn(g)' => Withdrawn(g)
    BY <2>1, <2>3, <2>4 DEF Discarded, Withdrawn
  <2> QED BY <2>1, <2>3, <2>4, <2>5, <2>6 DEF OpenInv
<1>42. ASSUME FinishStop PROVE OpenInv'
  <2>1. AllOn
    BY <1>42
    DEF FinishStop, Private, Mine, Touches, Closing, At, Erasing, Target
  <2>2. PICK aged \in SUBSET retiredPeers :
           retiredPeers' = retiredPeers \ aged /\ info' = Released(aged)
    BY <1>42 DEF FinishStop
  <2>3. \A g \in Generations :
          /\ g \notin aged => info'[g] = info[g]
          /\ g \in aged => info'[g].conn = "released" /\ info'[g].retired
    BY <2>2, ReleasedDoes
  <2>6. \A g \in aged : info[g].retired /\ ~Registered(g)
    BY <2>2 DEF OpenInv, Discarded, RestInv
  <2>4. /\ stop'.todo = stop.todo
        /\ \A g \in Generations : /\ Registered(g)' <=> Registered(g)
                                  /\ Releasing(g)' => Releasing(g)
    BY <1>42 DEF FinishStop, Registered, Releasing, StopInv, Resting
  <2>5. \A g \in Generations : /\ Discarded(g)' => Discarded(g) \/ g \in aged
                               /\ Withdrawn(g)' => Withdrawn(g)
    BY <2>1, <2>2, <2>3, <2>4 DEF Discarded, Withdrawn
  <2> QED BY <2>1, <2>2, <2>3, <2>4, <2>5, <2>6 DEF OpenInv
<1>43. CASE UNCHANGED vars
  BY <1>43 DEF vars, OpenInv, Discarded, Withdrawn, Private, Mine, Touches,
     Closing, At, Erasing, Target, Releasing, Registered
<1> QED
  BY <1>1, <1>2, <1>3, <1>4, <1>5, <1>6, <1>7, <1>8, <1>9, <1>10, <1>11,
     <1>12, <1>13, <1>14, <1>15, <1>16, <1>17, <1>18, <1>19, <1>20, <1>21,
     <1>22, <1>23, <1>24, <1>25, <1>26, <1>27, <1>28, <1>29, <1>30, <1>31,
     <1>32, <1>33, <1>34, <1>35, <1>36, <1>37, <1>38, <1>39, <1>40, <1>41,
     <1>42, <1>43 DEF Next, Request, Restart, Leaving, Callback, Retire,
     Control
------------------------------------------------------------------------------
\* What is known of every connection, whatever is done with the marks.
FullInv == RegistryInv /\ Created /\ Custody /\ OwnThread /\ Told

LEMMA FullInit == Init => FullInv /\ OpenInv
<1> SUFFICES ASSUME Init PROVE FullInv /\ OpenInv
  OBVIOUS
<1>1. TypeInv /\ OwnedInv
  BY TypeInit DEF Init, OwnedInv, Owned, Idle, FreshOwned, PeerOwned
<1>2. Entries /\ ActiveIsRegistered
  BY RegistryAssumption
  DEF Init, Entries, ActiveIsRegistered, Registered, Generations
<1>3. \A g \in Generations :
        info[g] = Uncreated /\ ~Registered(g) /\ ~(g < generation)
  BY NoneApart DEF Init, Registered, Generations
<1>4. /\ \A t \in Threads : job[t] = Idle
      /\ retiredPeers = {} /\ stop = Resting
      /\ \A u \in Uuids : peers[u] = None
  BY DEF Init
<1>5. Created
  BY <1>3, <1>4, NoneApart DEF Created, Idle, Resting, Uncreated
<1>6. Custody
  BY <1>3, <1>4 DEF Custody, Held, InHand, Erasing, Idle, Resting, Uncreated
<1>7. OwnThread /\ Told
  BY <1>3, <1>4, Threaded DEF OwnThread, Told, Idle, Uncreated
<1>8. OpenInv
  BY <1>3, <1>4 DEF OpenInv, Discarded, Withdrawn, Closing, At, Mine, Private,
     Touches, Erasing, Releasing, Idle, Resting, Uncreated
<1> QED BY <1>1, <1>2, <1>5, <1>6, <1>7, <1>8 DEF FullInv, RegistryInv

LEMMA FullStep == FullInv /\ [Next]_vars => FullInv'
BY JobStep, InfoStep, StopStep, RestStep, OwnedStep, EntriesStep, ActiveStep,
   CreatedStep, CustodyStep, OwnThreadStep, ToldStep
DEF FullInv, RegistryInv, TypeInv

\* When all is quiet every connection that was created is registered, waits for
\* its release or was released, for any number of handlers, viewers and
\* connections.
THEOREM NothingLost == Spec => []NoPeerLost
<1>1. FullInv => NoPeerLost
  <2> SUFFICES ASSUME FullInv, Settled, NEW g \in Generations,
                      info[g].conn \in {"open", "closed"}
               PROVE  Registered(g) \/ g \in retiredPeers
    BY DEF NoPeerLost
  <2>1. \A t \in Threads : ~Keeps(t, g) /\ ~Erasing(t, g)
    BY DEF Settled, At, Keeps, Erasing
  <2>2. g \notin stop.todo /\ ~Releasing(g)
    BY DEF Settled, FullInv, Custody, Releasing
  <2> QED BY <2>1, <2>2 DEF FullInv, Custody, Held, InHand
<1> QED BY <1>1, FullInit, FullStep, PTL DEF Spec

\* The owner hears of the disconnect of a connection once, and of nothing of
\* that connection afterwards.
THEOREM ReportsOrdered == Spec => ReportsInOrder
<1> DEFINE Kept == \A g \in Generations : info[g].report = "disconnected" =>
                     info'[g].report = "disconnected"
<1>1. FullInv /\ [Next]_vars => [Kept]_vars
  <2> SUFFICES ASSUME FullInv, Next, NEW g \in Generations,
                      info[g].report = "disconnected"
               PROVE  info'[g].report = "disconnected"
    OBVIOUS
  <2> USE DEF FullInv, RegistryInv, TypeInv
  <2>1. g < generation /\ job[g].at # "changed"
    BY DEF Told
<2>2. ASSUME NEW h \in Handlers, OfferRequest(h)
      PROVE  info'[g].report = "disconnected"
    BY <2>2
    DEF OfferRequest, InfoInv, PeerInfo, Offered, Unclaimed, Described,
        Closed, manager
<2>3. ASSUME NEW h \in Handlers, LookupNobody(h)
      PROVE  info'[g].report = "disconnected"
    BY <2>3
    DEF LookupNobody, InfoInv, PeerInfo, Offered, Unclaimed, Described,
        Closed, manager
<2>4. ASSUME NEW h \in Handlers, LookupStale(h)
      PROVE  info'[g].report = "disconnected"
    BY <2>4
    DEF LookupStale, InfoInv, PeerInfo, Offered, Unclaimed, Described, Closed,
        manager
<2>5. ASSUME NEW h \in Handlers, LookupPeer(h)
      PROVE  info'[g].report = "disconnected"
    BY <2>5
    DEF LookupPeer, InfoInv, PeerInfo, Offered, Unclaimed, Described, Closed,
        manager
<2>6. ASSUME NEW h \in Handlers, Admit(h)
      PROVE  info'[g].report = "disconnected"
    BY <2>6
    DEF Admit, InfoInv, PeerInfo, Offered, Unclaimed, Described, Closed,
        manager
<2>7. ASSUME NEW h \in Handlers, Create(h)
      PROVE  info'[g].report = "disconnected"
    <3>1. ~(generation < generation)
      BY GenerationType
    <3>2. CASE Construct(h, "register")
      BY <2>1, <3>1, <3>2, ReleasedFields DEF Construct, Released
    <3>3. CASE ConstructThrows(h)
      <4>1. PICK aged : info' = [Released(aged) EXCEPT ![generation].retired = TRUE,
                                                      ![generation].conn = "released"]
        BY <3>3 DEF ConstructThrows
      <4>2. info'[g] = Released(aged)[g]
        BY <2>1, <3>1, <4>1 DEF Released
      <4> QED BY <4>2, ReleasedFields
    <3> QED BY <2>7, <3>2, <3>3 DEF Create
<2>8. ASSUME NEW h \in Handlers, Register(h)
      PROVE  info'[g].report = "disconnected"
    BY <2>8
    DEF Register, InfoInv, PeerInfo, Offered, Unclaimed, Described, Closed,
        manager
<2>9. ASSUME NEW h \in Handlers, RegisterConcurrent(h)
      PROVE  info'[g].report = "disconnected"
    BY <2>9
    DEF RegisterConcurrent, InfoInv, PeerInfo, Offered, Unclaimed, Described,
        Closed, manager
<2>10. ASSUME NEW h \in Handlers, Claim(h)
       PROVE  info'[g].report = "disconnected"
    BY <2>10
    DEF Claim, InfoInv, PeerInfo, Offered, Unclaimed, Described, Closed,
        manager
<2>11. ASSUME NEW h \in Handlers, Resend(h)
       PROVE  info'[g].report = "disconnected"
    BY <2>11
    DEF Resend, InfoInv, PeerInfo, Offered, Unclaimed, Described, Closed,
        manager
<2>12. ASSUME NEW h \in Handlers, Describe(h)
       PROVE  info'[g].report = "disconnected"
    BY <2>12
    DEF Describe, InfoInv, PeerInfo, Offered, Unclaimed, Described, Closed,
        manager
<2>13. ASSUME NEW h \in Handlers, SendCached(h)
       PROVE  info'[g].report = "disconnected"
    BY <2>13
    DEF SendCached, InfoInv, PeerInfo, Offered, Unclaimed, Described, Closed,
        manager
<2>14. ASSUME NEW h \in Handlers, SetLocalDescription(h)
       PROVE  info'[g].report = "disconnected"
    BY <2>14
    DEF SetLocalDescription, InfoInv, PeerInfo, Offered, Unclaimed, Described,
        Closed, manager
<2>15. ASSUME NEW h \in Handlers, Answer(h)
       PROVE  info'[g].report = "disconnected"
    BY <2>15
    DEF Answer, InfoInv, PeerInfo, Offered, Unclaimed, Described, Closed,
        manager
<2>16. ASSUME NEW h \in Handlers, SetRemoteDescription(h)
       PROVE  info'[g].report = "disconnected"
    BY <2>16
    DEF SetRemoteDescription, InfoInv, PeerInfo, Offered, Unclaimed,
        Described, Closed, manager
<2>17. ASSUME NEW h \in Handlers, IceRestart(h)
       PROVE  info'[g].report = "disconnected"
    BY <2>17
    DEF IceRestart, InfoInv, PeerInfo, Offered, Unclaimed, Described, Closed,
        manager
<2>18. ASSUME NEW h \in Handlers, RestartPeer(h)
       PROVE  info'[g].report = "disconnected"
    BY <2>18
    DEF RestartPeer, InfoInv, PeerInfo, Offered, Unclaimed, Described, Closed,
        manager
<2>19. ASSUME NEW h \in Handlers, Rebuild(h)
       PROVE  info'[g].report = "disconnected"
    <3>1. ~(generation < generation)
      BY GenerationType
    <3>2. CASE Construct(h, "recheck")
      BY <2>1, <3>1, <3>2, ReleasedFields DEF Construct, Released
    <3>3. CASE ConstructThrows(h)
      <4>1. PICK aged : info' = [Released(aged) EXCEPT ![generation].retired = TRUE,
                                                      ![generation].conn = "released"]
        BY <3>3 DEF ConstructThrows
      <4>2. info'[g] = Released(aged)[g]
        BY <2>1, <3>1, <4>1 DEF Released
      <4> QED BY <4>2, ReleasedFields
    <3> QED BY <2>19, <3>2, <3>3 DEF Rebuild
<2>20. ASSUME NEW h \in Handlers, Recheck(h)
       PROVE  info'[g].report = "disconnected"
    BY <2>20
    DEF Recheck, InfoInv, PeerInfo, Offered, Unclaimed, Described, Closed,
        manager
<2>21. ASSUME NEW h \in Handlers, Swap(h)
       PROVE  info'[g].report = "disconnected"
    BY <2>21
    DEF Swap, InfoInv, PeerInfo, Offered, Unclaimed, Described, Closed,
        manager
<2>22. ASSUME NEW h \in Handlers, Superseded(h)
       PROVE  info'[g].report = "disconnected"
    BY <2>22
    DEF Superseded, InfoInv, PeerInfo, Offered, Unclaimed, Described, Closed,
        manager
<2>23. ASSUME NEW h \in Handlers, RestartOffer(h)
       PROVE  info'[g].report = "disconnected"
    BY <2>23
    DEF RestartOffer, InfoInv, PeerInfo, Offered, Unclaimed, Described,
        Closed, manager
<2>24. ASSUME NEW h \in Handlers, SendFresh(h)
       PROVE  info'[g].report = "disconnected"
    BY <2>24
    DEF SendFresh, InfoInv, PeerInfo, Offered, Unclaimed, Described, Closed,
        manager
<2>25. ASSUME NEW h \in Handlers, DescribeFresh(h)
       PROVE  info'[g].report = "disconnected"
    BY <2>25
    DEF DescribeFresh, InfoInv, PeerInfo, Offered, Unclaimed, Described,
        Closed, manager
<2>26. ASSUME NEW h \in Handlers, Rollback(h)
       PROVE  info'[g].report = "disconnected"
    BY <2>26
    DEF Rollback, InfoInv, PeerInfo, Offered, Unclaimed, Described, Closed,
        manager
<2>27. ASSUME NEW h \in Handlers, Restore(h)
       PROVE  info'[g].report = "disconnected"
    BY <2>27
    DEF Restore, InfoInv, PeerInfo, Offered, Unclaimed, Described, Closed,
        manager
<2>28. ASSUME NEW h \in Handlers, Disconnect(h)
       PROVE  info'[g].report = "disconnected"
    BY <2>28
    DEF Disconnect, InfoInv, PeerInfo, Offered, Unclaimed, Described, Closed,
        manager
<2>29. ASSUME NEW h \in Handlers, Close(h)
       PROVE  info'[g].report = "disconnected"
    BY <2>29
    DEF Close, InfoInv, PeerInfo, Offered, Unclaimed, Described, Closed,
        manager
<2>30. ASSUME NEW k \in Generations, StateChange(k)
       PROVE  info'[g].report = "disconnected"
    BY <2>30, <2>1
    DEF StateChange, At, InfoInv, PeerInfo, Offered, Delivered, manager
<2>31. ASSUME NEW k \in Generations, Connected(k)
       PROVE  info'[g].report = "disconnected"
    BY <2>31, <2>1
    DEF Connected, At, InfoInv, PeerInfo, Offered, Delivered, manager
<2>32. ASSUME NEW k \in Generations, Disconnected(k)
       PROVE  info'[g].report = "disconnected"
    BY <2>32, <2>1
    DEF Disconnected, At, InfoInv, PeerInfo, Offered, Delivered, manager
<2>33. ASSUME NEW k \in Generations, DispatchDisconnected(k)
       PROVE  info'[g].report = "disconnected"
    BY <2>33, <2>1
    DEF DispatchDisconnected, At, InfoInv, PeerInfo, Offered, Delivered,
        manager
<2>34. ASSUME NEW k \in Generations, LocalDescription(k)
       PROVE  info'[g].report = "disconnected"
    BY <2>34, <2>1
    DEF LocalDescription, At, InfoInv, PeerInfo, Offered, Delivered, manager
<2>35. ASSUME NEW k \in Generations, SendLocal(k)
       PROVE  info'[g].report = "disconnected"
    BY <2>35, <2>1
    DEF SendLocal, At, InfoInv, PeerInfo, Offered, Delivered, manager
<2>36. ASSUME NEW t \in Threads, BeginRetire(t)
       PROVE  info'[g].report = "disconnected"
    BY <2>36
    DEF BeginRetire, Target, JobInv, Equipped, PeerPlaces, FreshPlaces,
        InfoInv, PeerInfo
<2>37. ASSUME NEW t \in Threads, FinishRetire(t)
       PROVE  info'[g].report = "disconnected"
    BY <2>37
    DEF FinishRetire, Target, JobInv, Equipped, PeerPlaces, FreshPlaces,
        InfoInv, PeerInfo
<2>38. ASSUME StartPublishing PROVE info'[g].report = "disconnected"
    BY <2>38, ReleasedFields DEF StartPublishing, InfoInv, PeerInfo
<2>39. ASSUME StopPublishing PROVE info'[g].report = "disconnected"
    BY <2>39, ReleasedFields DEF StopPublishing, InfoInv, PeerInfo
<2>40. ASSUME Collect PROVE info'[g].report = "disconnected"
    BY <2>40, ReleasedFields DEF Collect, InfoInv, PeerInfo
<2>41. ASSUME MarkRetired PROVE info'[g].report = "disconnected"
    BY <2>41, ReleasedFields DEF MarkRetired, InfoInv, PeerInfo
<2>42. ASSUME ReleaseOne PROVE info'[g].report = "disconnected"
    BY <2>42, ReleasedFields DEF ReleaseOne, InfoInv, PeerInfo
<2>43. ASSUME FinishStop PROVE info'[g].report = "disconnected"
    BY <2>43, ReleasedFields DEF FinishStop, InfoInv, PeerInfo
<2> QED
    BY <2>2, <2>3, <2>4, <2>5, <2>6, <2>7, <2>8, <2>9, <2>10, <2>11, <2>12,
       <2>13, <2>14, <2>15, <2>16, <2>17, <2>18, <2>19, <2>20, <2>21, <2>22,
       <2>23, <2>24, <2>25, <2>26, <2>27, <2>28, <2>29, <2>30, <2>31, <2>32,
       <2>33, <2>34, <2>35, <2>36, <2>37, <2>38, <2>39, <2>40, <2>41, <2>42,
       <2>43 DEF Next, Request, Restart, Leaving, Callback, Retire, Control
<1> QED BY <1>1, FullInit, FullStep, PTL DEF Spec, ReportsInOrder

\* As long as no late callback takes the mark off a peer, a registered peer is
\* open and nobody is about to release it, and no connection is lost.
THEOREM AccountedWhileMarksStay ==
  Spec /\ [][MarksStay]_vars => []PeersAccountedFor
<1> DEFINE Inv == FullInv /\ OpenInv
<1>1. Inv /\ [Next]_vars /\ [MarksStay]_vars => Inv'
  <2> SUFFICES ASSUME Inv, [Next]_vars, [MarksStay]_vars PROVE Inv'
    OBVIOUS
  <2>1. MarksStay
    BY DEF MarksStay, vars
  <2> QED BY <2>1, FullStep, OpenStep DEF FullInv, RegistryInv
<1>2. Inv => RegisteredIsOpen
  <2> SUFFICES ASSUME Inv, NEW u \in Uuids, peers[u] # None
               PROVE  info[peers[u]].conn = "open" /\ peers[u] \notin retiredPeers
    BY DEF RegisteredIsOpen
  <2>1. PICK g \in Generations : g = peers[u]
    BY DEF FullInv, RegistryInv, TypeInv, RestInv
  <2>2. Registered(g) /\ g < generation
    BY <2>1 DEF Registered, FullInv, Created
  <2>3. g \notin retiredPeers /\ info[g].conn \notin {"released", "closed"}
    BY <2>2 DEF OpenInv, Withdrawn
  <2>4. info[g].conn \in ConnStates \ {"none"}
    BY <2>2 DEF FullInv, Created, RegistryInv, TypeInv, InfoInv, PeerInfo
  <2> QED BY <2>1, <2>3, <2>4 DEF ConnStates
<1> QED
  <2>1. Init => Inv
    BY FullInit
  <2>2. Spec /\ [][MarksStay]_vars => []RegisteredIsOpen
    BY <1>1, <1>2, <2>1, PTL DEF Spec
  <2> QED BY <2>2, NothingLost, PTL DEF PeersAccountedFor
===============================================================================
