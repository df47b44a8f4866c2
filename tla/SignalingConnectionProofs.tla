------------------------ MODULE SignalingConnectionProofs ------------------------
(***************************************************************************)
(* Theorems about SignalingConnection, for any number of hosts, attempts   *)
(* and epochs and any budgets, as long as the owner calls connect() and    *)
(* disconnect() in turn (Usage).                                           *)
(*                                                                         *)
(* The argument: once disconnect() has moved the epoch on, no thread and   *)
(* no socket has the current epoch until connect() begins another          *)
(* (EndedInv), so no callback is admitted, and none can start while the    *)
(* socket and the worker are torn down (StopInv).  Every socket in use is  *)
(* the worker's or the one disconnect() took (CustodyInv), so when the     *)
(* worker is joined and the taken socket destroyed nothing is left.        *)
(* connect() gets past its checks only with no worker (RunInv), which is   *)
(* why it never assigns to a joinable thread.                              *)
(***************************************************************************)
EXTENDS SignalingConnection, TLAPS, FiniteSetTheorems

\* connect() is called, and has not yet begun its epoch.
Preparing == {"check", "refuse", "join", "started", "reset", "raise", "flags", "epoch"}

\* disconnect() has fenced the epoch off.
Past == {"exchange", "look", "extract", "join", "drop", "notify"}

\* disconnect() was called since the last connect(), or there was none: the
\* current epoch belongs to nobody.
Ended == mayConnect \/ conn \in Preparing \/ \E a \in Stoppers : stop[a] \in Past

\* The epoch has not had a socket.
Fresh(e) == e \in Nat \ {0} /\ (e \in Epochs => sock[e] = "none")

\* The worker's attempt has a socket, or had one.
Attempting == {"store", "open", "loop", "drain", "takeOwn", "drop", "caught", "recover",
               "callError", "userError", "userErrorStopping", "discard", "decide", "sleep",
               "callGaveUp", "userGaveUp", "userGaveUpStopping"}

Holding == {"open", "loop", "drain", "takeOwn", "caught", "recover", "callError",
            "userError", "userErrorStopping", "discard"}

GivingUp == {"callGaveUp", "userGaveUp", "userGaveUpStopping"}

FlagTypes ==
  /\ shouldRun \in BOOLEAN /\ needsReconnect \in BOOLEAN /\ connected \in BOOLEAN
  /\ initialDone \in BOOLEAN /\ notified \in BOOLEAN /\ suppressed \in BOOLEAN
  /\ mayConnect \in BOOLEAN /\ quiet \in BOOLEAN

CountTypes ==
  /\ epoch \in Nat /\ handle \in Nat /\ first \in Nat /\ mine \in Nat /\ latest \in Nat
  /\ hostIndex \in 1 .. HostCount /\ attempts \in Nat
  /\ connects \in Nat /\ ownerStops \in Nat /\ failures \in Nat
  /\ callbackStops \in Nat /\ reports \in Nat
  /\ limits \in ConnectionBudgets

PlaceTypes ==
  /\ worker \in WorkerSteps
  /\ conn \in ConnSteps
  /\ stop \in [Stoppers -> StopSteps]
  /\ was \in [Stoppers -> BOOLEAN]
  /\ took \in [Stoppers -> Nat]
  /\ sock \in [Epochs -> {"none", "connecting", "open", "failing", "closed"}]
  /\ cb \in [Epochs -> CallbackSteps]
  /\ opened \subseteq Epochs

TypeInv == FlagTypes /\ CountTypes /\ PlaceTypes

EpochInv ==
  /\ first <= epoch /\ mine <= epoch /\ latest <= epoch
  /\ \A a \in Stoppers : took[a] <= epoch
  /\ \A e \in Epochs : sock[e] # "none" => e <= epoch
  /\ \A e \in opened : sock[e] \in {"open", "failing", "closed"}
  /\ \A e \in Epochs : sock[e] = "none" => cb[e] = "idle"
  /\ conn = "spawn" => Fresh(first)
  /\ worker \in {"top", "begin"} /\ latest = 0 => Fresh(first)
  /\ worker \in {"claim", "store", "open"} => Fresh(mine)
  /\ worker \in Attempting => latest = mine

EndedInv ==
  Ended => /\ ~ Current(first) /\ ~ Current(mine) /\ ~ Current(latest)
           /\ \A e \in Epochs : Current(e) => sock[e] = "none"

HandleInv == handle # 0 => handle = mine /\ worker \in Holding

\* Whoever has a socket that is not closed yet: the worker that opened it, or
\* the disconnect() that took it.
CustodyInv ==
  /\ \A e \in Epochs : ~ Destroyable(e) =>
       \/ took["owner"] = e
       \/ mine = e /\ worker = "drop"
       \/ mine = e /\ worker \in {"loop", "drain", "takeOwn"} /\ handle = e
  /\ worker = "open" => handle = mine \/ took["owner"] = mine

UserStopping ==
  \/ worker \in {"userErrorStopping", "userGaveUpStopping"}
  \/ \E e \in Epochs : cb[e] = "userStopping"

StopInv ==
  /\ stop["callback"] \in {"idle", "fence", "exchange", "look", "notify"}
  /\ stop["callback"] # "idle" => UserStopping
  /\ took["callback"] = 0
  /\ took["owner"] # 0 => stop["owner"] \in {"join", "drop"}
  /\ stop["owner"] \in {"extract", "join", "drop"} => ~ InFlight
  /\ stop["owner"] = "drop" => worker = "none"
  /\ conn \notin {"idle", "wait"} => stop["owner"] = "idle"

RunInv ==
  /\ \/ mayConnect
     \/ conn \in {"check", "refuse", "join", "started", "reset", "raise"}
     \/ \E a \in Stoppers : stop[a] # "idle"
     => ~ shouldRun
  /\ conn \in {"started", "reset", "raise", "flags", "epoch", "spawn"} => worker = "none"
  /\ conn \in {"raise", "flags", "epoch", "spawn"} => ~ mayConnect /\ ~ quiet

ConnectedInv ==
  connected => /\ worker # "none"
               /\ \/ epoch \in opened /\ sock[epoch] \in {"open", "failing"}
                  \/ \E a \in Stoppers : stop[a] = "exchange"

QuietInv == quiet => worker = "none" /\ \A e \in Epochs : Destroyable(e)

AttemptInv ==
  /\ attempts <= MaxAttempts + 1
  /\ attempts > MaxAttempts => worker \in GivingUp \cup {"exit", "done", "none"}
  /\ worker \in GivingUp => attempts > MaxAttempts

\* A claimed attempt has lost no connection yet; one that is over has, unless
\* the client was stopped or open() threw.
RetryInv ==
  /\ worker \in {"store", "open"} /\ Current(mine) => ~ needsReconnect
  /\ worker \in {"caught", "recover", "callError", "userError", "userErrorStopping", "discard"}
       => limits.throws
  /\ worker \in {"drain", "takeOwn", "drop", "decide"} /\ shouldRun /\ Current(mine)
       => needsReconnect \/ limits.throws

\* A failure that was counted, and for which the worker will begin an epoch.
Due ==
  \/ worker = "begin" /\ latest # 0 /\ Current(latest)
  \/ /\ shouldRun /\ Current(latest)
     /\ worker \in {"top", "drain", "takeOwn", "drop", "caught", "recover", "callError",
                    "userError", "userErrorStopping", "discard", "decide", "sleep"}
  \/ /\ shouldRun /\ Current(latest) /\ worker = "loop"
     /\ needsReconnect \/ (latest \in Epochs /\ sock[latest] = "failing")

One(b) == IF b THEN 1 ELSE 0

BoundInv ==
  /\ conn \in {"check", "refuse", "join", "started", "reset"} => connects < limits.connects
  /\ connects <= limits.connects /\ failures <= limits.failures
  /\ callbackStops <= limits.stops /\ ownerStops <= connects

CountInv ==
  epoch + One(conn \in {"raise", "flags", "epoch"}) + One(stop["owner"] = "fence")
    + One(stop["callback"] = "fence") + One(Due)
    <= connects + ownerStops + callbackStops + failures

\* Reports made, begun, or owed for a connection that is open.
Owed == {e \in Epochs : cb[e] = "callDisconnected"}

ReportInv == reports + One(~ notified) + Cardinality(Owed) <= Cardinality(opened)

\* disconnect() comes once for every connect(), after it, and connect() after
\* disconnect().
Usage == ~ StopDuringStart /\ ~ ConnectAfterGivingUp

IInv ==
  /\ TypeInv /\ EpochInv /\ EndedInv /\ HandleInv /\ CustodyInv /\ StopInv /\ RunInv
  /\ ConnectedInv /\ QuietInv /\ AttemptInv /\ ~ crashed

-----------------------------------------------------------------------------
(* Types. *)

\* The flags.
LEMMA FlagStep == FlagTypes /\ [Next]_<<vars, limits>> => FlagTypes'
<1> SUFFICES ASSUME FlagTypes, [Next]_<<vars, limits>> PROVE FlagTypes'
  OBVIOUS
<1> USE DEF flags, fields, workerVars, stopVars, sockets, bounds, history,
   Goto, ConnectGoto, StopGoto
<1>1. CASE UNCHANGED <<vars, limits>>
  BY <1>1 DEF vars, FlagTypes
<1>2. CASE Next
  <2> limits' = limits /\ ~ crashed
    BY <1>2 DEF Next
  <2>1. ASSUME ConnectChecksWorker \/ ConnectJoins \/ ConnectChecksRunning \/
               ConnectBeginsEpoch \/ ConnectSpawns \/ ConnectReturns \/
               WorkerTop \/ WorkerBegins \/ WorkerStoresHandle \/ WorkerOpens
               \/ WorkerLeavesLoop \/ WorkerDrains \/ WorkerTakesOwn \/
               WorkerDrops \/ WorkerCallbackBegins \/ WorkerCallbackReturns \/
               WorkerDiscards \/ WorkerWakes
        PROVE  FlagTypes'
    <3>1. UNCHANGED <<shouldRun, needsReconnect, connected, initialDone,
                      notified, suppressed, mayConnect, quiet>>
      BY <2>1 DEF ConnectChecksWorker, ConnectJoins, ConnectChecksRunning,
         ConnectBeginsEpoch, ConnectSpawns, ConnectReturns, WorkerTop,
         WorkerBegins, WorkerStoresHandle, WorkerOpens, WorkerLeavesLoop,
         WorkerDrains, WorkerTakesOwn, WorkerDrops, WorkerCallbackBegins,
         WorkerCallbackReturns, WorkerDiscards, WorkerWakes
    <3> QED BY <3>1 DEF FlagTypes
  <2>2. ASSUME NEW a \in Stoppers,
               StopFences(a) \/ StopLooks(a) \/ StopExtracts(a) \/ StopJoins(a)
        PROVE  FlagTypes'
    <3>1. UNCHANGED <<shouldRun, needsReconnect, connected, initialDone,
                      notified, suppressed, mayConnect, quiet>>
      BY <2>2 DEF StopFences, StopLooks, StopExtracts, StopJoins
    <3> QED BY <3>1 DEF FlagTypes
  <2>3. ASSUME NEW e \in Epochs,
               AlertArrives(e) \/ CallbackBegins(e) \/ CallbackReturns(e)
        PROVE  FlagTypes'
    <3>1. UNCHANGED <<shouldRun, needsReconnect, connected, initialDone,
                      notified, suppressed, mayConnect, quiet>>
      BY <2>3 DEF AlertArrives, CallbackBegins, CallbackReturns
    <3> QED BY <3>1 DEF FlagTypes
  <2>4. ASSUME ConnectEntry PROVE FlagTypes'
    BY <2>4 DEF ConnectEntry, FlagTypes
  <2>5. ASSUME ConnectRefused PROVE FlagTypes'
    BY <2>5 DEF ConnectRefused, FlagTypes
  <2>6. ASSUME ConnectResets PROVE FlagTypes'
    BY <2>6 DEF ConnectResets, FlagTypes
  <2>7. ASSUME ConnectRaises PROVE FlagTypes'
    BY <2>7 DEF ConnectRaises, FlagTypes
  <2>8. ASSUME ConnectClearsFlags PROVE FlagTypes'
    BY <2>8 DEF ConnectClearsFlags, FlagTypes
  <2>9. ASSUME OwnerStops PROVE FlagTypes'
    BY <2>9 DEF OwnerStops, StopRaised, FlagTypes
  <2>10. ASSUME WorkerCallbackStops PROVE FlagTypes'
    BY <2>10 DEF WorkerCallbackStops, StopRaised, FlagTypes
  <2>11. ASSUME NEW a \in Stoppers, StopExchanges(a) PROVE FlagTypes'
    BY <2>11 DEF StopExchanges, FlagTypes
  <2>12. ASSUME NEW a \in Stoppers, StopDrops(a) PROVE FlagTypes'
    BY <2>12 DEF StopDrops, FlagTypes
  <2>13. ASSUME NEW a \in Stoppers, StopReturns(a) PROVE FlagTypes'
    BY <2>13 DEF StopReturns, Resume, FlagTypes
  <2>14. ASSUME NEW e \in Epochs, SocketOpens(e) PROVE FlagTypes'
    BY <2>14 DEF SocketOpens, FlagTypes
  <2>15. ASSUME NEW e \in Epochs, SocketCloses(e) PROVE FlagTypes'
    BY <2>15 DEF SocketCloses, FlagTypes
  <2>16. ASSUME NEW e \in Epochs, SocketFails(e) PROVE FlagTypes'
    BY <2>16 DEF SocketFails, FlagTypes
  <2>17. ASSUME NEW e \in Epochs, AlertCommits(e) PROVE FlagTypes'
    BY <2>17 DEF AlertCommits, FlagTypes
  <2>18. ASSUME NEW e \in Epochs, CallbackStops(e) PROVE FlagTypes'
    BY <2>18 DEF CallbackStops, StopRaised, FlagTypes
  <2>19. ASSUME WorkerClaims PROVE FlagTypes'
    BY <2>19 DEF WorkerClaims, FlagTypes
  <2>20. ASSUME WorkerRecovers PROVE FlagTypes'
    BY <2>20 DEF WorkerRecovers, FlagTypes
  <2>21. ASSUME WorkerDecides PROVE FlagTypes'
    BY <2>21 DEF WorkerDecides, FlagTypes
  <2>22. ASSUME WorkerExits PROVE FlagTypes'
    BY <2>22 DEF WorkerExits, FlagTypes
  <2> QED
    BY <1>2, <2>1, <2>2, <2>3, <2>4, <2>5, <2>6, <2>7, <2>8, <2>9, <2>10,
       <2>11, <2>12, <2>13, <2>14, <2>15, <2>16, <2>17, <2>18, <2>19, <2>20,
       <2>21, <2>22 DEF Next, Connect, StopStep, Socket, Callback, Worker
<1> QED BY <1>1, <1>2

\* The host index and the attempts after an attempt.
LEMMA DecideTypes ==
  ASSUME CountTypes, WorkerDecides
  PROVE  hostIndex' \in 1 .. HostCount /\ attempts' \in Nat
BY CountsNatural DEF WorkerDecides, CountTypes, HasNextHost

\* The epochs and the counters.
LEMMA CountStep == CountTypes /\ [Next]_<<vars, limits>> => CountTypes'
<1> SUFFICES ASSUME CountTypes, [Next]_<<vars, limits>> PROVE CountTypes'
  OBVIOUS
<1> USE DEF flags, fields, workerVars, stopVars, sockets, bounds, history,
   Goto, ConnectGoto, StopGoto
<1>1. CASE UNCHANGED <<vars, limits>>
  BY <1>1 DEF vars, CountTypes
<1>2. CASE Next
  <2> limits' = limits /\ ~ crashed
    BY <1>2 DEF Next
  <2>1. ASSUME ConnectEntry \/ ConnectChecksWorker \/ ConnectRefused \/
               ConnectJoins \/ ConnectChecksRunning \/ ConnectRaises \/
               ConnectClearsFlags \/ ConnectReturns \/ WorkerTop \/
               WorkerLeavesLoop \/ WorkerDrains \/ WorkerDrops \/
               WorkerCallbackBegins \/ WorkerCallbackReturns \/ WorkerWakes \/
               WorkerExits
        PROVE  CountTypes'
    <3>1. UNCHANGED <<epoch, handle, first, mine, latest, hostIndex, attempts,
                      connects, ownerStops, failures, callbackStops, reports>>
      BY <2>1 DEF ConnectEntry, ConnectChecksWorker, ConnectRefused,
         ConnectJoins, ConnectChecksRunning, ConnectRaises,
         ConnectClearsFlags, ConnectReturns, WorkerTop, WorkerLeavesLoop,
         WorkerDrains, WorkerDrops, WorkerCallbackBegins,
         WorkerCallbackReturns, WorkerWakes, WorkerExits
    <3> QED BY <3>1 DEF CountTypes
  <2>2. ASSUME NEW a \in Stoppers,
               StopExchanges(a) \/ StopLooks(a) \/ StopJoins(a) \/ StopDrops(a)
        PROVE  CountTypes'
    <3>1. UNCHANGED <<epoch, handle, first, mine, latest, hostIndex, attempts,
                      connects, ownerStops, failures, callbackStops, reports>>
      BY <2>2 DEF StopExchanges, StopLooks, StopJoins, StopDrops
    <3> QED BY <3>1 DEF CountTypes
  <2>3. ASSUME NEW e \in Epochs,
               AlertArrives(e) \/ AlertCommits(e) \/ CallbackReturns(e)
        PROVE  CountTypes'
    <3>1. UNCHANGED <<epoch, handle, first, mine, latest, hostIndex, attempts,
                      connects, ownerStops, failures, callbackStops, reports>>
      BY <2>3 DEF AlertArrives, AlertCommits, CallbackReturns
    <3> QED BY <3>1 DEF CountTypes
  <2>4. ASSUME ConnectResets PROVE CountTypes'
    BY <2>4, CountsNatural DEF ConnectResets, CountTypes
  <2>5. ASSUME ConnectBeginsEpoch PROVE CountTypes'
    BY <2>5, CountsNatural DEF ConnectBeginsEpoch, CountTypes
  <2>6. ASSUME ConnectSpawns PROVE CountTypes'
    BY <2>6, CountsNatural DEF ConnectSpawns, CountTypes
  <2>7. ASSUME OwnerStops PROVE CountTypes'
    BY <2>7, CountsNatural DEF OwnerStops, StopRaised, CountTypes
  <2>8. ASSUME WorkerCallbackStops PROVE CountTypes'
    BY <2>8, CountsNatural DEF WorkerCallbackStops, StopRaised, CountTypes
  <2>9. ASSUME NEW a \in Stoppers, StopFences(a) PROVE CountTypes'
    BY <2>9, CountsNatural DEF StopFences, CountTypes
  <2>10. ASSUME NEW a \in Stoppers, StopExtracts(a) PROVE CountTypes'
    BY <2>10, CountsNatural DEF StopExtracts, CountTypes
  <2>11. ASSUME NEW a \in Stoppers, StopReturns(a) PROVE CountTypes'
    BY <2>11, CountsNatural DEF StopReturns, Resume, CountTypes
  <2>12. ASSUME NEW e \in Epochs, SocketOpens(e) PROVE CountTypes'
    BY <2>12, CountsNatural DEF SocketOpens, CountTypes
  <2>13. ASSUME NEW e \in Epochs, SocketCloses(e) PROVE CountTypes'
    BY <2>13, CountsNatural DEF SocketCloses, CountTypes
  <2>14. ASSUME NEW e \in Epochs, SocketFails(e) PROVE CountTypes'
    BY <2>14, CountsNatural DEF SocketFails, CountTypes
  <2>15. ASSUME NEW e \in Epochs, CallbackBegins(e) PROVE CountTypes'
    BY <2>15, CountsNatural DEF CallbackBegins, CountTypes
  <2>16. ASSUME NEW e \in Epochs, CallbackStops(e) PROVE CountTypes'
    BY <2>16, CountsNatural DEF CallbackStops, StopRaised, CountTypes
  <2>17. ASSUME WorkerBegins PROVE CountTypes'
    BY <2>17, CountsNatural DEF WorkerBegins, CountTypes
  <2>18. ASSUME WorkerClaims PROVE CountTypes'
    BY <2>18, CountsNatural DEF WorkerClaims, CountTypes
  <2>19. ASSUME WorkerStoresHandle PROVE CountTypes'
    BY <2>19, CountsNatural DEF WorkerStoresHandle, CountTypes
  <2>20. ASSUME WorkerOpens PROVE CountTypes'
    BY <2>20, CountsNatural DEF WorkerOpens, CountTypes
  <2>21. ASSUME WorkerTakesOwn PROVE CountTypes'
    BY <2>21, CountsNatural DEF WorkerTakesOwn, CountTypes
  <2>22. ASSUME WorkerRecovers PROVE CountTypes'
    BY <2>22, CountsNatural DEF WorkerRecovers, CountTypes
  <2>23. ASSUME WorkerDiscards PROVE CountTypes'
    BY <2>23, CountsNatural DEF WorkerDiscards, CountTypes
  <2>24. ASSUME WorkerDecides PROVE CountTypes'
    <3>1. UNCHANGED <<epoch, handle, first, mine, latest, connects, ownerStops, failures,
                      callbackStops, reports>>
      BY <2>24 DEF WorkerDecides
    <3> QED BY <2>24, <3>1, DecideTypes DEF CountTypes
  <2> QED
    BY <1>2, <2>1, <2>2, <2>3, <2>4, <2>5, <2>6, <2>7, <2>8, <2>9, <2>10,
       <2>11, <2>12, <2>13, <2>14, <2>15, <2>16, <2>17, <2>18, <2>19, <2>20,
       <2>21, <2>22, <2>23, <2>24 DEF Next, Connect, StopStep, Socket,
       Callback, Worker
<1> QED BY <1>1, <1>2

\* Where every thread and every socket is.
LEMMA PlaceStep == TypeInv /\ [Next]_<<vars, limits>> => PlaceTypes'
<1> SUFFICES ASSUME TypeInv, [Next]_<<vars, limits>> PROVE PlaceTypes'
  OBVIOUS
<1> USE DEF flags, fields, workerVars, stopVars, sockets, bounds, history,
   Goto, ConnectGoto, StopGoto
<1>1. CASE UNCHANGED <<vars, limits>>
  BY <1>1 DEF vars, TypeInv, PlaceTypes, CountTypes, FlagTypes, WorkerSteps,
     ConnSteps, StopSteps, CallbackSteps, Stoppers
<1>2. CASE Next
  <2> limits' = limits /\ ~ crashed
    BY <1>2 DEF Next
  <2>1. ASSUME ConnectEntry PROVE PlaceTypes'
    BY <2>1 DEF ConnectEntry, TypeInv, PlaceTypes, CountTypes, FlagTypes,
       WorkerSteps, ConnSteps, StopSteps, CallbackSteps, Stoppers
  <2>2. ASSUME ConnectChecksWorker PROVE PlaceTypes'
    BY <2>2 DEF ConnectChecksWorker, TypeInv, PlaceTypes, CountTypes,
       FlagTypes, WorkerSteps, ConnSteps, StopSteps, CallbackSteps, Stoppers
  <2>3. ASSUME ConnectRefused PROVE PlaceTypes'
    BY <2>3 DEF ConnectRefused, TypeInv, PlaceTypes, CountTypes, FlagTypes,
       WorkerSteps, ConnSteps, StopSteps, CallbackSteps, Stoppers
  <2>4. ASSUME ConnectJoins PROVE PlaceTypes'
    BY <2>4 DEF ConnectJoins, TypeInv, PlaceTypes, CountTypes, FlagTypes,
       WorkerSteps, ConnSteps, StopSteps, CallbackSteps, Stoppers
  <2>5. ASSUME ConnectChecksRunning PROVE PlaceTypes'
    BY <2>5 DEF ConnectChecksRunning, TypeInv, PlaceTypes, CountTypes,
       FlagTypes, WorkerSteps, ConnSteps, StopSteps, CallbackSteps, Stoppers
  <2>6. ASSUME ConnectResets PROVE PlaceTypes'
    BY <2>6 DEF ConnectResets, TypeInv, PlaceTypes, CountTypes, FlagTypes,
       WorkerSteps, ConnSteps, StopSteps, CallbackSteps, Stoppers
  <2>7. ASSUME ConnectRaises PROVE PlaceTypes'
    BY <2>7 DEF ConnectRaises, TypeInv, PlaceTypes, CountTypes, FlagTypes,
       WorkerSteps, ConnSteps, StopSteps, CallbackSteps, Stoppers
  <2>8. ASSUME ConnectClearsFlags PROVE PlaceTypes'
    BY <2>8 DEF ConnectClearsFlags, TypeInv, PlaceTypes, CountTypes,
       FlagTypes, WorkerSteps, ConnSteps, StopSteps, CallbackSteps, Stoppers
  <2>9. ASSUME ConnectBeginsEpoch PROVE PlaceTypes'
    BY <2>9 DEF ConnectBeginsEpoch, TypeInv, PlaceTypes, CountTypes,
       FlagTypes, WorkerSteps, ConnSteps, StopSteps, CallbackSteps, Stoppers
  <2>10. ASSUME ConnectSpawns PROVE PlaceTypes'
    BY <2>10 DEF ConnectSpawns, TypeInv, PlaceTypes, CountTypes, FlagTypes,
       WorkerSteps, ConnSteps, StopSteps, CallbackSteps, Stoppers
  <2>11. ASSUME ConnectReturns PROVE PlaceTypes'
    BY <2>11 DEF ConnectReturns, TypeInv, PlaceTypes, CountTypes, FlagTypes,
       WorkerSteps, ConnSteps, StopSteps, CallbackSteps, Stoppers
  <2>12. ASSUME OwnerStops PROVE PlaceTypes'
    BY <2>12 DEF OwnerStops, StopRaised, TypeInv, PlaceTypes, CountTypes,
       FlagTypes, WorkerSteps, ConnSteps, StopSteps, CallbackSteps, Stoppers
  <2>13. ASSUME WorkerCallbackStops PROVE PlaceTypes'
    BY <2>13 DEF WorkerCallbackStops, StopRaised, TypeInv, PlaceTypes,
       CountTypes, FlagTypes, WorkerSteps, ConnSteps, StopSteps,
       CallbackSteps, Stoppers
  <2>14. ASSUME NEW a \in Stoppers, StopFences(a) PROVE PlaceTypes'
    BY <2>14 DEF StopFences, TypeInv, PlaceTypes, CountTypes, FlagTypes,
       WorkerSteps, ConnSteps, StopSteps, CallbackSteps, Stoppers
  <2>15. ASSUME NEW a \in Stoppers, StopExchanges(a) PROVE PlaceTypes'
    BY <2>15 DEF StopExchanges, TypeInv, PlaceTypes, CountTypes, FlagTypes,
       WorkerSteps, ConnSteps, StopSteps, CallbackSteps, Stoppers
  <2>16. ASSUME NEW a \in Stoppers, StopLooks(a) PROVE PlaceTypes'
    BY <2>16 DEF StopLooks, TypeInv, PlaceTypes, CountTypes, FlagTypes,
       WorkerSteps, ConnSteps, StopSteps, CallbackSteps, Stoppers
  <2>17. ASSUME NEW a \in Stoppers, StopExtracts(a) PROVE PlaceTypes'
    BY <2>17 DEF StopExtracts, TypeInv, PlaceTypes, CountTypes, FlagTypes,
       WorkerSteps, ConnSteps, StopSteps, CallbackSteps, Stoppers
  <2>18. ASSUME NEW a \in Stoppers, StopJoins(a) PROVE PlaceTypes'
    BY <2>18 DEF StopJoins, TypeInv, PlaceTypes, CountTypes, FlagTypes,
       WorkerSteps, ConnSteps, StopSteps, CallbackSteps, Stoppers
  <2>19. ASSUME NEW a \in Stoppers, StopDrops(a) PROVE PlaceTypes'
    BY <2>19 DEF StopDrops, TypeInv, PlaceTypes, CountTypes, FlagTypes,
       WorkerSteps, ConnSteps, StopSteps, CallbackSteps, Stoppers
  <2>20. ASSUME NEW a \in Stoppers, StopReturns(a) PROVE PlaceTypes'
    BY <2>20 DEF StopReturns, Resume, TypeInv, PlaceTypes, CountTypes,
       FlagTypes, WorkerSteps, ConnSteps, StopSteps, CallbackSteps, Stoppers
  <2>21. ASSUME NEW e \in Epochs, SocketOpens(e) PROVE PlaceTypes'
    BY <2>21 DEF SocketOpens, TypeInv, PlaceTypes, CountTypes, FlagTypes,
       WorkerSteps, ConnSteps, StopSteps, CallbackSteps, Stoppers
  <2>22. ASSUME NEW e \in Epochs, SocketCloses(e) PROVE PlaceTypes'
    BY <2>22 DEF SocketCloses, TypeInv, PlaceTypes, CountTypes, FlagTypes,
       WorkerSteps, ConnSteps, StopSteps, CallbackSteps, Stoppers
  <2>23. ASSUME NEW e \in Epochs, SocketFails(e) PROVE PlaceTypes'
    BY <2>23 DEF SocketFails, TypeInv, PlaceTypes, CountTypes, FlagTypes,
       WorkerSteps, ConnSteps, StopSteps, CallbackSteps, Stoppers
  <2>24. ASSUME NEW e \in Epochs, AlertArrives(e) PROVE PlaceTypes'
    BY <2>24 DEF AlertArrives, TypeInv, PlaceTypes, CountTypes, FlagTypes,
       WorkerSteps, ConnSteps, StopSteps, CallbackSteps, Stoppers
  <2>25. ASSUME NEW e \in Epochs, AlertCommits(e) PROVE PlaceTypes'
    BY <2>25 DEF AlertCommits, TypeInv, PlaceTypes, CountTypes, FlagTypes,
       WorkerSteps, ConnSteps, StopSteps, CallbackSteps, Stoppers
  <2>26. ASSUME NEW e \in Epochs, CallbackBegins(e) PROVE PlaceTypes'
    BY <2>26 DEF CallbackBegins, TypeInv, PlaceTypes, CountTypes, FlagTypes,
       WorkerSteps, ConnSteps, StopSteps, CallbackSteps, Stoppers
  <2>27. ASSUME NEW e \in Epochs, CallbackReturns(e) PROVE PlaceTypes'
    BY <2>27 DEF CallbackReturns, TypeInv, PlaceTypes, CountTypes, FlagTypes,
       WorkerSteps, ConnSteps, StopSteps, CallbackSteps, Stoppers
  <2>28. ASSUME NEW e \in Epochs, CallbackStops(e) PROVE PlaceTypes'
    BY <2>28 DEF CallbackStops, StopRaised, TypeInv, PlaceTypes, CountTypes,
       FlagTypes, WorkerSteps, ConnSteps, StopSteps, CallbackSteps, Stoppers
  <2>29. ASSUME WorkerTop PROVE PlaceTypes'
    BY <2>29 DEF WorkerTop, TypeInv, PlaceTypes, CountTypes, FlagTypes,
       WorkerSteps, ConnSteps, StopSteps, CallbackSteps, Stoppers
  <2>30. ASSUME WorkerBegins PROVE PlaceTypes'
    BY <2>30 DEF WorkerBegins, TypeInv, PlaceTypes, CountTypes, FlagTypes,
       WorkerSteps, ConnSteps, StopSteps, CallbackSteps, Stoppers
  <2>31. ASSUME WorkerClaims PROVE PlaceTypes'
    BY <2>31 DEF WorkerClaims, TypeInv, PlaceTypes, CountTypes, FlagTypes,
       WorkerSteps, ConnSteps, StopSteps, CallbackSteps, Stoppers
  <2>32. ASSUME WorkerStoresHandle PROVE PlaceTypes'
    BY <2>32 DEF WorkerStoresHandle, TypeInv, PlaceTypes, CountTypes,
       FlagTypes, WorkerSteps, ConnSteps, StopSteps, CallbackSteps, Stoppers
  <2>33. ASSUME WorkerOpens PROVE PlaceTypes'
    BY <2>33 DEF WorkerOpens, TypeInv, PlaceTypes, CountTypes, FlagTypes,
       WorkerSteps, ConnSteps, StopSteps, CallbackSteps, Stoppers
  <2>34. ASSUME WorkerLeavesLoop PROVE PlaceTypes'
    BY <2>34 DEF WorkerLeavesLoop, TypeInv, PlaceTypes, CountTypes, FlagTypes,
       WorkerSteps, ConnSteps, StopSteps, CallbackSteps, Stoppers
  <2>35. ASSUME WorkerDrains PROVE PlaceTypes'
    BY <2>35 DEF WorkerDrains, TypeInv, PlaceTypes, CountTypes, FlagTypes,
       WorkerSteps, ConnSteps, StopSteps, CallbackSteps, Stoppers
  <2>36. ASSUME WorkerTakesOwn PROVE PlaceTypes'
    BY <2>36 DEF WorkerTakesOwn, TypeInv, PlaceTypes, CountTypes, FlagTypes,
       WorkerSteps, ConnSteps, StopSteps, CallbackSteps, Stoppers
  <2>37. ASSUME WorkerDrops PROVE PlaceTypes'
    BY <2>37 DEF WorkerDrops, TypeInv, PlaceTypes, CountTypes, FlagTypes,
       WorkerSteps, ConnSteps, StopSteps, CallbackSteps, Stoppers
  <2>38. ASSUME WorkerRecovers PROVE PlaceTypes'
    BY <2>38 DEF WorkerRecovers, TypeInv, PlaceTypes, CountTypes, FlagTypes,
       WorkerSteps, ConnSteps, StopSteps, CallbackSteps, Stoppers
  <2>39. ASSUME WorkerCallbackBegins PROVE PlaceTypes'
    BY <2>39 DEF WorkerCallbackBegins, TypeInv, PlaceTypes, CountTypes,
       FlagTypes, WorkerSteps, ConnSteps, StopSteps, CallbackSteps, Stoppers
  <2>40. ASSUME WorkerCallbackReturns PROVE PlaceTypes'
    BY <2>40 DEF WorkerCallbackReturns, TypeInv, PlaceTypes, CountTypes,
       FlagTypes, WorkerSteps, ConnSteps, StopSteps, CallbackSteps, Stoppers
  <2>41. ASSUME WorkerDiscards PROVE PlaceTypes'
    BY <2>41 DEF WorkerDiscards, TypeInv, PlaceTypes, CountTypes, FlagTypes,
       WorkerSteps, ConnSteps, StopSteps, CallbackSteps, Stoppers
  <2>42. ASSUME WorkerDecides PROVE PlaceTypes'
    BY <2>42 DEF WorkerDecides, TypeInv, PlaceTypes, CountTypes, FlagTypes,
       WorkerSteps, ConnSteps, StopSteps, CallbackSteps, Stoppers
  <2>43. ASSUME WorkerWakes PROVE PlaceTypes'
    BY <2>43 DEF WorkerWakes, TypeInv, PlaceTypes, CountTypes, FlagTypes,
       WorkerSteps, ConnSteps, StopSteps, CallbackSteps, Stoppers
  <2>44. ASSUME WorkerExits PROVE PlaceTypes'
    BY <2>44 DEF WorkerExits, TypeInv, PlaceTypes, CountTypes, FlagTypes,
       WorkerSteps, ConnSteps, StopSteps, CallbackSteps, Stoppers
  <2> QED
    BY <1>2, <2>1, <2>2, <2>3, <2>4, <2>5, <2>6, <2>7, <2>8, <2>9, <2>10,
       <2>11, <2>12, <2>13, <2>14, <2>15, <2>16, <2>17, <2>18, <2>19, <2>20,
       <2>21, <2>22, <2>23, <2>24, <2>25, <2>26, <2>27, <2>28, <2>29, <2>30,
       <2>31, <2>32, <2>33, <2>34, <2>35, <2>36, <2>37, <2>38, <2>39, <2>40,
       <2>41, <2>42, <2>43, <2>44 DEF Next, Connect, StopStep, Socket,
       Callback, Worker
<1> QED BY <1>1, <1>2

-----------------------------------------------------------------------------
(* What the invariant says when nobody is at work. *)

\* With no worker and no disconnect() of the owner there is nothing left of an
\* earlier connection.
LEMMA NoWorker ==
  IInv /\ worker = "none" /\ stop["owner"] = "idle"
    => /\ handle = 0 /\ ~ connected
       /\ \A e \in Epochs : Destroyable(e)
       /\ \A a \in Stoppers : stop[a] = "idle"
<1> SUFFICES ASSUME IInv, worker = "none", stop["owner"] = "idle"
             PROVE  /\ handle = 0 /\ ~ connected
                    /\ \A e \in Epochs : Destroyable(e)
                    /\ \A a \in Stoppers : stop[a] = "idle"
  OBVIOUS
<1>1. handle = 0 /\ ~ connected
  BY DEF IInv, HandleInv, Holding, ConnectedInv
<1>2. \A e \in Epochs : Destroyable(e)
  BY DEF IInv, CustodyInv, StopInv, EpochInv, TypeInv, PlaceTypes, Epochs
<1>3. stop["callback"] = "idle"
  BY <1>2 DEF IInv, StopInv, UserStopping, Destroyable
<1> QED BY <1>1, <1>2, <1>3 DEF Stoppers

\* A socket of the current epoch that is in use is the worker's.
LEMMA CurrentSocket ==
  ASSUME IInv, NEW e \in Epochs, Current(e), ~ Destroyable(e)
  PROVE  mine = e /\ worker \in {"loop", "drain", "takeOwn", "drop"} /\ ~ Ended
<1>1. ~ Ended
  BY DEF IInv, EndedInv, EpochInv, Destroyable
<1>2. took["owner"] # e
  BY <1>1 DEF IInv, StopInv, Ended, Past, Stoppers, Current
<1> QED BY <1>1, <1>2 DEF IInv, CustodyInv

\* connect() or disconnect() about to join finds the connection gone.
LEMMA OverUnused ==
  ASSUME IInv, worker \in {"none", "done"}, conn = "join" \/ stop["owner"] = "join"
  PROVE  ~ connected
<1>1. Ended
  BY DEF Ended, Preparing, Past, Stoppers
<1>2. epoch \in Epochs => Destroyable(epoch)
  BY <1>1, CurrentSocket DEF Current, Epochs
<1>3. ~ (epoch \in opened /\ sock[epoch] \in {"open", "failing"})
  BY <1>2 DEF Destroyable, IInv, TypeInv, PlaceTypes
<1>4. stop["owner"] # "exchange"
  BY DEF IInv, StopInv
<1>5. ~ UserStopping
  <2>1. CASE stop["owner"] = "join"
    BY <2>1 DEF IInv, StopInv, UserStopping, InFlight, WorkerInUser
  <2>2. CASE conn = "join"
    BY <2>2 DEF IInv, StopInv, CustodyInv, UserStopping, Destroyable, Epochs
  <2> QED BY <2>1, <2>2
<1> QED BY <1>3, <1>4, <1>5 DEF IInv, ConnectedInv, StopInv, Stoppers

-----------------------------------------------------------------------------
(* The steps. *)

\* Epochs are fresh when they get a socket.
LEMMA EpochStep == IInv /\ [Next]_<<vars, limits>> => EpochInv'
<1> SUFFICES ASSUME IInv, [Next]_<<vars, limits>> PROVE EpochInv'
  OBVIOUS
<1> USE DEF flags, fields, workerVars, stopVars, sockets, bounds, history,
   Goto, ConnectGoto, StopGoto
<1>1. CASE UNCHANGED <<vars, limits>>
  BY <1>1 DEF vars, IInv, TypeInv, CountTypes, PlaceTypes, EpochInv,
     HandleInv, RunInv, Stoppers, Fresh, Current, Epochs, Attempting
<1>2. CASE Next
  <2> limits' = limits /\ ~ crashed
    BY <1>2 DEF Next
  <2>1. ASSUME NEW a \in Stoppers,
               StopExchanges(a) \/ StopLooks(a)
        PROVE  EpochInv'
    <3>1. UNCHANGED <<epoch, first, mine, latest, took, sock, opened, cb,
                      conn, worker>>
      BY <2>1 DEF StopExchanges, StopLooks
    <3> QED BY <3>1 DEF IInv, EpochInv, Fresh
  <2>2. ASSUME ConnectEntry PROVE EpochInv'
    BY <2>2, CountsNatural DEF ConnectEntry, IInv, TypeInv, CountTypes,
       PlaceTypes, EpochInv, HandleInv, RunInv, Stoppers, Fresh, Current,
       Epochs, Attempting
  <2>3. ASSUME ConnectChecksWorker PROVE EpochInv'
    BY <2>3, CountsNatural DEF ConnectChecksWorker, IInv, TypeInv, CountTypes,
       PlaceTypes, EpochInv, HandleInv, RunInv, Stoppers, Fresh, Current,
       Epochs, Attempting
  <2>4. ASSUME ConnectRefused PROVE EpochInv'
    BY <2>4, CountsNatural DEF ConnectRefused, IInv, TypeInv, CountTypes,
       PlaceTypes, EpochInv, HandleInv, RunInv, Stoppers, Fresh, Current,
       Epochs, Attempting
  <2>5. ASSUME ConnectJoins PROVE EpochInv'
    BY <2>5, CountsNatural DEF ConnectJoins, IInv, TypeInv, CountTypes,
       PlaceTypes, EpochInv, HandleInv, RunInv, Stoppers, Fresh, Current,
       Epochs, Attempting
  <2>6. ASSUME ConnectChecksRunning PROVE EpochInv'
    BY <2>6, CountsNatural DEF ConnectChecksRunning, IInv, TypeInv,
       CountTypes, PlaceTypes, EpochInv, HandleInv, RunInv, Stoppers, Fresh,
       Current, Epochs, Attempting
  <2>7. ASSUME ConnectResets PROVE EpochInv'
    BY <2>7, CountsNatural DEF ConnectResets, IInv, TypeInv, CountTypes,
       PlaceTypes, EpochInv, HandleInv, RunInv, Stoppers, Fresh, Current,
       Epochs, Attempting
  <2>8. ASSUME ConnectRaises PROVE EpochInv'
    BY <2>8, CountsNatural DEF ConnectRaises, IInv, TypeInv, CountTypes,
       PlaceTypes, EpochInv, HandleInv, RunInv, Stoppers, Fresh, Current,
       Epochs, Attempting
  <2>9. ASSUME ConnectClearsFlags PROVE EpochInv'
    BY <2>9, CountsNatural DEF ConnectClearsFlags, IInv, TypeInv, CountTypes,
       PlaceTypes, EpochInv, HandleInv, RunInv, Stoppers, Fresh, Current,
       Epochs, Attempting
  <2>10. ASSUME ConnectBeginsEpoch PROVE EpochInv'
    BY <2>10, CountsNatural DEF ConnectBeginsEpoch, IInv, TypeInv, CountTypes,
       PlaceTypes, EpochInv, HandleInv, RunInv, Stoppers, Fresh, Current,
       Epochs, Attempting
  <2>11. ASSUME ConnectSpawns PROVE EpochInv'
    BY <2>11, CountsNatural DEF ConnectSpawns, IInv, TypeInv, CountTypes,
       PlaceTypes, EpochInv, HandleInv, RunInv, Stoppers, Fresh, Current,
       Epochs, Attempting
  <2>12. ASSUME ConnectReturns PROVE EpochInv'
    BY <2>12, CountsNatural DEF ConnectReturns, IInv, TypeInv, CountTypes,
       PlaceTypes, EpochInv, HandleInv, RunInv, Stoppers, Fresh, Current,
       Epochs, Attempting
  <2>13. ASSUME OwnerStops PROVE EpochInv'
    BY <2>13, CountsNatural DEF OwnerStops, StopRaised, IInv, TypeInv,
       CountTypes, PlaceTypes, EpochInv, HandleInv, RunInv, Stoppers, Fresh,
       Current, Epochs, Attempting
  <2>14. ASSUME WorkerCallbackStops PROVE EpochInv'
    BY <2>14, CountsNatural DEF WorkerCallbackStops, StopRaised, IInv,
       TypeInv, CountTypes, PlaceTypes, EpochInv, HandleInv, RunInv, Stoppers,
       Fresh, Current, Epochs, Attempting
  <2>15. ASSUME NEW a \in Stoppers, StopFences(a) PROVE EpochInv'
    BY <2>15, CountsNatural DEF StopFences, IInv, TypeInv, CountTypes,
       PlaceTypes, EpochInv, HandleInv, RunInv, Stoppers, Fresh, Current,
       Epochs, Attempting
  <2>16. ASSUME NEW a \in Stoppers, StopExtracts(a) PROVE EpochInv'
    BY <2>16, CountsNatural DEF StopExtracts, IInv, TypeInv, CountTypes,
       PlaceTypes, EpochInv, HandleInv, RunInv, Stoppers, Fresh, Current,
       Epochs, Attempting
  <2>17. ASSUME NEW a \in Stoppers, StopJoins(a) PROVE EpochInv'
    BY <2>17, CountsNatural DEF StopJoins, IInv, TypeInv, CountTypes,
       PlaceTypes, EpochInv, HandleInv, RunInv, Stoppers, Fresh, Current,
       Epochs, Attempting
  <2>18. ASSUME NEW a \in Stoppers, StopDrops(a) PROVE EpochInv'
    BY <2>18, CountsNatural DEF StopDrops, IInv, TypeInv, CountTypes,
       PlaceTypes, EpochInv, HandleInv, RunInv, Stoppers, Fresh, Current,
       Epochs, Attempting
  <2>19. ASSUME NEW a \in Stoppers, StopReturns(a) PROVE EpochInv'
    <3>1. /\ UNCHANGED <<epoch, first, mine, latest, took, sock, opened, conn>>
          /\ worker' \in {"top", "begin", "claim", "store", "open"} => worker' = worker
          /\ worker' \in Attempting => worker \in Attempting
      BY <2>19 DEF StopReturns, Resume, Attempting
    <3>2. \A e \in Epochs : cb[e] = "idle" => cb'[e] = "idle"
      BY <2>19 DEF StopReturns, Resume, IInv, TypeInv, PlaceTypes
    <3> QED BY <3>1, <3>2 DEF IInv, EpochInv, Fresh
  <2>20. ASSUME NEW e \in Epochs, SocketOpens(e) PROVE EpochInv'
    <3>1. /\ UNCHANGED <<epoch, first, mine, latest, took, worker, conn>>
          /\ sock[e] = "connecting" /\ sock' = [sock EXCEPT ![e] = "open"]
          /\ opened' \subseteq opened \cup {e}
          /\ cb' = cb \/ cb' = [cb EXCEPT ![e] = "call"]
      BY <2>20 DEF SocketOpens, workerVars, stopVars
    <3>2. /\ sock'[e] = "open" /\ \A c \in Epochs : c # e => sock'[c] = sock[c]
          /\ \A c \in Epochs : c # e => cb'[c] = cb[c]
      BY <3>1 DEF IInv, TypeInv, PlaceTypes
    <3>3. \A x : Fresh(x) => Fresh(x)'
      BY <3>1, <3>2 DEF Fresh
    <3>4. /\ \A c \in Epochs : sock'[c] # "none" => sock[c] # "none"
          /\ \A c \in Epochs : sock'[c] = "none" => cb'[c] = cb[c] /\ sock[c] = "none"
          /\ opened \subseteq Epochs
      BY <3>1, <3>2 DEF IInv, TypeInv, FlagTypes, PlaceTypes
    <3>5. \A c \in opened' : sock'[c] \in {"open", "failing", "closed"}
      BY <3>1, <3>2, <3>4 DEF IInv, EpochInv
    <3> QED BY <3>1, <3>3, <3>4, <3>5 DEF IInv, EpochInv
  <2>21. ASSUME NEW e \in Epochs, SocketCloses(e) PROVE EpochInv'
    BY <2>21, CountsNatural DEF SocketCloses, IInv, TypeInv, CountTypes,
       PlaceTypes, EpochInv, HandleInv, RunInv, Stoppers, Fresh, Current,
       Epochs, Attempting
  <2>22. ASSUME NEW e \in Epochs, SocketFails(e) PROVE EpochInv'
    BY <2>22, CountsNatural DEF SocketFails, IInv, TypeInv, CountTypes,
       PlaceTypes, EpochInv, HandleInv, RunInv, Stoppers, Fresh, Current,
       Epochs, Attempting
  <2>23. ASSUME NEW e \in Epochs, AlertArrives(e) PROVE EpochInv'
    BY <2>23, CountsNatural DEF AlertArrives, IInv, TypeInv, CountTypes,
       PlaceTypes, EpochInv, HandleInv, RunInv, Stoppers, Fresh, Current,
       Epochs, Attempting
  <2>24. ASSUME NEW e \in Epochs, AlertCommits(e) PROVE EpochInv'
    BY <2>24, CountsNatural DEF AlertCommits, IInv, TypeInv, CountTypes,
       PlaceTypes, EpochInv, HandleInv, RunInv, Stoppers, Fresh, Current,
       Epochs, Attempting
  <2>25. ASSUME NEW e \in Epochs, CallbackBegins(e) PROVE EpochInv'
    BY <2>25, CountsNatural DEF CallbackBegins, IInv, TypeInv, CountTypes,
       PlaceTypes, EpochInv, HandleInv, RunInv, Stoppers, Fresh, Current,
       Epochs, Attempting
  <2>26. ASSUME NEW e \in Epochs, CallbackReturns(e) PROVE EpochInv'
    BY <2>26, CountsNatural DEF CallbackReturns, IInv, TypeInv, CountTypes,
       PlaceTypes, EpochInv, HandleInv, RunInv, Stoppers, Fresh, Current,
       Epochs, Attempting
  <2>27. ASSUME NEW e \in Epochs, CallbackStops(e) PROVE EpochInv'
    BY <2>27, CountsNatural DEF CallbackStops, StopRaised, IInv, TypeInv,
       CountTypes, PlaceTypes, EpochInv, HandleInv, RunInv, Stoppers, Fresh,
       Current, Epochs, Attempting
  <2>28. ASSUME WorkerTop PROVE EpochInv'
    BY <2>28, CountsNatural DEF WorkerTop, IInv, TypeInv, CountTypes,
       PlaceTypes, EpochInv, HandleInv, RunInv, Stoppers, Fresh, Current,
       Epochs, Attempting
  <2>29. ASSUME WorkerBegins PROVE EpochInv'
    BY <2>29, CountsNatural DEF WorkerBegins, IInv, TypeInv, CountTypes,
       PlaceTypes, EpochInv, HandleInv, RunInv, Stoppers, Fresh, Current,
       Epochs, Attempting
  <2>30. ASSUME WorkerClaims PROVE EpochInv'
    BY <2>30, CountsNatural DEF WorkerClaims, IInv, TypeInv, CountTypes,
       PlaceTypes, EpochInv, HandleInv, RunInv, Stoppers, Fresh, Current,
       Epochs, Attempting
  <2>31. ASSUME WorkerStoresHandle PROVE EpochInv'
    BY <2>31, CountsNatural DEF WorkerStoresHandle, IInv, TypeInv, CountTypes,
       PlaceTypes, EpochInv, HandleInv, RunInv, Stoppers, Fresh, Current,
       Epochs, Attempting
  <2>32. ASSUME WorkerOpens PROVE EpochInv'
    BY <2>32, CountsNatural DEF WorkerOpens, IInv, TypeInv, CountTypes,
       PlaceTypes, EpochInv, HandleInv, RunInv, Stoppers, Fresh, Current,
       Epochs, Attempting
  <2>33. ASSUME WorkerLeavesLoop PROVE EpochInv'
    BY <2>33, CountsNatural DEF WorkerLeavesLoop, IInv, TypeInv, CountTypes,
       PlaceTypes, EpochInv, HandleInv, RunInv, Stoppers, Fresh, Current,
       Epochs, Attempting
  <2>34. ASSUME WorkerDrains PROVE EpochInv'
    BY <2>34, CountsNatural DEF WorkerDrains, IInv, TypeInv, CountTypes,
       PlaceTypes, EpochInv, HandleInv, RunInv, Stoppers, Fresh, Current,
       Epochs, Attempting
  <2>35. ASSUME WorkerTakesOwn PROVE EpochInv'
    BY <2>35, CountsNatural DEF WorkerTakesOwn, IInv, TypeInv, CountTypes,
       PlaceTypes, EpochInv, HandleInv, RunInv, Stoppers, Fresh, Current,
       Epochs, Attempting
  <2>36. ASSUME WorkerDrops PROVE EpochInv'
    BY <2>36, CountsNatural DEF WorkerDrops, IInv, TypeInv, CountTypes,
       PlaceTypes, EpochInv, HandleInv, RunInv, Stoppers, Fresh, Current,
       Epochs, Attempting
  <2>37. ASSUME WorkerRecovers PROVE EpochInv'
    BY <2>37, CountsNatural DEF WorkerRecovers, IInv, TypeInv, CountTypes,
       PlaceTypes, EpochInv, HandleInv, RunInv, Stoppers, Fresh, Current,
       Epochs, Attempting
  <2>38. ASSUME WorkerCallbackBegins PROVE EpochInv'
    BY <2>38, CountsNatural DEF WorkerCallbackBegins, IInv, TypeInv,
       CountTypes, PlaceTypes, EpochInv, HandleInv, RunInv, Stoppers, Fresh,
       Current, Epochs, Attempting
  <2>39. ASSUME WorkerCallbackReturns PROVE EpochInv'
    BY <2>39, CountsNatural DEF WorkerCallbackReturns, IInv, TypeInv,
       CountTypes, PlaceTypes, EpochInv, HandleInv, RunInv, Stoppers, Fresh,
       Current, Epochs, Attempting
  <2>40. ASSUME WorkerDiscards PROVE EpochInv'
    BY <2>40, CountsNatural DEF WorkerDiscards, IInv, TypeInv, CountTypes,
       PlaceTypes, EpochInv, HandleInv, RunInv, Stoppers, Fresh, Current,
       Epochs, Attempting
  <2>41. ASSUME WorkerDecides PROVE EpochInv'
    BY <2>41, CountsNatural DEF WorkerDecides, IInv, TypeInv, CountTypes,
       PlaceTypes, EpochInv, HandleInv, RunInv, Stoppers, Fresh, Current,
       Epochs, Attempting
  <2>42. ASSUME WorkerWakes PROVE EpochInv'
    BY <2>42, CountsNatural DEF WorkerWakes, IInv, TypeInv, CountTypes,
       PlaceTypes, EpochInv, HandleInv, RunInv, Stoppers, Fresh, Current,
       Epochs, Attempting
  <2>43. ASSUME WorkerExits PROVE EpochInv'
    BY <2>43, CountsNatural DEF WorkerExits, IInv, TypeInv, CountTypes,
       PlaceTypes, EpochInv, HandleInv, RunInv, Stoppers, Fresh, Current,
       Epochs, Attempting
  <2> QED
    BY <1>2, <2>1, <2>2, <2>3, <2>4, <2>5, <2>6, <2>7, <2>8, <2>9, <2>10,
       <2>11, <2>12, <2>13, <2>14, <2>15, <2>16, <2>17, <2>18, <2>19, <2>20,
       <2>21, <2>22, <2>23, <2>24, <2>25, <2>26, <2>27, <2>28, <2>29, <2>30,
       <2>31, <2>32, <2>33, <2>34, <2>35, <2>36, <2>37, <2>38, <2>39, <2>40,
       <2>41, <2>42, <2>43 DEF Next, Connect, StopStep, Socket, Callback,
       Worker
<1> QED BY <1>1, <1>2

\* After a disconnect() the current epoch belongs to nobody until the next connect().
LEMMA EndedStep == Usage /\ IInv /\ [Next]_<<vars, limits>> => EndedInv'
<1> SUFFICES ASSUME Usage /\ IInv, [Next]_<<vars, limits>> PROVE EndedInv'
  OBVIOUS
<1> USE DEF flags, fields, workerVars, stopVars, sockets, bounds, history,
   Goto, ConnectGoto, StopGoto
<1>1. CASE UNCHANGED <<vars, limits>>
  BY <1>1 DEF vars, Usage, IInv, TypeInv, CountTypes, PlaceTypes, EndedInv,
     EpochInv, RunInv, StopInv, Ended, Preparing, Past, Current, Stoppers
<1>2. CASE Next
  <2> limits' = limits /\ ~ crashed
    BY <1>2 DEF Next
  <2>1. ASSUME WorkerTop \/ WorkerStoresHandle \/ WorkerLeavesLoop \/
               WorkerDrains \/ WorkerTakesOwn \/ WorkerDrops \/ WorkerRecovers
               \/ WorkerCallbackBegins \/ WorkerCallbackReturns \/
               WorkerDiscards \/ WorkerDecides \/ WorkerWakes \/ WorkerExits
        PROVE  EndedInv'
    <3>1. UNCHANGED <<mayConnect, conn, stop, epoch, first, mine, latest,
                      sock>>
      BY <2>1 DEF WorkerTop, WorkerStoresHandle, WorkerLeavesLoop,
         WorkerDrains, WorkerTakesOwn, WorkerDrops, WorkerRecovers,
         WorkerCallbackBegins, WorkerCallbackReturns, WorkerDiscards,
         WorkerDecides, WorkerWakes, WorkerExits
    <3> QED BY <3>1 DEF IInv, EndedInv, Ended, Current
  <2>2. ASSUME NEW e \in Epochs,
               AlertArrives(e) \/ AlertCommits(e) \/ CallbackBegins(e) \/
               CallbackReturns(e)
        PROVE  EndedInv'
    <3>1. UNCHANGED <<mayConnect, conn, stop, epoch, first, mine, latest,
                      sock>>
      BY <2>2 DEF AlertArrives, AlertCommits, CallbackBegins, CallbackReturns
    <3> QED BY <3>1 DEF IInv, EndedInv, Ended, Current
  <2>3. ASSUME ConnectEntry PROVE EndedInv'
    BY <2>3 DEF ConnectEntry, Usage, IInv, TypeInv, CountTypes, PlaceTypes,
       EndedInv, EpochInv, RunInv, StopInv, Ended, Preparing, Past, Current,
       Stoppers
  <2>4. ASSUME ConnectChecksWorker PROVE EndedInv'
    BY <2>4 DEF ConnectChecksWorker, Usage, IInv, TypeInv, CountTypes,
       PlaceTypes, EndedInv, EpochInv, RunInv, StopInv, Ended, Preparing,
       Past, Current, Stoppers
  <2>5. ASSUME ConnectRefused PROVE EndedInv'
    BY <2>5 DEF ConnectRefused, Usage, IInv, TypeInv, CountTypes, PlaceTypes,
       EndedInv, EpochInv, RunInv, StopInv, Ended, Preparing, Past, Current,
       Stoppers
  <2>6. ASSUME ConnectJoins PROVE EndedInv'
    BY <2>6 DEF ConnectJoins, Usage, IInv, TypeInv, CountTypes, PlaceTypes,
       EndedInv, EpochInv, RunInv, StopInv, Ended, Preparing, Past, Current,
       Stoppers
  <2>7. ASSUME ConnectChecksRunning PROVE EndedInv'
    BY <2>7 DEF ConnectChecksRunning, Usage, IInv, TypeInv, CountTypes,
       PlaceTypes, EndedInv, EpochInv, RunInv, StopInv, Ended, Preparing,
       Past, Current, Stoppers
  <2>8. ASSUME ConnectResets PROVE EndedInv'
    BY <2>8 DEF ConnectResets, Usage, IInv, TypeInv, CountTypes, PlaceTypes,
       EndedInv, EpochInv, RunInv, StopInv, Ended, Preparing, Past, Current,
       Stoppers
  <2>9. ASSUME ConnectRaises PROVE EndedInv'
    BY <2>9 DEF ConnectRaises, Usage, IInv, TypeInv, CountTypes, PlaceTypes,
       EndedInv, EpochInv, RunInv, StopInv, Ended, Preparing, Past, Current,
       Stoppers
  <2>10. ASSUME ConnectClearsFlags PROVE EndedInv'
    BY <2>10 DEF ConnectClearsFlags, Usage, IInv, TypeInv, CountTypes,
       PlaceTypes, EndedInv, EpochInv, RunInv, StopInv, Ended, Preparing,
       Past, Current, Stoppers
  <2>11. ASSUME ConnectBeginsEpoch PROVE EndedInv'
    BY <2>11, NoWorker DEF ConnectBeginsEpoch, Usage, IInv, TypeInv,
       CountTypes, PlaceTypes, EndedInv, EpochInv, RunInv, StopInv, Ended,
       Preparing, Past, Current, Stoppers
  <2>12. ASSUME ConnectSpawns PROVE EndedInv'
    BY <2>12 DEF ConnectSpawns, Usage, IInv, TypeInv, CountTypes, PlaceTypes,
       EndedInv, EpochInv, RunInv, StopInv, Ended, Preparing, Past, Current,
       Stoppers
  <2>13. ASSUME ConnectReturns PROVE EndedInv'
    BY <2>13 DEF ConnectReturns, Usage, IInv, TypeInv, CountTypes, PlaceTypes,
       EndedInv, EpochInv, RunInv, StopInv, Ended, Preparing, Past, Current,
       Stoppers
  <2>14. ASSUME OwnerStops PROVE EndedInv'
    BY <2>14 DEF OwnerStops, StopRaised, Usage, IInv, TypeInv, CountTypes,
       PlaceTypes, EndedInv, EpochInv, RunInv, StopInv, Ended, Preparing,
       Past, Current, Stoppers
  <2>15. ASSUME WorkerCallbackStops PROVE EndedInv'
    BY <2>15 DEF WorkerCallbackStops, StopRaised, Usage, IInv, TypeInv,
       CountTypes, PlaceTypes, EndedInv, EpochInv, RunInv, StopInv, Ended,
       Preparing, Past, Current, Stoppers
  <2>16. ASSUME NEW a \in Stoppers, StopFences(a) PROVE EndedInv'
    BY <2>16 DEF StopFences, Usage, IInv, TypeInv, CountTypes, PlaceTypes,
       EndedInv, EpochInv, RunInv, StopInv, Ended, Preparing, Past, Current,
       Stoppers
  <2>17. ASSUME NEW a \in Stoppers, StopExchanges(a) PROVE EndedInv'
    BY <2>17 DEF StopExchanges, Usage, IInv, TypeInv, CountTypes, PlaceTypes,
       EndedInv, EpochInv, RunInv, StopInv, Ended, Preparing, Past, Current,
       Stoppers
  <2>18. ASSUME NEW a \in Stoppers, StopLooks(a) PROVE EndedInv'
    BY <2>18 DEF StopLooks, Usage, IInv, TypeInv, CountTypes, PlaceTypes,
       EndedInv, EpochInv, RunInv, StopInv, Ended, Preparing, Past, Current,
       Stoppers
  <2>19. ASSUME NEW a \in Stoppers, StopExtracts(a) PROVE EndedInv'
    BY <2>19 DEF StopExtracts, Usage, IInv, TypeInv, CountTypes, PlaceTypes,
       EndedInv, EpochInv, RunInv, StopInv, Ended, Preparing, Past, Current,
       Stoppers
  <2>20. ASSUME NEW a \in Stoppers, StopJoins(a) PROVE EndedInv'
    BY <2>20 DEF StopJoins, Usage, IInv, TypeInv, CountTypes, PlaceTypes,
       EndedInv, EpochInv, RunInv, StopInv, Ended, Preparing, Past, Current,
       Stoppers
  <2>21. ASSUME NEW a \in Stoppers, StopDrops(a) PROVE EndedInv'
    BY <2>21 DEF StopDrops, Usage, IInv, TypeInv, CountTypes, PlaceTypes,
       EndedInv, EpochInv, RunInv, StopInv, Ended, Preparing, Past, Current,
       Stoppers
  <2>22. ASSUME NEW a \in Stoppers, StopReturns(a) PROVE EndedInv'
    BY <2>22 DEF StopReturns, Resume, Usage, IInv, TypeInv, CountTypes,
       PlaceTypes, EndedInv, EpochInv, RunInv, StopInv, Ended, Preparing,
       Past, Current, Stoppers
  <2>23. ASSUME NEW e \in Epochs, SocketOpens(e) PROVE EndedInv'
    BY <2>23 DEF SocketOpens, Usage, IInv, TypeInv, CountTypes, PlaceTypes,
       EndedInv, EpochInv, RunInv, StopInv, Ended, Preparing, Past, Current,
       Stoppers
  <2>24. ASSUME NEW e \in Epochs, SocketCloses(e) PROVE EndedInv'
    BY <2>24 DEF SocketCloses, Usage, IInv, TypeInv, CountTypes, PlaceTypes,
       EndedInv, EpochInv, RunInv, StopInv, Ended, Preparing, Past, Current,
       Stoppers
  <2>25. ASSUME NEW e \in Epochs, SocketFails(e) PROVE EndedInv'
    BY <2>25 DEF SocketFails, Usage, IInv, TypeInv, CountTypes, PlaceTypes,
       EndedInv, EpochInv, RunInv, StopInv, Ended, Preparing, Past, Current,
       Stoppers
  <2>26. ASSUME NEW e \in Epochs, CallbackStops(e) PROVE EndedInv'
    BY <2>26 DEF CallbackStops, StopRaised, Usage, IInv, TypeInv, CountTypes,
       PlaceTypes, EndedInv, EpochInv, RunInv, StopInv, Ended, Preparing,
       Past, Current, Stoppers
  <2>27. ASSUME WorkerBegins PROVE EndedInv'
    BY <2>27 DEF WorkerBegins, Usage, IInv, TypeInv, CountTypes, PlaceTypes,
       EndedInv, EpochInv, RunInv, StopInv, Ended, Preparing, Past, Current,
       Stoppers
  <2>28. ASSUME WorkerClaims PROVE EndedInv'
    BY <2>28 DEF WorkerClaims, Usage, IInv, TypeInv, CountTypes, PlaceTypes,
       EndedInv, EpochInv, RunInv, StopInv, Ended, Preparing, Past, Current,
       Stoppers
  <2>29. ASSUME WorkerOpens PROVE EndedInv'
    BY <2>29 DEF WorkerOpens, Usage, IInv, TypeInv, CountTypes, PlaceTypes,
       EndedInv, EpochInv, RunInv, StopInv, Ended, Preparing, Past, Current,
       Stoppers
  <2> QED
    BY <1>2, <2>1, <2>2, <2>3, <2>4, <2>5, <2>6, <2>7, <2>8, <2>9, <2>10,
       <2>11, <2>12, <2>13, <2>14, <2>15, <2>16, <2>17, <2>18, <2>19, <2>20,
       <2>21, <2>22, <2>23, <2>24, <2>25, <2>26, <2>27, <2>28, <2>29 DEF Next,
       Connect, StopStep, Socket, Callback, Worker
<1> QED BY <1>1, <1>2

\* wsHandle_ is the socket of the running attempt.
LEMMA HandleStep == TypeInv /\ HandleInv /\ [Next]_<<vars, limits>> => HandleInv'
<1> SUFFICES ASSUME TypeInv /\ HandleInv, [Next]_<<vars, limits>> PROVE HandleInv'
  OBVIOUS
<1> USE DEF flags, fields, workerVars, stopVars, sockets, bounds, history,
   Goto, ConnectGoto, StopGoto
<1>1. CASE UNCHANGED <<vars, limits>>
  BY <1>1 DEF vars, HandleInv, Holding, OwnHandle
<1>2. CASE Next
  <2> limits' = limits /\ ~ crashed
    BY <1>2 DEF Next
  <2>1. ASSUME ConnectEntry \/ ConnectChecksWorker \/ ConnectRefused \/
               ConnectChecksRunning \/ ConnectResets \/ ConnectRaises \/
               ConnectClearsFlags \/ ConnectBeginsEpoch \/ ConnectReturns \/
               OwnerStops
        PROVE  HandleInv'
    <3>1. UNCHANGED <<handle, mine, worker>>
      BY <2>1 DEF ConnectEntry, ConnectChecksWorker, ConnectRefused,
         ConnectChecksRunning, ConnectResets, ConnectRaises,
         ConnectClearsFlags, ConnectBeginsEpoch, ConnectReturns, OwnerStops,
         StopRaised
    <3> QED BY <3>1 DEF HandleInv
  <2>2. ASSUME NEW a \in Stoppers,
               StopFences(a) \/ StopExchanges(a) \/ StopLooks(a) \/
               StopDrops(a)
        PROVE  HandleInv'
    <3>1. UNCHANGED <<handle, mine, worker>>
      BY <2>2 DEF StopFences, StopExchanges, StopLooks, StopDrops
    <3> QED BY <3>1 DEF HandleInv
  <2>3. ASSUME NEW e \in Epochs,
               SocketOpens(e) \/ SocketCloses(e) \/ SocketFails(e) \/
               AlertArrives(e) \/ AlertCommits(e) \/ CallbackBegins(e) \/
               CallbackReturns(e) \/ CallbackStops(e)
        PROVE  HandleInv'
    <3>1. UNCHANGED <<handle, mine, worker>>
      BY <2>3 DEF SocketOpens, SocketCloses, SocketFails, AlertArrives,
         AlertCommits, CallbackBegins, CallbackReturns, CallbackStops,
         StopRaised
    <3> QED BY <3>1 DEF HandleInv
  <2>4. ASSUME ConnectJoins PROVE HandleInv'
    BY <2>4 DEF ConnectJoins, HandleInv, Holding, OwnHandle
  <2>5. ASSUME ConnectSpawns PROVE HandleInv'
    BY <2>5 DEF ConnectSpawns, HandleInv, Holding, OwnHandle
  <2>6. ASSUME WorkerCallbackStops PROVE HandleInv'
    BY <2>6 DEF WorkerCallbackStops, StopRaised, HandleInv, Holding, OwnHandle
  <2>7. ASSUME NEW a \in Stoppers, StopExtracts(a) PROVE HandleInv'
    BY <2>7 DEF StopExtracts, HandleInv, Holding, OwnHandle
  <2>8. ASSUME NEW a \in Stoppers, StopJoins(a) PROVE HandleInv'
    BY <2>8 DEF StopJoins, HandleInv, Holding, OwnHandle
  <2>9. ASSUME NEW a \in Stoppers, StopReturns(a) PROVE HandleInv'
    BY <2>9 DEF StopReturns, Resume, HandleInv, Holding, OwnHandle
  <2>10. ASSUME WorkerTop PROVE HandleInv'
    BY <2>10 DEF WorkerTop, HandleInv, Holding, OwnHandle
  <2>11. ASSUME WorkerBegins PROVE HandleInv'
    BY <2>11 DEF WorkerBegins, HandleInv, Holding, OwnHandle
  <2>12. ASSUME WorkerClaims PROVE HandleInv'
    BY <2>12 DEF WorkerClaims, HandleInv, Holding, OwnHandle
  <2>13. ASSUME WorkerStoresHandle PROVE HandleInv'
    BY <2>13 DEF WorkerStoresHandle, HandleInv, Holding, OwnHandle
  <2>14. ASSUME WorkerOpens PROVE HandleInv'
    BY <2>14 DEF WorkerOpens, HandleInv, Holding, OwnHandle
  <2>15. ASSUME WorkerLeavesLoop PROVE HandleInv'
    BY <2>15 DEF WorkerLeavesLoop, HandleInv, Holding, OwnHandle
  <2>16. ASSUME WorkerDrains PROVE HandleInv'
    BY <2>16 DEF WorkerDrains, HandleInv, Holding, OwnHandle
  <2>17. ASSUME WorkerTakesOwn PROVE HandleInv'
    BY <2>17 DEF WorkerTakesOwn, HandleInv, Holding, OwnHandle
  <2>18. ASSUME WorkerDrops PROVE HandleInv'
    BY <2>18 DEF WorkerDrops, HandleInv, Holding, OwnHandle
  <2>19. ASSUME WorkerRecovers PROVE HandleInv'
    BY <2>19 DEF WorkerRecovers, HandleInv, Holding, OwnHandle
  <2>20. ASSUME WorkerCallbackBegins PROVE HandleInv'
    BY <2>20 DEF WorkerCallbackBegins, HandleInv, Holding, OwnHandle
  <2>21. ASSUME WorkerCallbackReturns PROVE HandleInv'
    BY <2>21 DEF WorkerCallbackReturns, HandleInv, Holding, OwnHandle
  <2>22. ASSUME WorkerDiscards PROVE HandleInv'
    BY <2>22 DEF WorkerDiscards, HandleInv, Holding, OwnHandle
  <2>23. ASSUME WorkerDecides PROVE HandleInv'
    BY <2>23 DEF WorkerDecides, HandleInv, Holding, OwnHandle
  <2>24. ASSUME WorkerWakes PROVE HandleInv'
    BY <2>24 DEF WorkerWakes, HandleInv, Holding, OwnHandle
  <2>25. ASSUME WorkerExits PROVE HandleInv'
    BY <2>25 DEF WorkerExits, HandleInv, Holding, OwnHandle
  <2> QED
    BY <1>2, <2>1, <2>2, <2>3, <2>4, <2>5, <2>6, <2>7, <2>8, <2>9, <2>10,
       <2>11, <2>12, <2>13, <2>14, <2>15, <2>16, <2>17, <2>18, <2>19, <2>20,
       <2>21, <2>22, <2>23, <2>24, <2>25 DEF Next, Connect, StopStep, Socket,
       Callback, Worker
<1> QED BY <1>1, <1>2

\* The attempts are used up only where the worker gives up.
LEMMA AttemptStep == IInv /\ [Next]_<<vars, limits>> => AttemptInv'
<1> SUFFICES ASSUME IInv, [Next]_<<vars, limits>> PROVE AttemptInv'
  OBVIOUS
<1> USE DEF flags, fields, workerVars, stopVars, sockets, bounds, history,
   Goto, ConnectGoto, StopGoto
<1>1. CASE UNCHANGED <<vars, limits>>
  BY <1>1 DEF vars, IInv, TypeInv, CountTypes, PlaceTypes, AttemptInv,
     GivingUp
<1>2. CASE Next
  <2> limits' = limits /\ ~ crashed
    BY <1>2 DEF Next
  <2>1. ASSUME ConnectEntry \/ ConnectChecksWorker \/ ConnectRefused \/
               ConnectChecksRunning \/ ConnectResets \/ ConnectRaises \/
               ConnectClearsFlags \/ ConnectBeginsEpoch \/ ConnectReturns \/
               OwnerStops
        PROVE  AttemptInv'
    <3>1. UNCHANGED <<attempts, worker>>
      BY <2>1 DEF ConnectEntry, ConnectChecksWorker, ConnectRefused,
         ConnectChecksRunning, ConnectResets, ConnectRaises,
         ConnectClearsFlags, ConnectBeginsEpoch, ConnectReturns, OwnerStops,
         StopRaised
    <3> QED BY <3>1 DEF IInv, AttemptInv
  <2>2. ASSUME NEW a \in Stoppers,
               StopFences(a) \/ StopExchanges(a) \/ StopLooks(a) \/
               StopExtracts(a) \/ StopDrops(a)
        PROVE  AttemptInv'
    <3>1. UNCHANGED <<attempts, worker>>
      BY <2>2 DEF StopFences, StopExchanges, StopLooks, StopExtracts,
         StopDrops
    <3> QED BY <3>1 DEF IInv, AttemptInv
  <2>3. ASSUME NEW e \in Epochs,
               SocketCloses(e) \/ SocketFails(e) \/ AlertArrives(e) \/
               AlertCommits(e) \/ CallbackBegins(e) \/ CallbackReturns(e) \/
               CallbackStops(e)
        PROVE  AttemptInv'
    <3>1. UNCHANGED <<attempts, worker>>
      BY <2>3 DEF SocketCloses, SocketFails, AlertArrives, AlertCommits,
         CallbackBegins, CallbackReturns, CallbackStops, StopRaised
    <3> QED BY <3>1 DEF IInv, AttemptInv
  <2>4. ASSUME ConnectJoins PROVE AttemptInv'
    BY <2>4, CountsNatural DEF ConnectJoins, IInv, TypeInv, CountTypes,
       PlaceTypes, AttemptInv, GivingUp
  <2>5. ASSUME ConnectSpawns PROVE AttemptInv'
    BY <2>5, CountsNatural DEF ConnectSpawns, IInv, TypeInv, CountTypes,
       PlaceTypes, AttemptInv, GivingUp
  <2>6. ASSUME WorkerCallbackStops PROVE AttemptInv'
    BY <2>6, CountsNatural DEF WorkerCallbackStops, StopRaised, IInv, TypeInv,
       CountTypes, PlaceTypes, AttemptInv, GivingUp
  <2>7. ASSUME NEW a \in Stoppers, StopJoins(a) PROVE AttemptInv'
    BY <2>7, CountsNatural DEF StopJoins, IInv, TypeInv, CountTypes,
       PlaceTypes, AttemptInv, GivingUp
  <2>8. ASSUME NEW a \in Stoppers, StopReturns(a) PROVE AttemptInv'
    BY <2>8, CountsNatural DEF StopReturns, Resume, IInv, TypeInv, CountTypes,
       PlaceTypes, AttemptInv, GivingUp
  <2>9. ASSUME NEW e \in Epochs, SocketOpens(e) PROVE AttemptInv'
    <3>1. Admitted(e) => worker \notin GivingUp
      BY <2>9, CurrentSocket DEF SocketOpens, Admitted, Destroyable, GivingUp
    <3> QED
      BY <2>9, <3>1, CountsNatural
      DEF SocketOpens, IInv, TypeInv, CountTypes, AttemptInv
  <2>10. ASSUME WorkerTop PROVE AttemptInv'
    BY <2>10, CountsNatural DEF WorkerTop, IInv, TypeInv, CountTypes,
       PlaceTypes, AttemptInv, GivingUp
  <2>11. ASSUME WorkerBegins PROVE AttemptInv'
    BY <2>11, CountsNatural DEF WorkerBegins, IInv, TypeInv, CountTypes,
       PlaceTypes, AttemptInv, GivingUp
  <2>12. ASSUME WorkerClaims PROVE AttemptInv'
    BY <2>12, CountsNatural DEF WorkerClaims, IInv, TypeInv, CountTypes,
       PlaceTypes, AttemptInv, GivingUp
  <2>13. ASSUME WorkerStoresHandle PROVE AttemptInv'
    BY <2>13, CountsNatural DEF WorkerStoresHandle, IInv, TypeInv, CountTypes,
       PlaceTypes, AttemptInv, GivingUp
  <2>14. ASSUME WorkerOpens PROVE AttemptInv'
    BY <2>14, CountsNatural DEF WorkerOpens, IInv, TypeInv, CountTypes,
       PlaceTypes, AttemptInv, GivingUp
  <2>15. ASSUME WorkerLeavesLoop PROVE AttemptInv'
    BY <2>15, CountsNatural DEF WorkerLeavesLoop, IInv, TypeInv, CountTypes,
       PlaceTypes, AttemptInv, GivingUp
  <2>16. ASSUME WorkerDrains PROVE AttemptInv'
    BY <2>16, CountsNatural DEF WorkerDrains, IInv, TypeInv, CountTypes,
       PlaceTypes, AttemptInv, GivingUp
  <2>17. ASSUME WorkerTakesOwn PROVE AttemptInv'
    BY <2>17, CountsNatural DEF WorkerTakesOwn, IInv, TypeInv, CountTypes,
       PlaceTypes, AttemptInv, GivingUp
  <2>18. ASSUME WorkerDrops PROVE AttemptInv'
    BY <2>18, CountsNatural DEF WorkerDrops, IInv, TypeInv, CountTypes,
       PlaceTypes, AttemptInv, GivingUp
  <2>19. ASSUME WorkerRecovers PROVE AttemptInv'
    BY <2>19, CountsNatural DEF WorkerRecovers, IInv, TypeInv, CountTypes,
       PlaceTypes, AttemptInv, GivingUp
  <2>20. ASSUME WorkerCallbackBegins PROVE AttemptInv'
    BY <2>20, CountsNatural DEF WorkerCallbackBegins, IInv, TypeInv,
       CountTypes, PlaceTypes, AttemptInv, GivingUp
  <2>21. ASSUME WorkerCallbackReturns PROVE AttemptInv'
    BY <2>21, CountsNatural DEF WorkerCallbackReturns, IInv, TypeInv,
       CountTypes, PlaceTypes, AttemptInv, GivingUp
  <2>22. ASSUME WorkerDiscards PROVE AttemptInv'
    BY <2>22, CountsNatural DEF WorkerDiscards, IInv, TypeInv, CountTypes,
       PlaceTypes, AttemptInv, GivingUp
  <2>23. ASSUME WorkerDecides PROVE AttemptInv'
    BY <2>23, CountsNatural DEF WorkerDecides, IInv, TypeInv, CountTypes,
       PlaceTypes, AttemptInv, GivingUp
  <2>24. ASSUME WorkerWakes PROVE AttemptInv'
    BY <2>24, CountsNatural DEF WorkerWakes, IInv, TypeInv, CountTypes,
       PlaceTypes, AttemptInv, GivingUp
  <2>25. ASSUME WorkerExits PROVE AttemptInv'
    BY <2>25, CountsNatural DEF WorkerExits, IInv, TypeInv, CountTypes,
       PlaceTypes, AttemptInv, GivingUp
  <2> QED
    BY <1>2, <2>1, <2>2, <2>3, <2>4, <2>5, <2>6, <2>7, <2>8, <2>9, <2>10,
       <2>11, <2>12, <2>13, <2>14, <2>15, <2>16, <2>17, <2>18, <2>19, <2>20,
       <2>21, <2>22, <2>23, <2>24, <2>25 DEF Next, Connect, StopStep, Socket,
       Callback, Worker
<1> QED BY <1>1, <1>2

\* Every socket in use is the worker's or the one disconnect() took.
LEMMA CustodyStep == IInv /\ [Next]_<<vars, limits>> => CustodyInv'
<1> SUFFICES ASSUME IInv, [Next]_<<vars, limits>> PROVE CustodyInv'
  OBVIOUS
<1> USE DEF flags, fields, workerVars, stopVars, sockets, bounds, history,
   Goto, ConnectGoto, StopGoto
<1>1. CASE UNCHANGED <<vars, limits>>
  BY <1>1 DEF vars, IInv, TypeInv, CountTypes, PlaceTypes, CustodyInv,
     StopInv, EpochInv, HandleInv, Destroyable, OwnHandle, InFlight, Stoppers
<1>2. CASE Next
  <2> limits' = limits /\ ~ crashed
    BY <1>2 DEF Next
  <2>1. ASSUME ConnectEntry \/ ConnectChecksWorker \/ ConnectRefused \/
               ConnectChecksRunning \/ ConnectResets \/ ConnectRaises \/
               ConnectClearsFlags \/ ConnectBeginsEpoch \/ ConnectReturns \/
               OwnerStops
        PROVE  CustodyInv'
    <3>1. UNCHANGED <<sock, cb, took, mine, worker, handle>>
      BY <2>1 DEF ConnectEntry, ConnectChecksWorker, ConnectRefused,
         ConnectChecksRunning, ConnectResets, ConnectRaises,
         ConnectClearsFlags, ConnectBeginsEpoch, ConnectReturns, OwnerStops,
         StopRaised
    <3> QED BY <3>1 DEF IInv, CustodyInv, Destroyable
  <2>2. ASSUME NEW a \in Stoppers,
               StopFences(a) \/ StopExchanges(a) \/ StopLooks(a)
        PROVE  CustodyInv'
    <3>1. UNCHANGED <<sock, cb, took, mine, worker, handle>>
      BY <2>2 DEF StopFences, StopExchanges, StopLooks
    <3> QED BY <3>1 DEF IInv, CustodyInv, Destroyable
  <2>3. ASSUME ConnectJoins PROVE CustodyInv'
    BY <2>3 DEF ConnectJoins, IInv, TypeInv, CountTypes, PlaceTypes,
       CustodyInv, StopInv, EpochInv, HandleInv, Destroyable, OwnHandle,
       InFlight, Stoppers
  <2>4. ASSUME ConnectSpawns PROVE CustodyInv'
    BY <2>4 DEF ConnectSpawns, IInv, TypeInv, CountTypes, PlaceTypes,
       CustodyInv, StopInv, EpochInv, HandleInv, Destroyable, OwnHandle,
       InFlight, Stoppers
  <2>5. ASSUME WorkerCallbackStops PROVE CustodyInv'
    BY <2>5 DEF WorkerCallbackStops, StopRaised, IInv, TypeInv, CountTypes,
       PlaceTypes, CustodyInv, StopInv, EpochInv, HandleInv, Destroyable,
       OwnHandle, InFlight, Stoppers
  <2>6. ASSUME NEW a \in Stoppers, StopExtracts(a) PROVE CustodyInv'
    <3>1. a = "owner" /\ took["owner"] = 0
      BY <2>6 DEF StopExtracts, IInv, StopInv, Stoppers
    <3> QED
      BY <2>6, <3>1 DEF StopExtracts, IInv, TypeInv, CountTypes, PlaceTypes,
          CustodyInv, HandleInv, Destroyable, Stoppers, Epochs
  <2>7. ASSUME NEW a \in Stoppers, StopJoins(a) PROVE CustodyInv'
    BY <2>7 DEF StopJoins, IInv, TypeInv, CountTypes, PlaceTypes, CustodyInv,
       StopInv, EpochInv, HandleInv, Destroyable, OwnHandle, InFlight,
       Stoppers
  <2>8. ASSUME NEW a \in Stoppers, StopDrops(a) PROVE CustodyInv'
    BY <2>8 DEF StopDrops, IInv, TypeInv, CountTypes, PlaceTypes, CustodyInv,
       StopInv, EpochInv, HandleInv, Destroyable, OwnHandle, InFlight,
       Stoppers
  <2>9. ASSUME NEW a \in Stoppers, StopReturns(a) PROVE CustodyInv'
    BY <2>9 DEF StopReturns, Resume, IInv, TypeInv, CountTypes, PlaceTypes,
       CustodyInv, StopInv, EpochInv, HandleInv, Destroyable, OwnHandle,
       InFlight, Stoppers
  <2>10. ASSUME NEW e \in Epochs, SocketOpens(e) PROVE CustodyInv'
    BY <2>10 DEF SocketOpens, IInv, TypeInv, CountTypes, PlaceTypes,
       CustodyInv, StopInv, EpochInv, HandleInv, Destroyable, OwnHandle,
       InFlight, Stoppers
  <2>11. ASSUME NEW e \in Epochs, SocketCloses(e) PROVE CustodyInv'
    BY <2>11 DEF SocketCloses, IInv, TypeInv, CountTypes, PlaceTypes,
       CustodyInv, StopInv, EpochInv, HandleInv, Destroyable, OwnHandle,
       InFlight, Stoppers
  <2>12. ASSUME NEW e \in Epochs, SocketFails(e) PROVE CustodyInv'
    BY <2>12 DEF SocketFails, IInv, TypeInv, CountTypes, PlaceTypes,
       CustodyInv, StopInv, EpochInv, HandleInv, Destroyable, OwnHandle,
       InFlight, Stoppers
  <2>13. ASSUME NEW e \in Epochs, AlertArrives(e) PROVE CustodyInv'
    BY <2>13 DEF AlertArrives, IInv, TypeInv, CountTypes, PlaceTypes,
       CustodyInv, StopInv, EpochInv, HandleInv, Destroyable, OwnHandle,
       InFlight, Stoppers
  <2>14. ASSUME NEW e \in Epochs, AlertCommits(e) PROVE CustodyInv'
    BY <2>14 DEF AlertCommits, IInv, TypeInv, CountTypes, PlaceTypes,
       CustodyInv, StopInv, EpochInv, HandleInv, Destroyable, OwnHandle,
       InFlight, Stoppers
  <2>15. ASSUME NEW e \in Epochs, CallbackBegins(e) PROVE CustodyInv'
    BY <2>15 DEF CallbackBegins, IInv, TypeInv, CountTypes, PlaceTypes,
       CustodyInv, StopInv, EpochInv, HandleInv, Destroyable, OwnHandle,
       InFlight, Stoppers
  <2>16. ASSUME NEW e \in Epochs, CallbackReturns(e) PROVE CustodyInv'
    BY <2>16 DEF CallbackReturns, IInv, TypeInv, CountTypes, PlaceTypes,
       CustodyInv, StopInv, EpochInv, HandleInv, Destroyable, OwnHandle,
       InFlight, Stoppers
  <2>17. ASSUME NEW e \in Epochs, CallbackStops(e) PROVE CustodyInv'
    BY <2>17 DEF CallbackStops, StopRaised, IInv, TypeInv, CountTypes,
       PlaceTypes, CustodyInv, StopInv, EpochInv, HandleInv, Destroyable,
       OwnHandle, InFlight, Stoppers
  <2>18. ASSUME WorkerTop PROVE CustodyInv'
    BY <2>18 DEF WorkerTop, IInv, TypeInv, CountTypes, PlaceTypes, CustodyInv,
       StopInv, EpochInv, HandleInv, Destroyable, OwnHandle, InFlight,
       Stoppers
  <2>19. ASSUME WorkerBegins PROVE CustodyInv'
    BY <2>19 DEF WorkerBegins, IInv, TypeInv, CountTypes, PlaceTypes,
       CustodyInv, StopInv, EpochInv, HandleInv, Destroyable, OwnHandle,
       InFlight, Stoppers
  <2>20. ASSUME WorkerClaims PROVE CustodyInv'
    BY <2>20 DEF WorkerClaims, IInv, TypeInv, CountTypes, PlaceTypes,
       CustodyInv, StopInv, EpochInv, HandleInv, Destroyable, OwnHandle,
       InFlight, Stoppers
  <2>21. ASSUME WorkerStoresHandle PROVE CustodyInv'
    BY <2>21 DEF WorkerStoresHandle, IInv, TypeInv, CountTypes, PlaceTypes,
       CustodyInv, StopInv, EpochInv, HandleInv, Destroyable, OwnHandle,
       InFlight, Stoppers
  <2>22. ASSUME WorkerOpens PROVE CustodyInv'
    BY <2>22 DEF WorkerOpens, IInv, TypeInv, CountTypes, PlaceTypes,
       CustodyInv, StopInv, EpochInv, HandleInv, Destroyable, OwnHandle,
       InFlight, Stoppers
  <2>23. ASSUME WorkerLeavesLoop PROVE CustodyInv'
    BY <2>23 DEF WorkerLeavesLoop, IInv, TypeInv, CountTypes, PlaceTypes,
       CustodyInv, StopInv, EpochInv, HandleInv, Destroyable, OwnHandle,
       InFlight, Stoppers
  <2>24. ASSUME WorkerDrains PROVE CustodyInv'
    BY <2>24 DEF WorkerDrains, IInv, TypeInv, CountTypes, PlaceTypes,
       CustodyInv, StopInv, EpochInv, HandleInv, Destroyable, OwnHandle,
       InFlight, Stoppers
  <2>25. ASSUME WorkerTakesOwn PROVE CustodyInv'
    BY <2>25 DEF WorkerTakesOwn, IInv, TypeInv, CountTypes, PlaceTypes,
       CustodyInv, StopInv, EpochInv, HandleInv, Destroyable, OwnHandle,
       InFlight, Stoppers
  <2>26. ASSUME WorkerDrops PROVE CustodyInv'
    BY <2>26 DEF WorkerDrops, IInv, TypeInv, CountTypes, PlaceTypes,
       CustodyInv, StopInv, EpochInv, HandleInv, Destroyable, OwnHandle,
       InFlight, Stoppers
  <2>27. ASSUME WorkerRecovers PROVE CustodyInv'
    BY <2>27 DEF WorkerRecovers, IInv, TypeInv, CountTypes, PlaceTypes,
       CustodyInv, StopInv, EpochInv, HandleInv, Destroyable, OwnHandle,
       InFlight, Stoppers
  <2>28. ASSUME WorkerCallbackBegins PROVE CustodyInv'
    BY <2>28 DEF WorkerCallbackBegins, IInv, TypeInv, CountTypes, PlaceTypes,
       CustodyInv, StopInv, EpochInv, HandleInv, Destroyable, OwnHandle,
       InFlight, Stoppers
  <2>29. ASSUME WorkerCallbackReturns PROVE CustodyInv'
    BY <2>29 DEF WorkerCallbackReturns, IInv, TypeInv, CountTypes, PlaceTypes,
       CustodyInv, StopInv, EpochInv, HandleInv, Destroyable, OwnHandle,
       InFlight, Stoppers
  <2>30. ASSUME WorkerDiscards PROVE CustodyInv'
    BY <2>30 DEF WorkerDiscards, IInv, TypeInv, CountTypes, PlaceTypes,
       CustodyInv, StopInv, EpochInv, HandleInv, Destroyable, OwnHandle,
       InFlight, Stoppers
  <2>31. ASSUME WorkerDecides PROVE CustodyInv'
    BY <2>31 DEF WorkerDecides, IInv, TypeInv, CountTypes, PlaceTypes,
       CustodyInv, StopInv, EpochInv, HandleInv, Destroyable, OwnHandle,
       InFlight, Stoppers
  <2>32. ASSUME WorkerWakes PROVE CustodyInv'
    BY <2>32 DEF WorkerWakes, IInv, TypeInv, CountTypes, PlaceTypes,
       CustodyInv, StopInv, EpochInv, HandleInv, Destroyable, OwnHandle,
       InFlight, Stoppers
  <2>33. ASSUME WorkerExits PROVE CustodyInv'
    BY <2>33 DEF WorkerExits, IInv, TypeInv, CountTypes, PlaceTypes,
       CustodyInv, StopInv, EpochInv, HandleInv, Destroyable, OwnHandle,
       InFlight, Stoppers
  <2> QED
    BY <1>2, <2>1, <2>2, <2>3, <2>4, <2>5, <2>6, <2>7, <2>8, <2>9, <2>10,
       <2>11, <2>12, <2>13, <2>14, <2>15, <2>16, <2>17, <2>18, <2>19, <2>20,
       <2>21, <2>22, <2>23, <2>24, <2>25, <2>26, <2>27, <2>28, <2>29, <2>30,
       <2>31, <2>32, <2>33 DEF Next, Connect, StopStep, Socket, Callback,
       Worker
<1> QED BY <1>1, <1>2

\* What disconnect() may rely on at each of its steps.
LEMMA StopStepInv == Usage /\ IInv /\ [Next]_<<vars, limits>> => StopInv'
<1> SUFFICES ASSUME Usage /\ IInv, [Next]_<<vars, limits>> PROVE StopInv'
  OBVIOUS
<1> USE DEF flags, fields, workerVars, stopVars, sockets, bounds, history,
   Goto, ConnectGoto, StopGoto
<1>1. CASE UNCHANGED <<vars, limits>>
  BY <1>1 DEF vars, Usage, IInv, TypeInv, CountTypes, PlaceTypes, StopInv,
     UserStopping, InFlight, WorkerInUser, TeardownDeferred, EndedInv, Ended,
     Past, MayBegin, Stoppers
<1>2. CASE Next
  <2> limits' = limits /\ ~ crashed
    BY <1>2 DEF Next
  <2>1. ASSUME ConnectEntry PROVE StopInv'
    BY <2>1 DEF ConnectEntry, Usage, IInv, TypeInv, CountTypes, PlaceTypes,
       StopInv, UserStopping, InFlight, WorkerInUser, TeardownDeferred,
       EndedInv, Ended, Past, MayBegin, Stoppers
  <2>2. ASSUME ConnectChecksWorker PROVE StopInv'
    BY <2>2 DEF ConnectChecksWorker, Usage, IInv, TypeInv, CountTypes,
       PlaceTypes, StopInv, UserStopping, InFlight, WorkerInUser,
       TeardownDeferred, EndedInv, Ended, Past, MayBegin, Stoppers
  <2>3. ASSUME ConnectRefused PROVE StopInv'
    BY <2>3 DEF ConnectRefused, Usage, IInv, TypeInv, CountTypes, PlaceTypes,
       StopInv, UserStopping, InFlight, WorkerInUser, TeardownDeferred,
       EndedInv, Ended, Past, MayBegin, Stoppers
  <2>4. ASSUME ConnectJoins PROVE StopInv'
    BY <2>4 DEF ConnectJoins, Usage, IInv, TypeInv, CountTypes, PlaceTypes,
       StopInv, UserStopping, InFlight, WorkerInUser, TeardownDeferred,
       EndedInv, Ended, Past, MayBegin, Stoppers
  <2>5. ASSUME ConnectChecksRunning PROVE StopInv'
    BY <2>5 DEF ConnectChecksRunning, Usage, IInv, TypeInv, CountTypes,
       PlaceTypes, StopInv, UserStopping, InFlight, WorkerInUser,
       TeardownDeferred, EndedInv, Ended, Past, MayBegin, Stoppers
  <2>6. ASSUME ConnectResets PROVE StopInv'
    BY <2>6 DEF ConnectResets, Usage, IInv, TypeInv, CountTypes, PlaceTypes,
       StopInv, UserStopping, InFlight, WorkerInUser, TeardownDeferred,
       EndedInv, Ended, Past, MayBegin, Stoppers
  <2>7. ASSUME ConnectRaises PROVE StopInv'
    BY <2>7 DEF ConnectRaises, Usage, IInv, TypeInv, CountTypes, PlaceTypes,
       StopInv, UserStopping, InFlight, WorkerInUser, TeardownDeferred,
       EndedInv, Ended, Past, MayBegin, Stoppers
  <2>8. ASSUME ConnectClearsFlags PROVE StopInv'
    BY <2>8 DEF ConnectClearsFlags, Usage, IInv, TypeInv, CountTypes,
       PlaceTypes, StopInv, UserStopping, InFlight, WorkerInUser,
       TeardownDeferred, EndedInv, Ended, Past, MayBegin, Stoppers
  <2>9. ASSUME ConnectBeginsEpoch PROVE StopInv'
    BY <2>9 DEF ConnectBeginsEpoch, Usage, IInv, TypeInv, CountTypes,
       PlaceTypes, StopInv, UserStopping, InFlight, WorkerInUser,
       TeardownDeferred, EndedInv, Ended, Past, MayBegin, Stoppers
  <2>10. ASSUME ConnectSpawns PROVE StopInv'
    BY <2>10 DEF ConnectSpawns, Usage, IInv, TypeInv, CountTypes, PlaceTypes,
       StopInv, UserStopping, InFlight, WorkerInUser, TeardownDeferred,
       EndedInv, Ended, Past, MayBegin, Stoppers
  <2>11. ASSUME ConnectReturns PROVE StopInv'
    BY <2>11 DEF ConnectReturns, Usage, IInv, TypeInv, CountTypes, PlaceTypes,
       StopInv, UserStopping, InFlight, WorkerInUser, TeardownDeferred,
       EndedInv, Ended, Past, MayBegin, Stoppers
  <2>12. ASSUME OwnerStops PROVE StopInv'
    BY <2>12 DEF OwnerStops, StopRaised, Usage, IInv, TypeInv, CountTypes,
       PlaceTypes, StopInv, UserStopping, InFlight, WorkerInUser,
       TeardownDeferred, EndedInv, Ended, Past, MayBegin, Stoppers
  <2>13. ASSUME WorkerCallbackStops PROVE StopInv'
    BY <2>13 DEF WorkerCallbackStops, StopRaised, Usage, IInv, TypeInv,
       CountTypes, PlaceTypes, StopInv, UserStopping, InFlight, WorkerInUser,
       TeardownDeferred, EndedInv, Ended, Past, MayBegin, Stoppers
  <2>14. ASSUME NEW a \in Stoppers, StopFences(a) PROVE StopInv'
    BY <2>14 DEF StopFences, Usage, IInv, TypeInv, CountTypes, PlaceTypes,
       StopInv, UserStopping, InFlight, WorkerInUser, TeardownDeferred,
       EndedInv, Ended, Past, MayBegin, Stoppers
  <2>15. ASSUME NEW a \in Stoppers, StopExchanges(a) PROVE StopInv'
    BY <2>15 DEF StopExchanges, Usage, IInv, TypeInv, CountTypes, PlaceTypes,
       StopInv, UserStopping, InFlight, WorkerInUser, TeardownDeferred,
       EndedInv, Ended, Past, MayBegin, Stoppers
  <2>16. ASSUME NEW a \in Stoppers, StopLooks(a) PROVE StopInv'
    BY <2>16 DEF StopLooks, Usage, IInv, TypeInv, CountTypes, PlaceTypes,
       StopInv, UserStopping, InFlight, WorkerInUser, TeardownDeferred,
       EndedInv, Ended, Past, MayBegin, Stoppers
  <2>17. ASSUME NEW a \in Stoppers, StopExtracts(a) PROVE StopInv'
    BY <2>17 DEF StopExtracts, Usage, IInv, TypeInv, CountTypes, PlaceTypes,
       StopInv, UserStopping, InFlight, WorkerInUser, TeardownDeferred,
       EndedInv, Ended, Past, MayBegin, Stoppers
  <2>18. ASSUME NEW a \in Stoppers, StopJoins(a) PROVE StopInv'
    BY <2>18 DEF StopJoins, Usage, IInv, TypeInv, CountTypes, PlaceTypes,
       StopInv, UserStopping, InFlight, WorkerInUser, TeardownDeferred,
       EndedInv, Ended, Past, MayBegin, Stoppers
  <2>19. ASSUME NEW a \in Stoppers, StopDrops(a) PROVE StopInv'
    BY <2>19 DEF StopDrops, Usage, IInv, TypeInv, CountTypes, PlaceTypes,
       StopInv, UserStopping, InFlight, WorkerInUser, TeardownDeferred,
       EndedInv, Ended, Past, MayBegin, Stoppers
  <2>20. ASSUME NEW a \in Stoppers, StopReturns(a) PROVE StopInv'
    BY <2>20 DEF StopReturns, Resume, Usage, IInv, TypeInv, CountTypes,
       PlaceTypes, StopInv, UserStopping, InFlight, WorkerInUser,
       TeardownDeferred, EndedInv, Ended, Past, MayBegin, Stoppers
  <2>21. ASSUME NEW e \in Epochs, SocketOpens(e) PROVE StopInv'
    BY <2>21 DEF SocketOpens, Usage, IInv, TypeInv, CountTypes, PlaceTypes,
       StopInv, UserStopping, InFlight, WorkerInUser, TeardownDeferred,
       EndedInv, Ended, Past, MayBegin, Stoppers
  <2>22. ASSUME NEW e \in Epochs, SocketCloses(e) PROVE StopInv'
    BY <2>22 DEF SocketCloses, Usage, IInv, TypeInv, CountTypes, PlaceTypes,
       StopInv, UserStopping, InFlight, WorkerInUser, TeardownDeferred,
       EndedInv, Ended, Past, MayBegin, Stoppers
  <2>23. ASSUME NEW e \in Epochs, SocketFails(e) PROVE StopInv'
    BY <2>23 DEF SocketFails, Usage, IInv, TypeInv, CountTypes, PlaceTypes,
       StopInv, UserStopping, InFlight, WorkerInUser, TeardownDeferred,
       EndedInv, Ended, Past, MayBegin, Stoppers
  <2>24. ASSUME NEW e \in Epochs, AlertArrives(e) PROVE StopInv'
    BY <2>24 DEF AlertArrives, Usage, IInv, TypeInv, CountTypes, PlaceTypes,
       StopInv, UserStopping, InFlight, WorkerInUser, TeardownDeferred,
       EndedInv, Ended, Past, MayBegin, Stoppers
  <2>25. ASSUME NEW e \in Epochs, AlertCommits(e) PROVE StopInv'
    BY <2>25 DEF AlertCommits, Usage, IInv, TypeInv, CountTypes, PlaceTypes,
       StopInv, UserStopping, InFlight, WorkerInUser, TeardownDeferred,
       EndedInv, Ended, Past, MayBegin, Stoppers
  <2>26. ASSUME NEW e \in Epochs, CallbackBegins(e) PROVE StopInv'
    <3>1. stop["owner"] \in {"extract", "join", "drop"} => ~ MayBegin(e)
      BY <2>26
      DEF CallbackBegins, MayBegin, IInv, EndedInv, EpochInv, Ended, Past,
          Stoppers
    <3> QED
      BY <2>26, <3>1
      DEF CallbackBegins, IInv, TypeInv, PlaceTypes, StopInv, UserStopping,
          InFlight, WorkerInUser
  <2>27. ASSUME NEW e \in Epochs, CallbackReturns(e) PROVE StopInv'
    BY <2>27 DEF CallbackReturns, Usage, IInv, TypeInv, CountTypes,
       PlaceTypes, StopInv, UserStopping, InFlight, WorkerInUser,
       TeardownDeferred, EndedInv, Ended, Past, MayBegin, Stoppers
  <2>28. ASSUME NEW e \in Epochs, CallbackStops(e) PROVE StopInv'
    BY <2>28 DEF CallbackStops, StopRaised, Usage, IInv, TypeInv, CountTypes,
       PlaceTypes, StopInv, UserStopping, InFlight, WorkerInUser,
       TeardownDeferred, EndedInv, Ended, Past, MayBegin, Stoppers
  <2>29. ASSUME WorkerTop PROVE StopInv'
    BY <2>29 DEF WorkerTop, Usage, IInv, TypeInv, CountTypes, PlaceTypes,
       StopInv, UserStopping, InFlight, WorkerInUser, TeardownDeferred,
       EndedInv, Ended, Past, MayBegin, Stoppers
  <2>30. ASSUME WorkerBegins PROVE StopInv'
    BY <2>30 DEF WorkerBegins, Usage, IInv, TypeInv, CountTypes, PlaceTypes,
       StopInv, UserStopping, InFlight, WorkerInUser, TeardownDeferred,
       EndedInv, Ended, Past, MayBegin, Stoppers
  <2>31. ASSUME WorkerClaims PROVE StopInv'
    BY <2>31 DEF WorkerClaims, Usage, IInv, TypeInv, CountTypes, PlaceTypes,
       StopInv, UserStopping, InFlight, WorkerInUser, TeardownDeferred,
       EndedInv, Ended, Past, MayBegin, Stoppers
  <2>32. ASSUME WorkerStoresHandle PROVE StopInv'
    BY <2>32 DEF WorkerStoresHandle, Usage, IInv, TypeInv, CountTypes,
       PlaceTypes, StopInv, UserStopping, InFlight, WorkerInUser,
       TeardownDeferred, EndedInv, Ended, Past, MayBegin, Stoppers
  <2>33. ASSUME WorkerOpens PROVE StopInv'
    BY <2>33 DEF WorkerOpens, Usage, IInv, TypeInv, CountTypes, PlaceTypes,
       StopInv, UserStopping, InFlight, WorkerInUser, TeardownDeferred,
       EndedInv, Ended, Past, MayBegin, Stoppers
  <2>34. ASSUME WorkerLeavesLoop PROVE StopInv'
    BY <2>34 DEF WorkerLeavesLoop, Usage, IInv, TypeInv, CountTypes,
       PlaceTypes, StopInv, UserStopping, InFlight, WorkerInUser,
       TeardownDeferred, EndedInv, Ended, Past, MayBegin, Stoppers
  <2>35. ASSUME WorkerDrains PROVE StopInv'
    BY <2>35 DEF WorkerDrains, Usage, IInv, TypeInv, CountTypes, PlaceTypes,
       StopInv, UserStopping, InFlight, WorkerInUser, TeardownDeferred,
       EndedInv, Ended, Past, MayBegin, Stoppers
  <2>36. ASSUME WorkerTakesOwn PROVE StopInv'
    BY <2>36 DEF WorkerTakesOwn, Usage, IInv, TypeInv, CountTypes, PlaceTypes,
       StopInv, UserStopping, InFlight, WorkerInUser, TeardownDeferred,
       EndedInv, Ended, Past, MayBegin, Stoppers
  <2>37. ASSUME WorkerDrops PROVE StopInv'
    BY <2>37 DEF WorkerDrops, Usage, IInv, TypeInv, CountTypes, PlaceTypes,
       StopInv, UserStopping, InFlight, WorkerInUser, TeardownDeferred,
       EndedInv, Ended, Past, MayBegin, Stoppers
  <2>38. ASSUME WorkerRecovers PROVE StopInv'
    BY <2>38 DEF WorkerRecovers, Usage, IInv, TypeInv, CountTypes, PlaceTypes,
       StopInv, UserStopping, InFlight, WorkerInUser, TeardownDeferred,
       EndedInv, Ended, Past, MayBegin, Stoppers
  <2>39. ASSUME WorkerCallbackBegins PROVE StopInv'
    BY <2>39 DEF WorkerCallbackBegins, Usage, IInv, TypeInv, CountTypes,
       PlaceTypes, StopInv, UserStopping, InFlight, WorkerInUser,
       TeardownDeferred, EndedInv, Ended, Past, MayBegin, Stoppers
  <2>40. ASSUME WorkerCallbackReturns PROVE StopInv'
    BY <2>40 DEF WorkerCallbackReturns, Usage, IInv, TypeInv, CountTypes,
       PlaceTypes, StopInv, UserStopping, InFlight, WorkerInUser,
       TeardownDeferred, EndedInv, Ended, Past, MayBegin, Stoppers
  <2>41. ASSUME WorkerDiscards PROVE StopInv'
    BY <2>41 DEF WorkerDiscards, Usage, IInv, TypeInv, CountTypes, PlaceTypes,
       StopInv, UserStopping, InFlight, WorkerInUser, TeardownDeferred,
       EndedInv, Ended, Past, MayBegin, Stoppers
  <2>42. ASSUME WorkerDecides PROVE StopInv'
    BY <2>42 DEF WorkerDecides, Usage, IInv, TypeInv, CountTypes, PlaceTypes,
       StopInv, UserStopping, InFlight, WorkerInUser, TeardownDeferred,
       EndedInv, Ended, Past, MayBegin, Stoppers
  <2>43. ASSUME WorkerWakes PROVE StopInv'
    BY <2>43 DEF WorkerWakes, Usage, IInv, TypeInv, CountTypes, PlaceTypes,
       StopInv, UserStopping, InFlight, WorkerInUser, TeardownDeferred,
       EndedInv, Ended, Past, MayBegin, Stoppers
  <2>44. ASSUME WorkerExits PROVE StopInv'
    BY <2>44 DEF WorkerExits, Usage, IInv, TypeInv, CountTypes, PlaceTypes,
       StopInv, UserStopping, InFlight, WorkerInUser, TeardownDeferred,
       EndedInv, Ended, Past, MayBegin, Stoppers
  <2> QED
    BY <1>2, <2>1, <2>2, <2>3, <2>4, <2>5, <2>6, <2>7, <2>8, <2>9, <2>10,
       <2>11, <2>12, <2>13, <2>14, <2>15, <2>16, <2>17, <2>18, <2>19, <2>20,
       <2>21, <2>22, <2>23, <2>24, <2>25, <2>26, <2>27, <2>28, <2>29, <2>30,
       <2>31, <2>32, <2>33, <2>34, <2>35, <2>36, <2>37, <2>38, <2>39, <2>40,
       <2>41, <2>42, <2>43, <2>44 DEF Next, Connect, StopStep, Socket,
       Callback, Worker
<1> QED BY <1>1, <1>2

\* What connect() may rely on at each of its steps.
LEMMA RunStep == Usage /\ IInv /\ [Next]_<<vars, limits>> => RunInv'
<1> SUFFICES ASSUME Usage /\ IInv, [Next]_<<vars, limits>> PROVE RunInv'
  OBVIOUS
<1> USE DEF flags, fields, workerVars, stopVars, sockets, bounds, history,
   Goto, ConnectGoto, StopGoto
<1>1. CASE UNCHANGED <<vars, limits>>
  BY <1>1 DEF vars, Usage, IInv, TypeInv, CountTypes, PlaceTypes, RunInv,
     StopInv, WorkerIsOver, Stoppers
<1>2. CASE Next
  <2> limits' = limits /\ ~ crashed
    BY <1>2 DEF Next
  <2>1. ASSUME NEW e \in Epochs,
               SocketOpens(e) \/ SocketCloses(e) \/ SocketFails(e) \/
               AlertArrives(e) \/ AlertCommits(e) \/ CallbackBegins(e) \/
               CallbackReturns(e)
        PROVE  RunInv'
    <3>1. UNCHANGED <<mayConnect, conn, stop, shouldRun, worker, quiet>>
      BY <2>1 DEF SocketOpens, SocketCloses, SocketFails, AlertArrives,
         AlertCommits, CallbackBegins, CallbackReturns
    <3> QED BY <3>1 DEF IInv, RunInv
  <2>2. ASSUME ConnectEntry PROVE RunInv'
    BY <2>2, NoWorker DEF ConnectEntry, Usage, IInv, TypeInv, CountTypes,
       PlaceTypes, RunInv, StopInv, WorkerIsOver, Stoppers
  <2>3. ASSUME ConnectChecksWorker PROVE RunInv'
    BY <2>3, NoWorker DEF ConnectChecksWorker, Usage, IInv, TypeInv,
       CountTypes, PlaceTypes, RunInv, StopInv, WorkerIsOver, Stoppers
  <2>4. ASSUME ConnectRefused PROVE RunInv'
    BY <2>4, NoWorker DEF ConnectRefused, Usage, IInv, TypeInv, CountTypes,
       PlaceTypes, RunInv, StopInv, WorkerIsOver, Stoppers
  <2>5. ASSUME ConnectJoins PROVE RunInv'
    BY <2>5, NoWorker DEF ConnectJoins, Usage, IInv, TypeInv, CountTypes,
       PlaceTypes, RunInv, StopInv, WorkerIsOver, Stoppers
  <2>6. ASSUME ConnectChecksRunning PROVE RunInv'
    BY <2>6, NoWorker DEF ConnectChecksRunning, Usage, IInv, TypeInv,
       CountTypes, PlaceTypes, RunInv, StopInv, WorkerIsOver, Stoppers
  <2>7. ASSUME ConnectResets PROVE RunInv'
    BY <2>7, NoWorker DEF ConnectResets, Usage, IInv, TypeInv, CountTypes,
       PlaceTypes, RunInv, StopInv, WorkerIsOver, Stoppers
  <2>8. ASSUME ConnectRaises PROVE RunInv'
    BY <2>8, NoWorker DEF ConnectRaises, Usage, IInv, TypeInv, CountTypes,
       PlaceTypes, RunInv, StopInv, WorkerIsOver, Stoppers
  <2>9. ASSUME ConnectClearsFlags PROVE RunInv'
    BY <2>9, NoWorker DEF ConnectClearsFlags, Usage, IInv, TypeInv,
       CountTypes, PlaceTypes, RunInv, StopInv, WorkerIsOver, Stoppers
  <2>10. ASSUME ConnectBeginsEpoch PROVE RunInv'
    BY <2>10, NoWorker DEF ConnectBeginsEpoch, Usage, IInv, TypeInv,
       CountTypes, PlaceTypes, RunInv, StopInv, WorkerIsOver, Stoppers
  <2>11. ASSUME ConnectSpawns PROVE RunInv'
    BY <2>11, NoWorker DEF ConnectSpawns, Usage, IInv, TypeInv, CountTypes,
       PlaceTypes, RunInv, StopInv, WorkerIsOver, Stoppers
  <2>12. ASSUME ConnectReturns PROVE RunInv'
    BY <2>12, NoWorker DEF ConnectReturns, Usage, IInv, TypeInv, CountTypes,
       PlaceTypes, RunInv, StopInv, WorkerIsOver, Stoppers
  <2>13. ASSUME OwnerStops PROVE RunInv'
    BY <2>13, NoWorker DEF OwnerStops, StopRaised, Usage, IInv, TypeInv,
       CountTypes, PlaceTypes, RunInv, StopInv, WorkerIsOver, Stoppers
  <2>14. ASSUME WorkerCallbackStops PROVE RunInv'
    BY <2>14, NoWorker DEF WorkerCallbackStops, StopRaised, Usage, IInv,
       TypeInv, CountTypes, PlaceTypes, RunInv, StopInv, WorkerIsOver,
       Stoppers
  <2>15. ASSUME NEW a \in Stoppers, StopFences(a) PROVE RunInv'
    BY <2>15, NoWorker DEF StopFences, Usage, IInv, TypeInv, CountTypes,
       PlaceTypes, RunInv, StopInv, WorkerIsOver, Stoppers
  <2>16. ASSUME NEW a \in Stoppers, StopExchanges(a) PROVE RunInv'
    BY <2>16, NoWorker DEF StopExchanges, Usage, IInv, TypeInv, CountTypes,
       PlaceTypes, RunInv, StopInv, WorkerIsOver, Stoppers
  <2>17. ASSUME NEW a \in Stoppers, StopLooks(a) PROVE RunInv'
    BY <2>17, NoWorker DEF StopLooks, Usage, IInv, TypeInv, CountTypes,
       PlaceTypes, RunInv, StopInv, WorkerIsOver, Stoppers
  <2>18. ASSUME NEW a \in Stoppers, StopExtracts(a) PROVE RunInv'
    BY <2>18, NoWorker DEF StopExtracts, Usage, IInv, TypeInv, CountTypes,
       PlaceTypes, RunInv, StopInv, WorkerIsOver, Stoppers
  <2>19. ASSUME NEW a \in Stoppers, StopJoins(a) PROVE RunInv'
    BY <2>19, NoWorker DEF StopJoins, Usage, IInv, TypeInv, CountTypes,
       PlaceTypes, RunInv, StopInv, WorkerIsOver, Stoppers
  <2>20. ASSUME NEW a \in Stoppers, StopDrops(a) PROVE RunInv'
    BY <2>20, NoWorker DEF StopDrops, Usage, IInv, TypeInv, CountTypes,
       PlaceTypes, RunInv, StopInv, WorkerIsOver, Stoppers
  <2>21. ASSUME NEW a \in Stoppers, StopReturns(a) PROVE RunInv'
    BY <2>21, NoWorker DEF StopReturns, Resume, Usage, IInv, TypeInv,
       CountTypes, PlaceTypes, RunInv, StopInv, WorkerIsOver, Stoppers
  <2>22. ASSUME NEW e \in Epochs, CallbackStops(e) PROVE RunInv'
    BY <2>22, NoWorker DEF CallbackStops, StopRaised, Usage, IInv, TypeInv,
       CountTypes, PlaceTypes, RunInv, StopInv, WorkerIsOver, Stoppers
  <2>23. ASSUME WorkerTop PROVE RunInv'
    BY <2>23, NoWorker DEF WorkerTop, Usage, IInv, TypeInv, CountTypes,
       PlaceTypes, RunInv, StopInv, WorkerIsOver, Stoppers
  <2>24. ASSUME WorkerBegins PROVE RunInv'
    BY <2>24, NoWorker DEF WorkerBegins, Usage, IInv, TypeInv, CountTypes,
       PlaceTypes, RunInv, StopInv, WorkerIsOver, Stoppers
  <2>25. ASSUME WorkerClaims PROVE RunInv'
    BY <2>25, NoWorker DEF WorkerClaims, Usage, IInv, TypeInv, CountTypes,
       PlaceTypes, RunInv, StopInv, WorkerIsOver, Stoppers
  <2>26. ASSUME WorkerStoresHandle PROVE RunInv'
    BY <2>26, NoWorker DEF WorkerStoresHandle, Usage, IInv, TypeInv,
       CountTypes, PlaceTypes, RunInv, StopInv, WorkerIsOver, Stoppers
  <2>27. ASSUME WorkerOpens PROVE RunInv'
    BY <2>27, NoWorker DEF WorkerOpens, Usage, IInv, TypeInv, CountTypes,
       PlaceTypes, RunInv, StopInv, WorkerIsOver, Stoppers
  <2>28. ASSUME WorkerLeavesLoop PROVE RunInv'
    BY <2>28, NoWorker DEF WorkerLeavesLoop, Usage, IInv, TypeInv, CountTypes,
       PlaceTypes, RunInv, StopInv, WorkerIsOver, Stoppers
  <2>29. ASSUME WorkerDrains PROVE RunInv'
    BY <2>29, NoWorker DEF WorkerDrains, Usage, IInv, TypeInv, CountTypes,
       PlaceTypes, RunInv, StopInv, WorkerIsOver, Stoppers
  <2>30. ASSUME WorkerTakesOwn PROVE RunInv'
    BY <2>30, NoWorker DEF WorkerTakesOwn, Usage, IInv, TypeInv, CountTypes,
       PlaceTypes, RunInv, StopInv, WorkerIsOver, Stoppers
  <2>31. ASSUME WorkerDrops PROVE RunInv'
    BY <2>31, NoWorker DEF WorkerDrops, Usage, IInv, TypeInv, CountTypes,
       PlaceTypes, RunInv, StopInv, WorkerIsOver, Stoppers
  <2>32. ASSUME WorkerRecovers PROVE RunInv'
    BY <2>32, NoWorker DEF WorkerRecovers, Usage, IInv, TypeInv, CountTypes,
       PlaceTypes, RunInv, StopInv, WorkerIsOver, Stoppers
  <2>33. ASSUME WorkerCallbackBegins PROVE RunInv'
    BY <2>33, NoWorker DEF WorkerCallbackBegins, Usage, IInv, TypeInv,
       CountTypes, PlaceTypes, RunInv, StopInv, WorkerIsOver, Stoppers
  <2>34. ASSUME WorkerCallbackReturns PROVE RunInv'
    BY <2>34, NoWorker DEF WorkerCallbackReturns, Usage, IInv, TypeInv,
       CountTypes, PlaceTypes, RunInv, StopInv, WorkerIsOver, Stoppers
  <2>35. ASSUME WorkerDiscards PROVE RunInv'
    BY <2>35, NoWorker DEF WorkerDiscards, Usage, IInv, TypeInv, CountTypes,
       PlaceTypes, RunInv, StopInv, WorkerIsOver, Stoppers
  <2>36. ASSUME WorkerDecides PROVE RunInv'
    BY <2>36, NoWorker DEF WorkerDecides, Usage, IInv, TypeInv, CountTypes,
       PlaceTypes, RunInv, StopInv, WorkerIsOver, Stoppers
  <2>37. ASSUME WorkerWakes PROVE RunInv'
    BY <2>37, NoWorker DEF WorkerWakes, Usage, IInv, TypeInv, CountTypes,
       PlaceTypes, RunInv, StopInv, WorkerIsOver, Stoppers
  <2>38. ASSUME WorkerExits PROVE RunInv'
    BY <2>38, NoWorker DEF WorkerExits, Usage, IInv, TypeInv, CountTypes,
       PlaceTypes, RunInv, StopInv, WorkerIsOver, Stoppers
  <2> QED
    BY <1>2, <2>1, <2>2, <2>3, <2>4, <2>5, <2>6, <2>7, <2>8, <2>9, <2>10,
       <2>11, <2>12, <2>13, <2>14, <2>15, <2>16, <2>17, <2>18, <2>19, <2>20,
       <2>21, <2>22, <2>23, <2>24, <2>25, <2>26, <2>27, <2>28, <2>29, <2>30,
       <2>31, <2>32, <2>33, <2>34, <2>35, <2>36, <2>37, <2>38 DEF Next,
       Connect, StopStep, Socket, Callback, Worker
<1> QED BY <1>1, <1>2

\* connected_ is about the current socket.
LEMMA ConnectedStep == IInv /\ [Next]_<<vars, limits>> => ConnectedInv'
<1> SUFFICES ASSUME IInv, [Next]_<<vars, limits>> PROVE ConnectedInv'
  OBVIOUS
<1> USE DEF flags, fields, workerVars, stopVars, sockets, bounds, history,
   Goto, ConnectGoto, StopGoto
<1>1. CASE UNCHANGED <<vars, limits>>
  BY <1>1 DEF vars, IInv, TypeInv, CountTypes, PlaceTypes, ConnectedInv,
     EpochInv, Stoppers
<1>2. CASE Next
  <2> limits' = limits /\ ~ crashed
    BY <1>2 DEF Next
  <2>1. ASSUME ConnectEntry \/ ConnectChecksWorker \/ ConnectRefused \/
               ConnectChecksRunning \/ ConnectResets \/ ConnectRaises \/
               ConnectClearsFlags \/ ConnectReturns
        PROVE  ConnectedInv'
    <3>1. UNCHANGED <<connected, worker, epoch, opened, sock, stop>>
      BY <2>1 DEF ConnectEntry, ConnectChecksWorker, ConnectRefused,
         ConnectChecksRunning, ConnectResets, ConnectRaises,
         ConnectClearsFlags, ConnectReturns
    <3> QED BY <3>1 DEF IInv, ConnectedInv
  <2>2. ASSUME NEW e \in Epochs,
               AlertArrives(e) \/ AlertCommits(e) \/ CallbackBegins(e) \/
               CallbackReturns(e)
        PROVE  ConnectedInv'
    <3>1. UNCHANGED <<connected, worker, epoch, opened, sock, stop>>
      BY <2>2 DEF AlertArrives, AlertCommits, CallbackBegins, CallbackReturns
    <3> QED BY <3>1 DEF IInv, ConnectedInv
  <2>3. ASSUME ConnectJoins PROVE ConnectedInv'
    BY <2>3, OverUnused DEF ConnectJoins, IInv, TypeInv, CountTypes,
       PlaceTypes, ConnectedInv, EpochInv, Stoppers
  <2>4. ASSUME ConnectBeginsEpoch PROVE ConnectedInv'
    <3> QED
      BY <2>4, NoWorker
      DEF ConnectBeginsEpoch, IInv, RunInv, StopInv, ConnectedInv
  <2>5. ASSUME ConnectSpawns PROVE ConnectedInv'
    BY <2>5 DEF ConnectSpawns, IInv, TypeInv, CountTypes, PlaceTypes,
       ConnectedInv, EpochInv, Stoppers
  <2>6. ASSUME OwnerStops PROVE ConnectedInv'
    BY <2>6 DEF OwnerStops, StopRaised, IInv, TypeInv, CountTypes, PlaceTypes,
       ConnectedInv, EpochInv, Stoppers
  <2>7. ASSUME WorkerCallbackStops PROVE ConnectedInv'
    BY <2>7 DEF WorkerCallbackStops, StopRaised, IInv, TypeInv, CountTypes,
       PlaceTypes, ConnectedInv, EpochInv, Stoppers
  <2>8. ASSUME NEW a \in Stoppers, StopFences(a) PROVE ConnectedInv'
    BY <2>8 DEF StopFences, IInv, TypeInv, CountTypes, PlaceTypes,
       ConnectedInv, EpochInv, Stoppers
  <2>9. ASSUME NEW a \in Stoppers, StopExchanges(a) PROVE ConnectedInv'
    BY <2>9 DEF StopExchanges, IInv, TypeInv, CountTypes, PlaceTypes,
       ConnectedInv, EpochInv, Stoppers
  <2>10. ASSUME NEW a \in Stoppers, StopLooks(a) PROVE ConnectedInv'
    BY <2>10 DEF StopLooks, IInv, TypeInv, CountTypes, PlaceTypes,
       ConnectedInv, EpochInv, Stoppers
  <2>11. ASSUME NEW a \in Stoppers, StopExtracts(a) PROVE ConnectedInv'
    BY <2>11 DEF StopExtracts, IInv, TypeInv, CountTypes, PlaceTypes,
       ConnectedInv, EpochInv, Stoppers
  <2>12. ASSUME NEW a \in Stoppers, StopJoins(a) PROVE ConnectedInv'
    <3>1. a = "owner"
      BY <2>12 DEF StopJoins, IInv, StopInv, Stoppers
    <3> QED BY <2>12, <3>1, OverUnused DEF StopJoins, ConnectedInv
  <2>13. ASSUME NEW a \in Stoppers, StopDrops(a) PROVE ConnectedInv'
    BY <2>13 DEF StopDrops, IInv, TypeInv, CountTypes, PlaceTypes,
       ConnectedInv, EpochInv, Stoppers
  <2>14. ASSUME NEW a \in Stoppers, StopReturns(a) PROVE ConnectedInv'
    BY <2>14 DEF StopReturns, Resume, IInv, TypeInv, CountTypes, PlaceTypes,
       ConnectedInv, EpochInv, Stoppers
  <2>15. ASSUME NEW e \in Epochs, SocketOpens(e) PROVE ConnectedInv'
    <3>1. Admitted(e) => worker # "none"
      BY <2>15, CurrentSocket DEF SocketOpens, Admitted, Destroyable
    <3> QED
      BY <2>15, <3>1
      DEF SocketOpens, Admitted, Current, Epochs, IInv, TypeInv, PlaceTypes,
          ConnectedInv
  <2>16. ASSUME NEW e \in Epochs, SocketCloses(e) PROVE ConnectedInv'
    <3>1. CASE Admitted(e)
      BY <2>16, <3>1 DEF SocketCloses, ConnectedInv
    <3>2. CASE ~ Admitted(e)
      <4>1. connected' = connected /\ e # epoch
        BY <2>16, <3>2 DEF SocketCloses, Admitted, Current, Epochs
      <4> QED
        BY <2>16, <4>1
        DEF SocketCloses, IInv, TypeInv, PlaceTypes, ConnectedInv
    <3> QED BY <3>1, <3>2
  <2>17. ASSUME NEW e \in Epochs, SocketFails(e) PROVE ConnectedInv'
    BY <2>17 DEF SocketFails, IInv, TypeInv, CountTypes, PlaceTypes,
       ConnectedInv, EpochInv, Stoppers
  <2>18. ASSUME NEW e \in Epochs, CallbackStops(e) PROVE ConnectedInv'
    BY <2>18 DEF CallbackStops, StopRaised, IInv, TypeInv, CountTypes,
       PlaceTypes, ConnectedInv, EpochInv, Stoppers
  <2>19. ASSUME WorkerTop PROVE ConnectedInv'
    BY <2>19 DEF WorkerTop, IInv, TypeInv, CountTypes, PlaceTypes,
       ConnectedInv, EpochInv, Stoppers
  <2>20. ASSUME WorkerBegins PROVE ConnectedInv'
    <3>1. Current(latest) => ~ Ended /\ ~ connected
      <4> SUFFICES ASSUME Current(latest) PROVE ~ Ended /\ ~ connected
        OBVIOUS
      <4>1. ~ Ended
        BY DEF IInv, EndedInv
      <4>2. epoch \in Epochs => Destroyable(epoch)
        BY <2>20, CurrentSocket DEF WorkerBegins, Current, Epochs
      <4>3. \A a \in Stoppers : stop[a] = "exchange" => Ended
        BY DEF Ended, Past
      <4>4. ~ (epoch \in opened /\ sock[epoch] \in {"open", "failing"})
        BY <4>2 DEF Destroyable, IInv, TypeInv, PlaceTypes
      <4> QED BY <4>1, <4>3, <4>4 DEF IInv, ConnectedInv
    <3> QED BY <2>20, <3>1 DEF WorkerBegins, IInv, ConnectedInv
  <2>21. ASSUME WorkerClaims PROVE ConnectedInv'
    BY <2>21 DEF WorkerClaims, IInv, TypeInv, CountTypes, PlaceTypes,
       ConnectedInv, EpochInv, Stoppers
  <2>22. ASSUME WorkerStoresHandle PROVE ConnectedInv'
    BY <2>22 DEF WorkerStoresHandle, IInv, TypeInv, CountTypes, PlaceTypes,
       ConnectedInv, EpochInv, Stoppers
  <2>23. ASSUME WorkerOpens PROVE ConnectedInv'
    <3> QED
      BY <2>23
      DEF WorkerOpens, IInv, TypeInv, PlaceTypes, EpochInv, Fresh,
          ConnectedInv
  <2>24. ASSUME WorkerLeavesLoop PROVE ConnectedInv'
    BY <2>24 DEF WorkerLeavesLoop, IInv, TypeInv, CountTypes, PlaceTypes,
       ConnectedInv, EpochInv, Stoppers
  <2>25. ASSUME WorkerDrains PROVE ConnectedInv'
    BY <2>25 DEF WorkerDrains, IInv, TypeInv, CountTypes, PlaceTypes,
       ConnectedInv, EpochInv, Stoppers
  <2>26. ASSUME WorkerTakesOwn PROVE ConnectedInv'
    BY <2>26 DEF WorkerTakesOwn, IInv, TypeInv, CountTypes, PlaceTypes,
       ConnectedInv, EpochInv, Stoppers
  <2>27. ASSUME WorkerDrops PROVE ConnectedInv'
    BY <2>27 DEF WorkerDrops, IInv, TypeInv, CountTypes, PlaceTypes,
       ConnectedInv, EpochInv, Stoppers
  <2>28. ASSUME WorkerRecovers PROVE ConnectedInv'
    BY <2>28 DEF WorkerRecovers, IInv, TypeInv, CountTypes, PlaceTypes,
       ConnectedInv, EpochInv, Stoppers
  <2>29. ASSUME WorkerCallbackBegins PROVE ConnectedInv'
    BY <2>29 DEF WorkerCallbackBegins, IInv, TypeInv, CountTypes, PlaceTypes,
       ConnectedInv, EpochInv, Stoppers
  <2>30. ASSUME WorkerCallbackReturns PROVE ConnectedInv'
    BY <2>30 DEF WorkerCallbackReturns, IInv, TypeInv, CountTypes, PlaceTypes,
       ConnectedInv, EpochInv, Stoppers
  <2>31. ASSUME WorkerDiscards PROVE ConnectedInv'
    BY <2>31 DEF WorkerDiscards, IInv, TypeInv, CountTypes, PlaceTypes,
       ConnectedInv, EpochInv, Stoppers
  <2>32. ASSUME WorkerDecides PROVE ConnectedInv'
    BY <2>32 DEF WorkerDecides, IInv, TypeInv, CountTypes, PlaceTypes,
       ConnectedInv, EpochInv, Stoppers
  <2>33. ASSUME WorkerWakes PROVE ConnectedInv'
    BY <2>33 DEF WorkerWakes, IInv, TypeInv, CountTypes, PlaceTypes,
       ConnectedInv, EpochInv, Stoppers
  <2>34. ASSUME WorkerExits PROVE ConnectedInv'
    BY <2>34 DEF WorkerExits, IInv, TypeInv, CountTypes, PlaceTypes,
       ConnectedInv, EpochInv, Stoppers
  <2> QED
    BY <1>2, <2>1, <2>2, <2>3, <2>4, <2>5, <2>6, <2>7, <2>8, <2>9, <2>10,
       <2>11, <2>12, <2>13, <2>14, <2>15, <2>16, <2>17, <2>18, <2>19, <2>20,
       <2>21, <2>22, <2>23, <2>24, <2>25, <2>26, <2>27, <2>28, <2>29, <2>30,
       <2>31, <2>32, <2>33, <2>34 DEF Next, Connect, StopStep, Socket,
       Callback, Worker
<1> QED BY <1>1, <1>2

\* What disconnect() left behind stays as it is until the next connect().
LEMMA QuietStep == IInv /\ [Next]_<<vars, limits>> => QuietInv'
<1> SUFFICES ASSUME IInv, [Next]_<<vars, limits>> PROVE QuietInv'
  OBVIOUS
<1> USE DEF flags, fields, workerVars, stopVars, sockets, bounds, history,
   Goto, ConnectGoto, StopGoto
<1>1. CASE UNCHANGED <<vars, limits>>
  BY <1>1 DEF vars, IInv, TypeInv, CountTypes, PlaceTypes, QuietInv, RunInv,
     Destroyable, Stoppers, EpochInv
<1>2. CASE Next
  <2> limits' = limits /\ ~ crashed
    BY <1>2 DEF Next
  <2>1. ASSUME ConnectEntry \/ ConnectChecksWorker \/ ConnectRefused \/
               ConnectChecksRunning \/ ConnectRaises \/ ConnectClearsFlags \/
               ConnectBeginsEpoch \/ ConnectReturns \/ OwnerStops
        PROVE  QuietInv'
    <3>1. UNCHANGED <<quiet, worker, sock, cb>>
      BY <2>1 DEF ConnectEntry, ConnectChecksWorker, ConnectRefused,
         ConnectChecksRunning, ConnectRaises, ConnectClearsFlags,
         ConnectBeginsEpoch, ConnectReturns, OwnerStops, StopRaised
    <3> QED BY <3>1 DEF IInv, QuietInv, Destroyable
  <2>2. ASSUME NEW a \in Stoppers,
               StopFences(a) \/ StopExchanges(a) \/ StopLooks(a) \/
               StopExtracts(a)
        PROVE  QuietInv'
    <3>1. UNCHANGED <<quiet, worker, sock, cb>>
      BY <2>2 DEF StopFences, StopExchanges, StopLooks, StopExtracts
    <3> QED BY <3>1 DEF IInv, QuietInv, Destroyable
  <2>3. ASSUME ConnectJoins PROVE QuietInv'
    BY <2>3 DEF ConnectJoins, IInv, TypeInv, CountTypes, PlaceTypes, QuietInv,
       RunInv, Destroyable, Stoppers, EpochInv
  <2>4. ASSUME ConnectResets PROVE QuietInv'
    BY <2>4 DEF ConnectResets, IInv, TypeInv, CountTypes, PlaceTypes,
       QuietInv, RunInv, Destroyable, Stoppers, EpochInv
  <2>5. ASSUME ConnectSpawns PROVE QuietInv'
    BY <2>5 DEF ConnectSpawns, IInv, TypeInv, CountTypes, PlaceTypes,
       QuietInv, RunInv, Destroyable, Stoppers, EpochInv
  <2>6. ASSUME WorkerCallbackStops PROVE QuietInv'
    BY <2>6 DEF WorkerCallbackStops, StopRaised, IInv, TypeInv, CountTypes,
       PlaceTypes, QuietInv, RunInv, Destroyable, Stoppers, EpochInv
  <2>7. ASSUME NEW a \in Stoppers, StopJoins(a) PROVE QuietInv'
    BY <2>7 DEF StopJoins, IInv, TypeInv, CountTypes, PlaceTypes, QuietInv,
       RunInv, Destroyable, Stoppers, EpochInv
  <2>8. ASSUME NEW a \in Stoppers, StopDrops(a) PROVE QuietInv'
    <3>1. a = "owner" /\ worker = "none"
      BY <2>8 DEF StopDrops, IInv, StopInv, Stoppers
    <3> QED
      BY <2>8, <3>1
      DEF StopDrops, IInv, TypeInv, PlaceTypes, QuietInv, CustodyInv,
          Destroyable, Epochs
  <2>9. ASSUME NEW a \in Stoppers, StopReturns(a) PROVE QuietInv'
    BY <2>9 DEF StopReturns, Resume, IInv, TypeInv, CountTypes, PlaceTypes,
       QuietInv, RunInv, Destroyable, Stoppers, EpochInv
  <2>10. ASSUME NEW e \in Epochs, SocketOpens(e) PROVE QuietInv'
    BY <2>10 DEF SocketOpens, IInv, TypeInv, CountTypes, PlaceTypes, QuietInv,
       RunInv, Destroyable, Stoppers, EpochInv
  <2>11. ASSUME NEW e \in Epochs, SocketCloses(e) PROVE QuietInv'
    BY <2>11 DEF SocketCloses, IInv, TypeInv, CountTypes, PlaceTypes,
       QuietInv, RunInv, Destroyable, Stoppers, EpochInv
  <2>12. ASSUME NEW e \in Epochs, SocketFails(e) PROVE QuietInv'
    BY <2>12 DEF SocketFails, IInv, TypeInv, CountTypes, PlaceTypes, QuietInv,
       RunInv, Destroyable, Stoppers, EpochInv
  <2>13. ASSUME NEW e \in Epochs, AlertArrives(e) PROVE QuietInv'
    BY <2>13 DEF AlertArrives, IInv, TypeInv, CountTypes, PlaceTypes,
       QuietInv, RunInv, Destroyable, Stoppers, EpochInv
  <2>14. ASSUME NEW e \in Epochs, AlertCommits(e) PROVE QuietInv'
    BY <2>14 DEF AlertCommits, IInv, TypeInv, CountTypes, PlaceTypes,
       QuietInv, RunInv, Destroyable, Stoppers, EpochInv
  <2>15. ASSUME NEW e \in Epochs, CallbackBegins(e) PROVE QuietInv'
    BY <2>15 DEF CallbackBegins, IInv, TypeInv, CountTypes, PlaceTypes,
       QuietInv, RunInv, Destroyable, Stoppers, EpochInv
  <2>16. ASSUME NEW e \in Epochs, CallbackReturns(e) PROVE QuietInv'
    BY <2>16 DEF CallbackReturns, IInv, TypeInv, CountTypes, PlaceTypes,
       QuietInv, RunInv, Destroyable, Stoppers, EpochInv
  <2>17. ASSUME NEW e \in Epochs, CallbackStops(e) PROVE QuietInv'
    BY <2>17 DEF CallbackStops, StopRaised, IInv, TypeInv, CountTypes,
       PlaceTypes, QuietInv, RunInv, Destroyable, Stoppers, EpochInv
  <2>18. ASSUME WorkerTop PROVE QuietInv'
    BY <2>18 DEF WorkerTop, IInv, TypeInv, CountTypes, PlaceTypes, QuietInv,
       RunInv, Destroyable, Stoppers, EpochInv
  <2>19. ASSUME WorkerBegins PROVE QuietInv'
    BY <2>19 DEF WorkerBegins, IInv, TypeInv, CountTypes, PlaceTypes,
       QuietInv, RunInv, Destroyable, Stoppers, EpochInv
  <2>20. ASSUME WorkerClaims PROVE QuietInv'
    BY <2>20 DEF WorkerClaims, IInv, TypeInv, CountTypes, PlaceTypes,
       QuietInv, RunInv, Destroyable, Stoppers, EpochInv
  <2>21. ASSUME WorkerStoresHandle PROVE QuietInv'
    BY <2>21 DEF WorkerStoresHandle, IInv, TypeInv, CountTypes, PlaceTypes,
       QuietInv, RunInv, Destroyable, Stoppers, EpochInv
  <2>22. ASSUME WorkerOpens PROVE QuietInv'
    BY <2>22 DEF WorkerOpens, IInv, TypeInv, CountTypes, PlaceTypes, QuietInv,
       RunInv, Destroyable, Stoppers, EpochInv
  <2>23. ASSUME WorkerLeavesLoop PROVE QuietInv'
    BY <2>23 DEF WorkerLeavesLoop, IInv, TypeInv, CountTypes, PlaceTypes,
       QuietInv, RunInv, Destroyable, Stoppers, EpochInv
  <2>24. ASSUME WorkerDrains PROVE QuietInv'
    BY <2>24 DEF WorkerDrains, IInv, TypeInv, CountTypes, PlaceTypes,
       QuietInv, RunInv, Destroyable, Stoppers, EpochInv
  <2>25. ASSUME WorkerTakesOwn PROVE QuietInv'
    BY <2>25 DEF WorkerTakesOwn, IInv, TypeInv, CountTypes, PlaceTypes,
       QuietInv, RunInv, Destroyable, Stoppers, EpochInv
  <2>26. ASSUME WorkerDrops PROVE QuietInv'
    BY <2>26 DEF WorkerDrops, IInv, TypeInv, CountTypes, PlaceTypes, QuietInv,
       RunInv, Destroyable, Stoppers, EpochInv
  <2>27. ASSUME WorkerRecovers PROVE QuietInv'
    BY <2>27 DEF WorkerRecovers, IInv, TypeInv, CountTypes, PlaceTypes,
       QuietInv, RunInv, Destroyable, Stoppers, EpochInv
  <2>28. ASSUME WorkerCallbackBegins PROVE QuietInv'
    BY <2>28 DEF WorkerCallbackBegins, IInv, TypeInv, CountTypes, PlaceTypes,
       QuietInv, RunInv, Destroyable, Stoppers, EpochInv
  <2>29. ASSUME WorkerCallbackReturns PROVE QuietInv'
    BY <2>29 DEF WorkerCallbackReturns, IInv, TypeInv, CountTypes, PlaceTypes,
       QuietInv, RunInv, Destroyable, Stoppers, EpochInv
  <2>30. ASSUME WorkerDiscards PROVE QuietInv'
    BY <2>30 DEF WorkerDiscards, IInv, TypeInv, CountTypes, PlaceTypes,
       QuietInv, RunInv, Destroyable, Stoppers, EpochInv
  <2>31. ASSUME WorkerDecides PROVE QuietInv'
    BY <2>31 DEF WorkerDecides, IInv, TypeInv, CountTypes, PlaceTypes,
       QuietInv, RunInv, Destroyable, Stoppers, EpochInv
  <2>32. ASSUME WorkerWakes PROVE QuietInv'
    BY <2>32 DEF WorkerWakes, IInv, TypeInv, CountTypes, PlaceTypes, QuietInv,
       RunInv, Destroyable, Stoppers, EpochInv
  <2>33. ASSUME WorkerExits PROVE QuietInv'
    BY <2>33 DEF WorkerExits, IInv, TypeInv, CountTypes, PlaceTypes, QuietInv,
       RunInv, Destroyable, Stoppers, EpochInv
  <2> QED
    BY <1>2, <2>1, <2>2, <2>3, <2>4, <2>5, <2>6, <2>7, <2>8, <2>9, <2>10,
       <2>11, <2>12, <2>13, <2>14, <2>15, <2>16, <2>17, <2>18, <2>19, <2>20,
       <2>21, <2>22, <2>23, <2>24, <2>25, <2>26, <2>27, <2>28, <2>29, <2>30,
       <2>31, <2>32, <2>33 DEF Next, Connect, StopStep, Socket, Callback,
       Worker
<1> QED BY <1>1, <1>2

\* The budgets.
LEMMA BoundStep == IInv /\ BoundInv /\ [Next]_<<vars, limits>> => BoundInv'
<1> SUFFICES ASSUME IInv /\ BoundInv, [Next]_<<vars, limits>> PROVE BoundInv'
  OBVIOUS
<1> USE DEF flags, fields, workerVars, stopVars, sockets, bounds, history,
   Goto, ConnectGoto, StopGoto
<1>1. CASE UNCHANGED <<vars, limits>>
  BY <1>1 DEF vars, IInv, TypeInv, CountTypes, BoundInv, RunInv
<1>2. CASE Next
  <2> limits' = limits /\ ~ crashed
    BY <1>2 DEF Next
  <2>1. ASSUME WorkerTop \/ WorkerBegins \/ WorkerClaims \/ WorkerStoresHandle
               \/ WorkerLeavesLoop \/ WorkerDrains \/ WorkerTakesOwn \/
               WorkerDrops \/ WorkerRecovers \/ WorkerCallbackBegins \/
               WorkerCallbackReturns \/ WorkerDiscards \/ WorkerDecides \/
               WorkerWakes \/ WorkerExits
        PROVE  BoundInv'
    <3>1. UNCHANGED <<conn, connects, ownerStops, failures, callbackStops>>
      BY <2>1 DEF WorkerTop, WorkerBegins, WorkerClaims, WorkerStoresHandle,
         WorkerLeavesLoop, WorkerDrains, WorkerTakesOwn, WorkerDrops,
         WorkerRecovers, WorkerCallbackBegins, WorkerCallbackReturns,
         WorkerDiscards, WorkerDecides, WorkerWakes, WorkerExits
    <3> QED BY <3>1 DEF BoundInv
  <2>2. ASSUME NEW a \in Stoppers,
               StopFences(a) \/ StopExchanges(a) \/ StopLooks(a) \/
               StopExtracts(a) \/ StopJoins(a) \/ StopDrops(a) \/
               StopReturns(a)
        PROVE  BoundInv'
    <3>1. UNCHANGED <<conn, connects, ownerStops, failures, callbackStops>>
      BY <2>2 DEF StopFences, StopExchanges, StopLooks, StopExtracts,
         StopJoins, StopDrops, StopReturns, Resume
    <3> QED BY <3>1 DEF BoundInv
  <2>3. ASSUME NEW e \in Epochs,
               SocketOpens(e) \/ AlertArrives(e) \/ AlertCommits(e) \/
               CallbackBegins(e) \/ CallbackReturns(e)
        PROVE  BoundInv'
    <3>1. UNCHANGED <<conn, connects, ownerStops, failures, callbackStops>>
      BY <2>3 DEF SocketOpens, AlertArrives, AlertCommits, CallbackBegins,
         CallbackReturns
    <3> QED BY <3>1 DEF BoundInv
  <2>4. ASSUME ConnectEntry PROVE BoundInv'
    BY <2>4, CountsNatural DEF ConnectEntry, IInv, TypeInv, CountTypes,
       BoundInv, RunInv
  <2>5. ASSUME ConnectChecksWorker PROVE BoundInv'
    BY <2>5, CountsNatural DEF ConnectChecksWorker, IInv, TypeInv, CountTypes,
       BoundInv, RunInv
  <2>6. ASSUME ConnectRefused PROVE BoundInv'
    BY <2>6, CountsNatural DEF ConnectRefused, IInv, TypeInv, CountTypes,
       BoundInv, RunInv
  <2>7. ASSUME ConnectJoins PROVE BoundInv'
    BY <2>7, CountsNatural DEF ConnectJoins, IInv, TypeInv, CountTypes,
       BoundInv, RunInv
  <2>8. ASSUME ConnectChecksRunning PROVE BoundInv'
    BY <2>8, CountsNatural DEF ConnectChecksRunning, IInv, TypeInv,
       CountTypes, BoundInv, RunInv
  <2>9. ASSUME ConnectResets PROVE BoundInv'
    BY <2>9, CountsNatural DEF ConnectResets, IInv, TypeInv, CountTypes,
       BoundInv, RunInv
  <2>10. ASSUME ConnectRaises PROVE BoundInv'
    BY <2>10, CountsNatural DEF ConnectRaises, IInv, TypeInv, CountTypes,
       BoundInv, RunInv
  <2>11. ASSUME ConnectClearsFlags PROVE BoundInv'
    BY <2>11, CountsNatural DEF ConnectClearsFlags, IInv, TypeInv, CountTypes,
       BoundInv, RunInv
  <2>12. ASSUME ConnectBeginsEpoch PROVE BoundInv'
    BY <2>12, CountsNatural DEF ConnectBeginsEpoch, IInv, TypeInv, CountTypes,
       BoundInv, RunInv
  <2>13. ASSUME ConnectSpawns PROVE BoundInv'
    BY <2>13, CountsNatural DEF ConnectSpawns, IInv, TypeInv, CountTypes,
       BoundInv, RunInv
  <2>14. ASSUME ConnectReturns PROVE BoundInv'
    BY <2>14, CountsNatural DEF ConnectReturns, IInv, TypeInv, CountTypes,
       BoundInv, RunInv
  <2>15. ASSUME OwnerStops PROVE BoundInv'
    BY <2>15, CountsNatural DEF OwnerStops, StopRaised, IInv, TypeInv,
       CountTypes, BoundInv, RunInv
  <2>16. ASSUME WorkerCallbackStops PROVE BoundInv'
    BY <2>16, CountsNatural DEF WorkerCallbackStops, StopRaised, IInv,
       TypeInv, CountTypes, BoundInv, RunInv
  <2>17. ASSUME NEW e \in Epochs, SocketCloses(e) PROVE BoundInv'
    BY <2>17, CountsNatural DEF SocketCloses, IInv, TypeInv, CountTypes,
       BoundInv, RunInv
  <2>18. ASSUME NEW e \in Epochs, SocketFails(e) PROVE BoundInv'
    BY <2>18, CountsNatural DEF SocketFails, IInv, TypeInv, CountTypes,
       BoundInv, RunInv
  <2>19. ASSUME NEW e \in Epochs, CallbackStops(e) PROVE BoundInv'
    BY <2>19, CountsNatural DEF CallbackStops, StopRaised, IInv, TypeInv,
       CountTypes, BoundInv, RunInv
  <2>20. ASSUME WorkerOpens PROVE BoundInv'
    BY <2>20, CountsNatural DEF WorkerOpens, IInv, TypeInv, CountTypes,
       BoundInv, RunInv
  <2> QED
    BY <1>2, <2>1, <2>2, <2>3, <2>4, <2>5, <2>6, <2>7, <2>8, <2>9, <2>10,
       <2>11, <2>12, <2>13, <2>14, <2>15, <2>16, <2>17, <2>18, <2>19, <2>20
       DEF Next, Connect, StopStep, Socket, Callback, Worker
<1> QED BY <1>1, <1>2

\* Each epoch is paid by a call or a failure.
LEMMA CountStep2 == IInv /\ RetryInv /\ CountInv /\ [Next]_<<vars, limits>> => CountInv'
<1> SUFFICES ASSUME IInv /\ RetryInv /\ CountInv, [Next]_<<vars, limits>> PROVE CountInv'
  OBVIOUS
<1> USE DEF flags, fields, workerVars, stopVars, sockets, bounds, history,
   Goto, ConnectGoto, StopGoto
<1>1. CASE UNCHANGED <<vars, limits>>
  BY <1>1 DEF vars, IInv, TypeInv, CountTypes, PlaceTypes, RetryInv, CountInv,
     One, Due, LoopOver, Current, StopInv, RunInv, Stoppers, EpochInv,
     Attempting
<1>2. CASE Next
  <2> limits' = limits /\ ~ crashed
    BY <1>2 DEF Next
  <2>1. ASSUME NEW e \in Epochs,
               AlertArrives(e) \/ AlertCommits(e) \/ CallbackBegins(e) \/
               CallbackReturns(e)
        PROVE  CountInv'
    <3>1. UNCHANGED <<epoch, conn, stop, connects, ownerStops, callbackStops,
                      failures, worker, latest, shouldRun, needsReconnect,
                      sock>>
      BY <2>1 DEF AlertArrives, AlertCommits, CallbackBegins, CallbackReturns
    <3> QED BY <3>1 DEF CountInv, One, Due, Current
  <2>2. ASSUME ConnectEntry PROVE CountInv'
    BY <2>2 DEF ConnectEntry, IInv, TypeInv, CountTypes, PlaceTypes, RetryInv,
       CountInv, One, Due, LoopOver, Current, StopInv, RunInv, Stoppers,
       EpochInv, Attempting
  <2>3. ASSUME ConnectChecksWorker PROVE CountInv'
    BY <2>3 DEF ConnectChecksWorker, IInv, TypeInv, CountTypes, PlaceTypes,
       RetryInv, CountInv, One, Due, LoopOver, Current, StopInv, RunInv,
       Stoppers, EpochInv, Attempting
  <2>4. ASSUME ConnectRefused PROVE CountInv'
    BY <2>4 DEF ConnectRefused, IInv, TypeInv, CountTypes, PlaceTypes,
       RetryInv, CountInv, One, Due, LoopOver, Current, StopInv, RunInv,
       Stoppers, EpochInv, Attempting
  <2>5. ASSUME ConnectJoins PROVE CountInv'
    BY <2>5 DEF ConnectJoins, IInv, TypeInv, CountTypes, PlaceTypes, RetryInv,
       CountInv, One, Due, LoopOver, Current, StopInv, RunInv, Stoppers,
       EpochInv, Attempting
  <2>6. ASSUME ConnectChecksRunning PROVE CountInv'
    BY <2>6 DEF ConnectChecksRunning, IInv, TypeInv, CountTypes, PlaceTypes,
       RetryInv, CountInv, One, Due, LoopOver, Current, StopInv, RunInv,
       Stoppers, EpochInv, Attempting
  <2>7. ASSUME ConnectResets PROVE CountInv'
    BY <2>7 DEF ConnectResets, IInv, TypeInv, CountTypes, PlaceTypes,
       RetryInv, CountInv, One, Due, LoopOver, Current, StopInv, RunInv,
       Stoppers, EpochInv, Attempting
  <2>8. ASSUME ConnectRaises PROVE CountInv'
    BY <2>8 DEF ConnectRaises, IInv, TypeInv, CountTypes, PlaceTypes,
       RetryInv, CountInv, One, Due, LoopOver, Current, StopInv, RunInv,
       Stoppers, EpochInv, Attempting
  <2>9. ASSUME ConnectClearsFlags PROVE CountInv'
    BY <2>9 DEF ConnectClearsFlags, IInv, TypeInv, CountTypes, PlaceTypes,
       RetryInv, CountInv, One, Due, LoopOver, Current, StopInv, RunInv,
       Stoppers, EpochInv, Attempting
  <2>10. ASSUME ConnectBeginsEpoch PROVE CountInv'
    BY <2>10 DEF ConnectBeginsEpoch, IInv, TypeInv, CountTypes, PlaceTypes,
       RetryInv, CountInv, One, Due, LoopOver, Current, StopInv, RunInv,
       Stoppers, EpochInv, Attempting
  <2>11. ASSUME ConnectSpawns PROVE CountInv'
    BY <2>11 DEF ConnectSpawns, IInv, TypeInv, CountTypes, PlaceTypes,
       RetryInv, CountInv, One, Due, LoopOver, Current, StopInv, RunInv,
       Stoppers, EpochInv, Attempting
  <2>12. ASSUME ConnectReturns PROVE CountInv'
    BY <2>12 DEF ConnectReturns, IInv, TypeInv, CountTypes, PlaceTypes,
       RetryInv, CountInv, One, Due, LoopOver, Current, StopInv, RunInv,
       Stoppers, EpochInv, Attempting
  <2>13. ASSUME OwnerStops PROVE CountInv'
    BY <2>13 DEF OwnerStops, StopRaised, IInv, TypeInv, CountTypes,
       PlaceTypes, RetryInv, CountInv, One, Due, LoopOver, Current, StopInv,
       RunInv, Stoppers, EpochInv, Attempting
  <2>14. ASSUME WorkerCallbackStops PROVE CountInv'
    BY <2>14 DEF WorkerCallbackStops, StopRaised, IInv, TypeInv, CountTypes,
       PlaceTypes, RetryInv, CountInv, One, Due, LoopOver, Current, StopInv,
       RunInv, Stoppers, EpochInv, Attempting
  <2>15. ASSUME NEW a \in Stoppers, StopFences(a) PROVE CountInv'
    BY <2>15 DEF StopFences, IInv, TypeInv, CountTypes, PlaceTypes, RetryInv,
       CountInv, One, Due, LoopOver, Current, StopInv, RunInv, Stoppers,
       EpochInv, Attempting
  <2>16. ASSUME NEW a \in Stoppers, StopExchanges(a) PROVE CountInv'
    BY <2>16 DEF StopExchanges, IInv, TypeInv, CountTypes, PlaceTypes,
       RetryInv, CountInv, One, Due, LoopOver, Current, StopInv, RunInv,
       Stoppers, EpochInv, Attempting
  <2>17. ASSUME NEW a \in Stoppers, StopLooks(a) PROVE CountInv'
    BY <2>17 DEF StopLooks, IInv, TypeInv, CountTypes, PlaceTypes, RetryInv,
       CountInv, One, Due, LoopOver, Current, StopInv, RunInv, Stoppers,
       EpochInv, Attempting
  <2>18. ASSUME NEW a \in Stoppers, StopExtracts(a) PROVE CountInv'
    BY <2>18 DEF StopExtracts, IInv, TypeInv, CountTypes, PlaceTypes,
       RetryInv, CountInv, One, Due, LoopOver, Current, StopInv, RunInv,
       Stoppers, EpochInv, Attempting
  <2>19. ASSUME NEW a \in Stoppers, StopJoins(a) PROVE CountInv'
    BY <2>19 DEF StopJoins, IInv, TypeInv, CountTypes, PlaceTypes, RetryInv,
       CountInv, One, Due, LoopOver, Current, StopInv, RunInv, Stoppers,
       EpochInv, Attempting
  <2>20. ASSUME NEW a \in Stoppers, StopDrops(a) PROVE CountInv'
    BY <2>20 DEF StopDrops, IInv, TypeInv, CountTypes, PlaceTypes, RetryInv,
       CountInv, One, Due, LoopOver, Current, StopInv, RunInv, Stoppers,
       EpochInv, Attempting
  <2>21. ASSUME NEW a \in Stoppers, StopReturns(a) PROVE CountInv'
    BY <2>21 DEF StopReturns, Resume, IInv, TypeInv, CountTypes, PlaceTypes,
       RetryInv, CountInv, One, Due, LoopOver, Current, StopInv, RunInv,
       Stoppers, EpochInv, Attempting
  <2>22. ASSUME NEW e \in Epochs, SocketOpens(e) PROVE CountInv'
    BY <2>22 DEF SocketOpens, IInv, TypeInv, CountTypes, PlaceTypes, RetryInv,
       CountInv, One, Due, LoopOver, Current, StopInv, RunInv, Stoppers,
       EpochInv, Attempting
  <2>23. ASSUME NEW e \in Epochs, SocketCloses(e) PROVE CountInv'
    <3>1. Admitted(e) => took["owner"] # e /\ took["callback"] # e
      BY <2>23
      DEF SocketCloses, Admitted, IInv, EndedInv, StopInv, Ended, Past,
          Stoppers, Current
    <3>2. CASE Admitted(e)
      <4>1. needsReconnect' = TRUE /\ failures \in Nat
            /\ failures' = (IF sock[e] = "failing" \/ Closing(e) THEN failures ELSE failures + 1)
        BY <2>23, <3>2 DEF SocketCloses, IInv, TypeInv, CountTypes
      <4>2. Due' => Due \/ failures' = failures + 1
        BY <2>23, <3>1, <3>2, <4>1
        DEF SocketCloses, Admitted, Closing, Due, Current, Stoppers, IInv,
            EpochInv,
           Attempting, TypeInv, PlaceTypes
      <4> QED
        BY <2>23, <4>1, <4>2
        DEF SocketCloses, CountInv, One, IInv, TypeInv, CountTypes
    <3>3. CASE ~ Admitted(e)
      <4>1. Due' <=> Due
        BY <2>23, <3>3
        DEF SocketCloses, Admitted, Due, Current, IInv, TypeInv, PlaceTypes,
            CountTypes
      <4>2. failures' = failures \/ failures' = failures + 1
        BY <2>23 DEF SocketCloses
      <4> QED
        BY <2>23, <4>1, <4>2
        DEF SocketCloses, CountInv, One, IInv, TypeInv, CountTypes
    <3> QED BY <3>2, <3>3
  <2>24. ASSUME NEW e \in Epochs, SocketFails(e) PROVE CountInv'
    BY <2>24 DEF SocketFails, IInv, TypeInv, CountTypes, PlaceTypes, RetryInv,
       CountInv, One, Due, LoopOver, Current, StopInv, RunInv, Stoppers,
       EpochInv, Attempting
  <2>25. ASSUME NEW e \in Epochs, CallbackStops(e) PROVE CountInv'
    BY <2>25 DEF CallbackStops, StopRaised, IInv, TypeInv, CountTypes,
       PlaceTypes, RetryInv, CountInv, One, Due, LoopOver, Current, StopInv,
       RunInv, Stoppers, EpochInv, Attempting
  <2>26. ASSUME WorkerTop PROVE CountInv'
    BY <2>26 DEF WorkerTop, IInv, TypeInv, CountTypes, PlaceTypes, RetryInv,
       CountInv, One, Due, LoopOver, Current, StopInv, RunInv, Stoppers,
       EpochInv, Attempting
  <2>27. ASSUME WorkerBegins PROVE CountInv'
    BY <2>27 DEF WorkerBegins, IInv, TypeInv, CountTypes, PlaceTypes,
       RetryInv, CountInv, One, Due, LoopOver, Current, StopInv, RunInv,
       Stoppers, EpochInv, Attempting
  <2>28. ASSUME WorkerClaims PROVE CountInv'
    BY <2>28 DEF WorkerClaims, IInv, TypeInv, CountTypes, PlaceTypes,
       RetryInv, CountInv, One, Due, LoopOver, Current, StopInv, RunInv,
       Stoppers, EpochInv, Attempting
  <2>29. ASSUME WorkerStoresHandle PROVE CountInv'
    BY <2>29 DEF WorkerStoresHandle, IInv, TypeInv, CountTypes, PlaceTypes,
       RetryInv, CountInv, One, Due, LoopOver, Current, StopInv, RunInv,
       Stoppers, EpochInv, Attempting
  <2>30. ASSUME WorkerOpens PROVE CountInv'
    BY <2>30 DEF WorkerOpens, IInv, TypeInv, CountTypes, PlaceTypes, RetryInv,
       CountInv, One, Due, LoopOver, Current, StopInv, RunInv, Stoppers,
       EpochInv, Attempting
  <2>31. ASSUME WorkerLeavesLoop PROVE CountInv'
    BY <2>31 DEF WorkerLeavesLoop, IInv, TypeInv, CountTypes, PlaceTypes,
       RetryInv, CountInv, One, Due, LoopOver, Current, StopInv, RunInv,
       Stoppers, EpochInv, Attempting
  <2>32. ASSUME WorkerDrains PROVE CountInv'
    BY <2>32 DEF WorkerDrains, IInv, TypeInv, CountTypes, PlaceTypes,
       RetryInv, CountInv, One, Due, LoopOver, Current, StopInv, RunInv,
       Stoppers, EpochInv, Attempting
  <2>33. ASSUME WorkerTakesOwn PROVE CountInv'
    BY <2>33 DEF WorkerTakesOwn, IInv, TypeInv, CountTypes, PlaceTypes,
       RetryInv, CountInv, One, Due, LoopOver, Current, StopInv, RunInv,
       Stoppers, EpochInv, Attempting
  <2>34. ASSUME WorkerDrops PROVE CountInv'
    BY <2>34 DEF WorkerDrops, IInv, TypeInv, CountTypes, PlaceTypes, RetryInv,
       CountInv, One, Due, LoopOver, Current, StopInv, RunInv, Stoppers,
       EpochInv, Attempting
  <2>35. ASSUME WorkerRecovers PROVE CountInv'
    BY <2>35 DEF WorkerRecovers, IInv, TypeInv, CountTypes, PlaceTypes,
       RetryInv, CountInv, One, Due, LoopOver, Current, StopInv, RunInv,
       Stoppers, EpochInv, Attempting
  <2>36. ASSUME WorkerCallbackBegins PROVE CountInv'
    BY <2>36 DEF WorkerCallbackBegins, IInv, TypeInv, CountTypes, PlaceTypes,
       RetryInv, CountInv, One, Due, LoopOver, Current, StopInv, RunInv,
       Stoppers, EpochInv, Attempting
  <2>37. ASSUME WorkerCallbackReturns PROVE CountInv'
    BY <2>37 DEF WorkerCallbackReturns, IInv, TypeInv, CountTypes, PlaceTypes,
       RetryInv, CountInv, One, Due, LoopOver, Current, StopInv, RunInv,
       Stoppers, EpochInv, Attempting
  <2>38. ASSUME WorkerDiscards PROVE CountInv'
    BY <2>38 DEF WorkerDiscards, IInv, TypeInv, CountTypes, PlaceTypes,
       RetryInv, CountInv, One, Due, LoopOver, Current, StopInv, RunInv,
       Stoppers, EpochInv, Attempting
  <2>39. ASSUME WorkerDecides PROVE CountInv'
    BY <2>39 DEF WorkerDecides, IInv, TypeInv, CountTypes, PlaceTypes,
       RetryInv, CountInv, One, Due, LoopOver, Current, StopInv, RunInv,
       Stoppers, EpochInv, Attempting
  <2>40. ASSUME WorkerWakes PROVE CountInv'
    BY <2>40 DEF WorkerWakes, IInv, TypeInv, CountTypes, PlaceTypes, RetryInv,
       CountInv, One, Due, LoopOver, Current, StopInv, RunInv, Stoppers,
       EpochInv, Attempting
  <2>41. ASSUME WorkerExits PROVE CountInv'
    BY <2>41 DEF WorkerExits, IInv, TypeInv, CountTypes, PlaceTypes, RetryInv,
       CountInv, One, Due, LoopOver, Current, StopInv, RunInv, Stoppers,
       EpochInv, Attempting
  <2> QED
    BY <1>2, <2>1, <2>2, <2>3, <2>4, <2>5, <2>6, <2>7, <2>8, <2>9, <2>10,
       <2>11, <2>12, <2>13, <2>14, <2>15, <2>16, <2>17, <2>18, <2>19, <2>20,
       <2>21, <2>22, <2>23, <2>24, <2>25, <2>26, <2>27, <2>28, <2>29, <2>30,
       <2>31, <2>32, <2>33, <2>34, <2>35, <2>36, <2>37, <2>38, <2>39, <2>40,
       <2>41 DEF Next, Connect, StopStep, Socket, Callback, Worker
<1> QED BY <1>1, <1>2

\* An attempt is over because its connection was lost.
LEMMA RetryStep == IInv /\ RetryInv /\ [Next]_<<vars, limits>> => RetryInv'
<1> SUFFICES ASSUME IInv /\ RetryInv, [Next]_<<vars, limits>> PROVE RetryInv'
  OBVIOUS
<1> USE DEF flags, fields, workerVars, stopVars, sockets, bounds, history,
   Goto, ConnectGoto, StopGoto
<1>1. CASE UNCHANGED <<vars, limits>>
  BY <1>1 DEF vars, IInv, TypeInv, CountTypes, PlaceTypes, RetryInv, LoopOver,
     Stoppers, EpochInv, Fresh, RunInv, Current, Admitted
<1>2. CASE Next
  <2> limits' = limits /\ ~ crashed
    BY <1>2 DEF Next
  <2>1. ASSUME ConnectEntry \/ ConnectChecksWorker \/ ConnectRefused \/
               ConnectChecksRunning \/ ConnectResets \/ ConnectReturns
        PROVE  RetryInv'
    <3>1. UNCHANGED <<worker, epoch, mine, needsReconnect, shouldRun>>
      BY <2>1 DEF ConnectEntry, ConnectChecksWorker, ConnectRefused,
         ConnectChecksRunning, ConnectResets, ConnectReturns
    <3> QED BY <3>1 DEF RetryInv, Current
  <2>2. ASSUME NEW a \in Stoppers,
               StopExchanges(a) \/ StopLooks(a) \/ StopExtracts(a) \/
               StopDrops(a)
        PROVE  RetryInv'
    <3>1. UNCHANGED <<worker, epoch, mine, needsReconnect, shouldRun>>
      BY <2>2 DEF StopExchanges, StopLooks, StopExtracts, StopDrops
    <3> QED BY <3>1 DEF RetryInv, Current
  <2>3. ASSUME NEW e \in Epochs,
               SocketOpens(e) \/ AlertArrives(e) \/ AlertCommits(e) \/
               CallbackBegins(e) \/ CallbackReturns(e)
        PROVE  RetryInv'
    <3>1. UNCHANGED <<worker, epoch, mine, needsReconnect, shouldRun>>
      BY <2>3 DEF SocketOpens, AlertArrives, AlertCommits, CallbackBegins,
         CallbackReturns
    <3> QED BY <3>1 DEF RetryInv, Current
  <2>4. ASSUME ConnectJoins PROVE RetryInv'
    BY <2>4 DEF ConnectJoins, IInv, TypeInv, CountTypes, PlaceTypes, RetryInv,
       LoopOver, Stoppers, EpochInv, Fresh, RunInv, Current, Admitted
  <2>5. ASSUME ConnectRaises PROVE RetryInv'
    BY <2>5 DEF ConnectRaises, IInv, TypeInv, CountTypes, PlaceTypes,
       RetryInv, LoopOver, Stoppers, EpochInv, Fresh, RunInv, Current,
       Admitted
  <2>6. ASSUME ConnectClearsFlags PROVE RetryInv'
    BY <2>6 DEF ConnectClearsFlags, IInv, TypeInv, CountTypes, PlaceTypes,
       RetryInv, LoopOver, Stoppers, EpochInv, Fresh, RunInv, Current,
       Admitted
  <2>7. ASSUME ConnectBeginsEpoch PROVE RetryInv'
    BY <2>7 DEF ConnectBeginsEpoch, IInv, TypeInv, CountTypes, PlaceTypes,
       RetryInv, LoopOver, Stoppers, EpochInv, Fresh, RunInv, Current,
       Admitted
  <2>8. ASSUME ConnectSpawns PROVE RetryInv'
    BY <2>8 DEF ConnectSpawns, IInv, TypeInv, CountTypes, PlaceTypes,
       RetryInv, LoopOver, Stoppers, EpochInv, Fresh, RunInv, Current,
       Admitted
  <2>9. ASSUME OwnerStops PROVE RetryInv'
    BY <2>9 DEF OwnerStops, StopRaised, IInv, TypeInv, CountTypes, PlaceTypes,
       RetryInv, LoopOver, Stoppers, EpochInv, Fresh, RunInv, Current,
       Admitted
  <2>10. ASSUME WorkerCallbackStops PROVE RetryInv'
    BY <2>10 DEF WorkerCallbackStops, StopRaised, IInv, TypeInv, CountTypes,
       PlaceTypes, RetryInv, LoopOver, Stoppers, EpochInv, Fresh, RunInv,
       Current, Admitted
  <2>11. ASSUME NEW a \in Stoppers, StopFences(a) PROVE RetryInv'
    BY <2>11 DEF StopFences, IInv, TypeInv, CountTypes, PlaceTypes, RetryInv,
       LoopOver, Stoppers, EpochInv, Fresh, RunInv, Current, Admitted
  <2>12. ASSUME NEW a \in Stoppers, StopJoins(a) PROVE RetryInv'
    BY <2>12 DEF StopJoins, IInv, TypeInv, CountTypes, PlaceTypes, RetryInv,
       LoopOver, Stoppers, EpochInv, Fresh, RunInv, Current, Admitted
  <2>13. ASSUME NEW a \in Stoppers, StopReturns(a) PROVE RetryInv'
    BY <2>13 DEF StopReturns, Resume, IInv, TypeInv, CountTypes, PlaceTypes,
       RetryInv, LoopOver, Stoppers, EpochInv, Fresh, RunInv, Current,
       Admitted
  <2>14. ASSUME NEW e \in Epochs, SocketCloses(e) PROVE RetryInv'
    BY <2>14 DEF SocketCloses, IInv, TypeInv, CountTypes, PlaceTypes,
       RetryInv, LoopOver, Stoppers, EpochInv, Fresh, RunInv, Current,
       Admitted
  <2>15. ASSUME NEW e \in Epochs, SocketFails(e) PROVE RetryInv'
    BY <2>15 DEF SocketFails, IInv, TypeInv, CountTypes, PlaceTypes, RetryInv,
       LoopOver, Stoppers, EpochInv, Fresh, RunInv, Current, Admitted
  <2>16. ASSUME NEW e \in Epochs, CallbackStops(e) PROVE RetryInv'
    BY <2>16 DEF CallbackStops, StopRaised, IInv, TypeInv, CountTypes,
       PlaceTypes, RetryInv, LoopOver, Stoppers, EpochInv, Fresh, RunInv,
       Current, Admitted
  <2>17. ASSUME WorkerTop PROVE RetryInv'
    BY <2>17 DEF WorkerTop, IInv, TypeInv, CountTypes, PlaceTypes, RetryInv,
       LoopOver, Stoppers, EpochInv, Fresh, RunInv, Current, Admitted
  <2>18. ASSUME WorkerBegins PROVE RetryInv'
    BY <2>18 DEF WorkerBegins, IInv, TypeInv, CountTypes, PlaceTypes,
       RetryInv, LoopOver, Stoppers, EpochInv, Fresh, RunInv, Current,
       Admitted
  <2>19. ASSUME WorkerClaims PROVE RetryInv'
    BY <2>19 DEF WorkerClaims, IInv, TypeInv, CountTypes, PlaceTypes,
       RetryInv, LoopOver, Stoppers, EpochInv, Fresh, RunInv, Current,
       Admitted
  <2>20. ASSUME WorkerStoresHandle PROVE RetryInv'
    BY <2>20 DEF WorkerStoresHandle, IInv, TypeInv, CountTypes, PlaceTypes,
       RetryInv, LoopOver, Stoppers, EpochInv, Fresh, RunInv, Current,
       Admitted
  <2>21. ASSUME WorkerOpens PROVE RetryInv'
    BY <2>21 DEF WorkerOpens, IInv, TypeInv, CountTypes, PlaceTypes, RetryInv,
       LoopOver, Stoppers, EpochInv, Fresh, RunInv, Current, Admitted
  <2>22. ASSUME WorkerLeavesLoop PROVE RetryInv'
    BY <2>22 DEF WorkerLeavesLoop, IInv, TypeInv, CountTypes, PlaceTypes,
       RetryInv, LoopOver, Stoppers, EpochInv, Fresh, RunInv, Current,
       Admitted
  <2>23. ASSUME WorkerDrains PROVE RetryInv'
    BY <2>23 DEF WorkerDrains, IInv, TypeInv, CountTypes, PlaceTypes,
       RetryInv, LoopOver, Stoppers, EpochInv, Fresh, RunInv, Current,
       Admitted
  <2>24. ASSUME WorkerTakesOwn PROVE RetryInv'
    BY <2>24 DEF WorkerTakesOwn, IInv, TypeInv, CountTypes, PlaceTypes,
       RetryInv, LoopOver, Stoppers, EpochInv, Fresh, RunInv, Current,
       Admitted
  <2>25. ASSUME WorkerDrops PROVE RetryInv'
    BY <2>25 DEF WorkerDrops, IInv, TypeInv, CountTypes, PlaceTypes, RetryInv,
       LoopOver, Stoppers, EpochInv, Fresh, RunInv, Current, Admitted
  <2>26. ASSUME WorkerRecovers PROVE RetryInv'
    BY <2>26 DEF WorkerRecovers, IInv, TypeInv, CountTypes, PlaceTypes,
       RetryInv, LoopOver, Stoppers, EpochInv, Fresh, RunInv, Current,
       Admitted
  <2>27. ASSUME WorkerCallbackBegins PROVE RetryInv'
    BY <2>27 DEF WorkerCallbackBegins, IInv, TypeInv, CountTypes, PlaceTypes,
       RetryInv, LoopOver, Stoppers, EpochInv, Fresh, RunInv, Current,
       Admitted
  <2>28. ASSUME WorkerCallbackReturns PROVE RetryInv'
    BY <2>28 DEF WorkerCallbackReturns, IInv, TypeInv, CountTypes, PlaceTypes,
       RetryInv, LoopOver, Stoppers, EpochInv, Fresh, RunInv, Current,
       Admitted
  <2>29. ASSUME WorkerDiscards PROVE RetryInv'
    BY <2>29 DEF WorkerDiscards, IInv, TypeInv, CountTypes, PlaceTypes,
       RetryInv, LoopOver, Stoppers, EpochInv, Fresh, RunInv, Current,
       Admitted
  <2>30. ASSUME WorkerDecides PROVE RetryInv'
    BY <2>30 DEF WorkerDecides, IInv, TypeInv, CountTypes, PlaceTypes,
       RetryInv, LoopOver, Stoppers, EpochInv, Fresh, RunInv, Current,
       Admitted
  <2>31. ASSUME WorkerWakes PROVE RetryInv'
    BY <2>31 DEF WorkerWakes, IInv, TypeInv, CountTypes, PlaceTypes, RetryInv,
       LoopOver, Stoppers, EpochInv, Fresh, RunInv, Current, Admitted
  <2>32. ASSUME WorkerExits PROVE RetryInv'
    BY <2>32 DEF WorkerExits, IInv, TypeInv, CountTypes, PlaceTypes, RetryInv,
       LoopOver, Stoppers, EpochInv, Fresh, RunInv, Current, Admitted
  <2> QED
    BY <1>2, <2>1, <2>2, <2>3, <2>4, <2>5, <2>6, <2>7, <2>8, <2>9, <2>10,
       <2>11, <2>12, <2>13, <2>14, <2>15, <2>16, <2>17, <2>18, <2>19, <2>20,
       <2>21, <2>22, <2>23, <2>24, <2>25, <2>26, <2>27, <2>28, <2>29, <2>30,
       <2>31, <2>32 DEF Next, Connect, StopStep, Socket, Callback, Worker
<1> QED BY <1>1, <1>2

-----------------------------------------------------------------------------
(* Reports. *)

\* Only finitely many epochs have a socket.
LEMMA ReportsFinite ==
  ASSUME TypeInv
  PROVE  /\ IsFiniteSet(Owed) /\ IsFiniteSet(opened)
         /\ Cardinality(Owed) \in Nat /\ Cardinality(opened) \in Nat
<1>1. IsFiniteSet(Epochs)
  BY FS_Interval, CountsNatural DEF Epochs
<1>2. Owed \subseteq Epochs /\ opened \subseteq Epochs
  BY DEF Owed, TypeInv, PlaceTypes
<1> QED BY <1>1, <1>2, FS_Subset, FS_CardinalityType

\* A step that makes a report pays it with the mark that none was made.
LEMMA ReportKept ==
  ASSUME TypeInv, ReportInv, Owed' \subseteq Owed, opened' = opened,
         reports' \in Nat,
         reports' + One(~ notified)' <= reports + One(~ notified)
  PROVE  ReportInv'
<1>1. Cardinality(Owed') \in Nat /\ Cardinality(Owed') <= Cardinality(Owed)
  BY ReportsFinite, FS_Subset, FS_CardinalityType
<1>2. One(~ notified) \in Nat /\ One(~ notified)' \in Nat
  BY DEF One
<1> QED BY <1>1, <1>2, ReportsFinite DEF ReportInv, TypeInv, CountTypes

\* Each report is paid by a connection that opened.
LEMMA ReportStep == TypeInv /\ EpochInv /\ ReportInv /\ [Next]_<<vars, limits>> => ReportInv'
<1> SUFFICES ASSUME TypeInv /\ EpochInv /\ ReportInv, [Next]_<<vars, limits>> PROVE ReportInv'
  OBVIOUS
<1> USE DEF flags, fields, workerVars, stopVars, sockets, bounds, history,
   Goto, ConnectGoto, StopGoto
<1>1. CASE UNCHANGED <<vars, limits>>
  BY <1>1 DEF vars, Owed, ReportInv, One
<1>2. CASE Next
  <2> limits' = limits /\ ~ crashed
    BY <1>2 DEF Next
  <2>1. ASSUME ConnectEntry \/ ConnectChecksWorker \/ ConnectRefused \/
               ConnectJoins \/ ConnectChecksRunning \/ ConnectResets \/
               ConnectRaises \/ ConnectBeginsEpoch \/ ConnectSpawns \/
               ConnectReturns \/ OwnerStops \/ WorkerCallbackStops \/ WorkerTop
               \/ WorkerBegins \/ WorkerClaims \/ WorkerStoresHandle \/
               WorkerOpens \/ WorkerLeavesLoop \/ WorkerDrains \/
               WorkerTakesOwn \/ WorkerDrops \/ WorkerRecovers \/
               WorkerCallbackBegins \/ WorkerCallbackReturns \/ WorkerDiscards
               \/ WorkerDecides \/ WorkerWakes \/ WorkerExits
        PROVE  ReportInv'
    <3>1. UNCHANGED <<cb, opened, reports, notified>>
      BY <2>1 DEF ConnectEntry, ConnectChecksWorker, ConnectRefused,
         ConnectJoins, ConnectChecksRunning, ConnectResets, ConnectRaises,
         ConnectBeginsEpoch, ConnectSpawns, ConnectReturns, OwnerStops,
         StopRaised, WorkerCallbackStops, StopRaised, WorkerTop, WorkerBegins,
         WorkerClaims, WorkerStoresHandle, WorkerOpens, WorkerLeavesLoop,
         WorkerDrains, WorkerTakesOwn, WorkerDrops, WorkerRecovers,
         WorkerCallbackBegins, WorkerCallbackReturns, WorkerDiscards,
         WorkerDecides, WorkerWakes, WorkerExits
    <3> QED BY <3>1, ReportKept DEF Owed, One, TypeInv, CountTypes
  <2>2. ASSUME ConnectClearsFlags PROVE ReportInv'
    <3>1. Owed' = Owed
      BY <2>2 DEF ConnectClearsFlags, Owed, TypeInv, PlaceTypes
    <3>2. reports' = reports /\ notified' = TRUE /\ opened' = opened
      BY <2>2 DEF ConnectClearsFlags
    <3> QED BY <3>1, <3>2, ReportKept DEF One, TypeInv, CountTypes
  <2>3. ASSUME NEW a \in Stoppers, StopFences(a) PROVE ReportInv'
    <3>1. Owed' = Owed
      BY <2>3 DEF StopFences, Owed, TypeInv, PlaceTypes
    <3>2. reports' = reports /\ notified' = notified /\ opened' = opened
      BY <2>3 DEF StopFences
    <3> QED BY <3>1, <3>2, ReportKept DEF One, TypeInv, CountTypes
  <2>4. ASSUME NEW a \in Stoppers, StopExchanges(a) PROVE ReportInv'
    <3>1. Owed' = Owed
      BY <2>4 DEF StopExchanges, Owed, TypeInv, PlaceTypes
    <3>2. reports' = reports /\ notified' = notified /\ opened' = opened
      BY <2>4 DEF StopExchanges
    <3> QED BY <3>1, <3>2, ReportKept DEF One, TypeInv, CountTypes
  <2>5. ASSUME NEW a \in Stoppers, StopLooks(a) PROVE ReportInv'
    <3>1. Owed' = Owed
      BY <2>5 DEF StopLooks, Owed, TypeInv, PlaceTypes
    <3>2. reports' = reports /\ notified' = notified /\ opened' = opened
      BY <2>5 DEF StopLooks
    <3> QED BY <3>1, <3>2, ReportKept DEF One, TypeInv, CountTypes
  <2>6. ASSUME NEW a \in Stoppers, StopExtracts(a) PROVE ReportInv'
    <3>1. Owed' = Owed
      BY <2>6 DEF StopExtracts, Owed, TypeInv, PlaceTypes
    <3>2. reports' = reports /\ notified' = notified /\ opened' = opened
      BY <2>6 DEF StopExtracts
    <3> QED BY <3>1, <3>2, ReportKept DEF One, TypeInv, CountTypes
  <2>7. ASSUME NEW a \in Stoppers, StopJoins(a) PROVE ReportInv'
    <3>1. Owed' = Owed
      BY <2>7 DEF StopJoins, Owed, TypeInv, PlaceTypes
    <3>2. reports' = reports /\ notified' = notified /\ opened' = opened
      BY <2>7 DEF StopJoins
    <3> QED BY <3>1, <3>2, ReportKept DEF One, TypeInv, CountTypes
  <2>8. ASSUME NEW a \in Stoppers, StopDrops(a) PROVE ReportInv'
    <3>1. Owed' = Owed
      BY <2>8 DEF StopDrops, Owed, TypeInv, PlaceTypes
    <3>2. reports' = reports /\ notified' = notified /\ opened' = opened
      BY <2>8 DEF StopDrops
    <3> QED BY <3>1, <3>2, ReportKept DEF One, TypeInv, CountTypes
  <2>9. ASSUME NEW a \in Stoppers, StopReturns(a) PROVE ReportInv'
    <3>1. Owed' = Owed
      BY <2>9 DEF StopReturns, Resume, Owed, TypeInv, PlaceTypes
    <3>2. /\ opened' = opened /\ reports' \in Nat
          /\ reports' + One(~ notified)' <= reports + One(~ notified)
      BY <2>9
      DEF StopReturns, Notifies, One, TypeInv, FlagTypes, CountTypes,
          PlaceTypes
    <3> QED BY <3>1, <3>2, ReportKept DEF One, TypeInv, CountTypes
  <2>10. ASSUME NEW e \in Epochs, SocketOpens(e) PROVE ReportInv'
    <3>1. Owed' = Owed /\ reports' = reports
      BY <2>10 DEF SocketOpens, Owed, TypeInv, PlaceTypes
    <3>2. CASE Admitted(e)
      <4>1. e \notin opened /\ opened' = opened \cup {e} /\ notified' = FALSE
        BY <2>10, <3>2 DEF SocketOpens, EpochInv
      <4>2. Cardinality(opened') = Cardinality(opened) + 1
        BY <4>1, ReportsFinite, FS_AddElement
      <4> QED
        BY <3>1, <4>1, <4>2, ReportsFinite
        DEF ReportInv, One, TypeInv, CountTypes
    <3>3. CASE ~ Admitted(e)
      BY <2>10, <3>1, <3>3, ReportKept
      DEF SocketOpens, One, TypeInv, CountTypes
    <3> QED BY <3>2, <3>3
  <2>11. ASSUME NEW e \in Epochs, SocketCloses(e) PROVE ReportInv'
    <3>1. CASE Admitted(e) /\ e \in opened /\ connected /\ ~ notified
      <4>1. /\ e \notin Owed /\ Owed' = Owed \cup {e}
            /\ reports' = reports /\ notified' = TRUE /\ opened' = opened
        BY <2>11, <3>1 DEF SocketCloses, Owed, TypeInv, PlaceTypes
      <4>2. Cardinality(Owed') = Cardinality(Owed) + 1
        BY <4>1, ReportsFinite, FS_AddElement
      <4> QED
        BY <3>1, <4>1, <4>2, ReportsFinite
        DEF ReportInv, One, TypeInv, CountTypes
    <3>2. CASE ~ (Admitted(e) /\ e \in opened /\ connected /\ ~ notified)
      <4>1. Owed' = Owed
        BY <2>11, <3>2 DEF SocketCloses, Owed, TypeInv, PlaceTypes
      <4>2. reports' = reports /\ opened' = opened /\ (notified => notified')
        BY <2>11 DEF SocketCloses
      <4> QED
        BY <4>1, <4>2, ReportKept DEF One, TypeInv, CountTypes, FlagTypes
    <3> QED BY <3>1, <3>2
  <2>12. ASSUME NEW e \in Epochs, SocketFails(e) PROVE ReportInv'
    <3>1. Owed' = Owed
      BY <2>12 DEF SocketFails, Owed, TypeInv, PlaceTypes
    <3>2. reports' = reports /\ notified' = notified /\ opened' = opened
      BY <2>12 DEF SocketFails
    <3> QED BY <3>1, <3>2, ReportKept DEF One, TypeInv, CountTypes
  <2>13. ASSUME NEW e \in Epochs, AlertArrives(e) PROVE ReportInv'
    <3>1. Owed' = Owed
      BY <2>13 DEF AlertArrives, Owed, TypeInv, PlaceTypes
    <3>2. reports' = reports /\ notified' = notified /\ opened' = opened
      BY <2>13 DEF AlertArrives
    <3> QED BY <3>1, <3>2, ReportKept DEF One, TypeInv, CountTypes
  <2>14. ASSUME NEW e \in Epochs, AlertCommits(e) PROVE ReportInv'
    <3>1. Owed' = Owed
      BY <2>14 DEF AlertCommits, Owed, TypeInv, PlaceTypes
    <3>2. reports' = reports /\ notified' = notified /\ opened' = opened
      BY <2>14 DEF AlertCommits
    <3> QED BY <3>1, <3>2, ReportKept DEF One, TypeInv, CountTypes
  <2>15. ASSUME NEW e \in Epochs, CallbackBegins(e) PROVE ReportInv'
    <3>1. CASE cb[e] = "callDisconnected"
      <4>1. /\ e \in Owed /\ Owed' = Owed \ {e} /\ notified' = notified /\ opened' = opened
            /\ reports' \in Nat /\ reports' <= reports + 1
        BY <2>15, <3>1
        DEF CallbackBegins, Owed, TypeInv, PlaceTypes, CountTypes
      <4>2. Cardinality(Owed') = Cardinality(Owed) - 1
        BY <4>1, ReportsFinite, FS_RemoveElement
      <4> QED
        BY <4>1, <4>2, ReportsFinite DEF ReportInv, One, TypeInv, CountTypes
    <3>2. CASE cb[e] = "call"
      <4>1. Owed' = Owed
        BY <2>15, <3>2 DEF CallbackBegins, Owed, TypeInv, PlaceTypes
      <4>2. reports' = reports /\ notified' = notified /\ opened' = opened
        BY <2>15, <3>2 DEF CallbackBegins
      <4> QED BY <4>1, <4>2, ReportKept DEF One, TypeInv, CountTypes
    <3> QED BY <2>15, <3>1, <3>2 DEF CallbackBegins
  <2>16. ASSUME NEW e \in Epochs, CallbackReturns(e) PROVE ReportInv'
    <3>1. Owed' = Owed
      BY <2>16 DEF CallbackReturns, Owed, TypeInv, PlaceTypes
    <3>2. reports' = reports /\ notified' = notified /\ opened' = opened
      BY <2>16 DEF CallbackReturns
    <3> QED BY <3>1, <3>2, ReportKept DEF One, TypeInv, CountTypes
  <2>17. ASSUME NEW e \in Epochs, CallbackStops(e) PROVE ReportInv'
    <3>1. Owed' = Owed
      BY <2>17 DEF CallbackStops, StopRaised, Owed, TypeInv, PlaceTypes
    <3>2. reports' = reports /\ notified' = notified /\ opened' = opened
      BY <2>17 DEF CallbackStops, StopRaised
    <3> QED BY <3>1, <3>2, ReportKept DEF One, TypeInv, CountTypes
  <2> QED
    BY <1>2, <2>1, <2>2, <2>3, <2>4, <2>5, <2>6, <2>7, <2>8, <2>9, <2>10,
       <2>11, <2>12, <2>13, <2>14, <2>15, <2>16, <2>17 DEF Next, Connect,
       StopStep, Socket, Callback, Worker
<1> QED BY <1>1, <1>2

-----------------------------------------------------------------------------
\* The inductive invariant.
Inv == IInv /\ RetryInv /\ BoundInv /\ CountInv /\ ReportInv

\* It holds before the first connect().
LEMMA InvInit == Init => Inv
<1> SUFFICES ASSUME Init PROVE Inv
  OBVIOUS
<1>1. IInv
  <2>1. TypeInv
    <3>1. FlagTypes
      BY DEF Init, FlagTypes
    <3>2. CountTypes
      BY CountsNatural DEF Init, CountTypes
    <3>3. PlaceTypes
      BY DEF Init, PlaceTypes, WorkerSteps, ConnSteps, StopSteps,
         CallbackSteps
    <3> QED BY <3>1, <3>2, <3>3 DEF TypeInv
  <2>2. EpochInv /\ EndedInv /\ HandleInv /\ CustodyInv
    BY DEF Init, EpochInv, EndedInv, HandleInv, CustodyInv, Current,
       Destroyable, Attempting
  <2>3. StopInv /\ RunInv /\ ConnectedInv /\ QuietInv /\ AttemptInv
    BY CountsNatural
    DEF Init, StopInv, RunInv, ConnectedInv, QuietInv, AttemptInv, Stoppers,
       InFlight, WorkerInUser, GivingUp
  <2> QED BY <2>1, <2>2, <2>3 DEF IInv, Init
<1>2. RetryInv /\ BoundInv /\ CountInv
  <2>1. ~ Due /\ RetryInv
    BY DEF Init, Due, RetryInv, Current
  <2>2. BoundInv
    BY CountsNatural DEF Init, BoundInv
  <2>3. CountInv
    BY <2>1 DEF Init, CountInv, One, Stoppers
  <2> QED BY <2>1, <2>2, <2>3
<1>3. ReportInv
  <2>1. Owed = {} /\ opened = {} /\ reports = 0 /\ notified
    BY DEF Init, Owed
  <2> QED BY <2>1, FS_EmptySet DEF ReportInv, One
<1> QED BY <1>1, <1>2, <1>3 DEF Inv

\* Types.
LEMMA TypeStep == TypeInv /\ [Next]_<<vars, limits>> => TypeInv'
BY FlagStep, CountStep, PlaceStep DEF TypeInv

\* Only ConnectSpawns may end the process, and it finds no worker.
LEMMA NeverCrashes == IInv /\ [Next]_<<vars, limits>> => ~ crashed'
<1> SUFFICES ASSUME IInv, [Next]_<<vars, limits>> PROVE ~ crashed'
  OBVIOUS
<1>1. CASE UNCHANGED <<vars, limits>>
  BY <1>1 DEF vars, IInv
<1>2. CASE Next
  <2>1. CASE ConnectSpawns
    BY <2>1 DEF ConnectSpawns, IInv, RunInv
  <2>2. CASE Worker
    BY <2>2
    DEF IInv, sockets, Worker, WorkerTop, WorkerBegins, WorkerClaims,
        WorkerStoresHandle, WorkerOpens, WorkerLeavesLoop, WorkerDrains,
        WorkerTakesOwn, WorkerDrops, WorkerRecovers, WorkerCallbackBegins,
        WorkerCallbackReturns, WorkerDiscards, WorkerDecides, WorkerWakes,
        WorkerExits
  <2>3. CASE Next /\ ~ ConnectSpawns /\ ~ Worker
    BY <2>3
    DEF Next, IInv, Connect, StopStep, Socket, Callback, StopRaised,
        ConnectEntry, ConnectChecksWorker, ConnectRefused, ConnectJoins,
        ConnectChecksRunning, ConnectResets, ConnectRaises,
        ConnectClearsFlags, ConnectBeginsEpoch, ConnectReturns, OwnerStops,
        WorkerCallbackStops, StopFences, StopExchanges, StopLooks,
        StopExtracts, StopJoins, StopDrops, StopReturns, SocketOpens,
        SocketCloses, SocketFails, AlertArrives, AlertCommits, CallbackBegins,
        CallbackReturns, CallbackStops
  <2> QED BY <1>2, <2>1, <2>2, <2>3
<1> QED BY <1>1, <1>2

\* Every step keeps the invariant.
LEMMA InvStep == Usage /\ Inv /\ [Next]_<<vars, limits>> => Inv'
<1> SUFFICES ASSUME Usage, Inv, [Next]_<<vars, limits>> PROVE Inv'
  OBVIOUS
<1>1. IInv'
  BY TypeStep, EpochStep, EndedStep, HandleStep, CustodyStep, StopStepInv,
     RunStep,
     ConnectedStep, QuietStep, AttemptStep, NeverCrashes DEF Inv, IInv
<1>2. RetryInv' /\ BoundInv' /\ CountInv'
  BY RetryStep, BoundStep, CountStep2 DEF Inv
<1>3. ReportInv'
  BY ReportStep DEF Inv, IInv
<1> QED BY <1>1, <1>2, <1>3 DEF Inv
-----------------------------------------------------------------------------
\* Every variable has its type; the epochs that calls and failures can begin
\* are EpochsNeeded at most, and connect() never assigns to a joinable thread.
THEOREM TypeCorrect == ASSUME Usage PROVE Spec => []TypeOK
<1>1. Inv => TypeOK
  <2> SUFFICES ASSUME Inv PROVE TypeOK
    OBVIOUS
  <2>1. epoch <= MaxEpochs
    <3>1. epoch <= connects + ownerStops + callbackStops + failures
      BY DEF Inv, IInv, TypeInv, CountTypes, CountInv, One
    <3>2. /\ limits \in ConnectionBudgets
          /\ limits.connects \in Nat /\ limits.failures \in Nat /\ limits.stops \in Nat
          /\ 2 * limits.connects + limits.stops + limits.failures + 1 <= MaxEpochs
      BY CountsNatural DEF Inv, IInv, TypeInv, CountTypes, EpochsNeeded
    <3> QED
      BY <3>1, <3>2, CountsNatural
      DEF Inv, IInv, TypeInv, CountTypes, BoundInv
  <2>2. {epoch, handle, first, mine, latest} \subseteq {0} \cup Epochs
    BY <2>1, CountsNatural
    DEF Inv, IInv, TypeInv, CountTypes, EpochInv, HandleInv, Epochs
  <2>3. took \in [Stoppers -> {0} \cup Epochs]
    BY <2>1, CountsNatural
    DEF Inv, IInv, TypeInv, CountTypes, PlaceTypes, EpochInv, Epochs
  <2>4. attempts \in 0 .. MaxAttempts + 1
    BY CountsNatural DEF Inv, IInv, TypeInv, CountTypes, AttemptInv
  <2> QED
    BY <2>2, <2>3, <2>4
    DEF Inv, IInv, TypeInv, FlagTypes, CountTypes, PlaceTypes, TypeOK
<1> QED BY <1>1, InvInit, InvStep, PTL DEF Spec

\* connected_ is set only while the current socket is open, or until the
\* disconnect() that moved the epoch on has cleared it.
THEOREM ConnectedCurrent == ASSUME Usage PROVE Spec => []ConnectedIsCurrent
<1>1. Inv => ConnectedIsCurrent
  BY DEF Inv, IInv, ConnectedInv, ConnectedIsCurrent
<1> QED BY <1>1, InvInit, InvStep, PTL DEF Spec

\* After a disconnect() that was not deferred there is no worker, no socket
\* and no callback, and no worker that is over leaves a socket behind.
THEOREM NothingLeft == ASSUME Usage PROVE Spec => []NothingLeftBehind
<1>1. Inv => NothingLeftBehind
  BY DEF Inv, IInv, QuietInv, HandleInv, Holding, ConnectedInv,
     NothingLeftBehind,
     QuietAfterDisconnect, NoSocketLeftBehind
<1> QED BY <1>1, InvInit, InvStep, PTL DEF Spec

\* The user hears of the end of a connection at most once.
THEOREM ReportsCounted == ASSUME Usage PROVE Spec => []ReportedOnce
<1>1. Inv => ReportedOnce
  <2> SUFFICES ASSUME Inv PROVE ReportedOnce
    OBVIOUS
  <2>1. One(~ notified) \in Nat
    BY DEF One
  <2> QED
    BY <2>1, ReportsFinite
    DEF Inv, IInv, TypeInv, CountTypes, ReportInv, ReportedOnce
<1> QED BY <1>1, InvInit, InvStep, PTL DEF Spec

\* As long as open() does not throw, a running worker gives up a current
\* connection only when its first attempt failed, reconnecting is off, the
\* server forbade it, or the attempts are used up.
THEOREM GivesUpJustly ==
  ASSUME Usage, \A b \in ConnectionBudgets : ~ b.throws
  PROVE  Spec => GivesUpForCause
<1> DEFINE Cause == worker # "exit" /\ worker' = "exit" /\ shouldRun /\ Current(latest)
       => \/ ~ initialDone /\ initialDone'
          \/ ~ AutoReconnect \/ suppressed \/ attempts > MaxAttempts
<1>1. Inv /\ [Next]_<<vars, limits>> => [Cause]_vars
  <2> SUFFICES ASSUME Inv, Next, worker # "exit", worker' = "exit", shouldRun, Current(latest)
               PROVE  \/ ~ initialDone /\ initialDone'
                      \/ ~ AutoReconnect \/ suppressed \/ attempts > MaxAttempts
    BY DEF vars, workerVars
  <2>1. WorkerTop \/ WorkerCallbackBegins \/ WorkerCallbackReturns \/ WorkerDecides
    BY DEF Next, Connect, StopStep, Socket, Callback, Worker, workerVars,
       Goto, Resume, StopRaised,
       IInv, Inv, RunInv, ConnectEntry, ConnectChecksWorker, ConnectRefused,
       ConnectJoins, ConnectChecksRunning, ConnectResets, ConnectRaises,
       ConnectClearsFlags, ConnectBeginsEpoch, ConnectSpawns, ConnectReturns,
       OwnerStops, WorkerCallbackStops, StopFences, StopExchanges, StopLooks,
       StopExtracts, StopJoins, StopDrops, StopReturns, SocketOpens,
       SocketCloses, SocketFails, AlertArrives, AlertCommits, CallbackBegins,
       CallbackReturns, CallbackStops, WorkerBegins, WorkerClaims,
       WorkerStoresHandle, WorkerOpens, WorkerLeavesLoop, WorkerDrains,
       WorkerTakesOwn, WorkerDrops, WorkerRecovers, WorkerDiscards,
       WorkerWakes, WorkerExits
  <2>2. CASE WorkerTop
    BY <2>2 DEF WorkerTop, Goto
  <2>3. CASE WorkerCallbackBegins
    BY <2>3
    DEF WorkerCallbackBegins, Goto, MayBegin, Current, Inv, IInv, EpochInv,
        Attempting
  <2>4. CASE WorkerCallbackReturns
    BY <2>4 DEF WorkerCallbackReturns, Goto, Inv, IInv, AttemptInv, GivingUp
  <2>5. CASE WorkerDecides
    <3>1. ~ limits.throws /\ Current(mine)
      BY <2>5
      DEF Inv, IInv, TypeInv, CountTypes, EpochInv, Attempting, WorkerDecides
    <3>2. needsReconnect
      BY <2>5, <3>1 DEF Inv, RetryInv, WorkerDecides
    <3> QED BY <2>5, <3>1, <3>2 DEF WorkerDecides, Goto, ShouldReconnect
  <2> QED BY <2>1, <2>2, <2>3, <2>4, <2>5
<1> QED BY <1>1, InvInit, InvStep, PTL DEF Spec, GivesUpForCause
===============================================================================
