-------------------------- MODULE SignalingConnection --------------------------
(***************************************************************************)
(* The connection of VDONinjaSignaling: connect(), disconnect(), the       *)
(* WebSocket worker wsThreadFunc() with its host fallback and reconnects,  *)
(* and the callbacks that libdatachannel runs for each socket.             *)
(*                                                                         *)
(* Every attempt to open a socket has an epoch.  A callback may change     *)
(* shared state only while its epoch is the current one, and user          *)
(* callbacks run with no lock held, so a disconnect() that finds one       *)
(* running leaves the socket and the worker to be torn down later.         *)
(*                                                                         *)
(* An action is one critical section, or one access to an atomic.  The     *)
(* send queue, the rooms and streams, and the text of errors are left out; *)
(* a message is only modelled when it is a server alert.                   *)
(***************************************************************************)
EXTENDS Naturals, FiniteSets

CONSTANTS
  HostCount,              \* wssHosts_.size()
  MaxAttempts,            \* maxReconnectAttempts_
  AutoReconnect,          \* autoReconnect_
  MaxEpochs,              \* bound: epochs
  ConnectionBudgets,      \* bounds: calls of connect(), attempts and connections that
                          \* fail, calls of disconnect() by user callbacks, and whether
                          \* rtc::WebSocket::open may throw
  CallbacksWait,          \* may a user callback wait for disconnect() to return?
  StopDuringStart,        \* may disconnect() run while connect() starts the worker?
  ConnectAfterGivingUp    \* may connect() be called with no disconnect() before it?

\* Every epoch comes from a connect(), a disconnect() or a new attempt.
EpochsNeeded(b) == 2 * b.connects + b.stops + b.failures + 1

ASSUME CountsNatural ==
  /\ HostCount \in Nat \ {0} /\ {MaxAttempts, MaxEpochs} \subseteq Nat
  /\ ConnectionBudgets \subseteq
       [connects : Nat, failures : Nat, stops : Nat, throws : BOOLEAN]
  /\ \A b \in ConnectionBudgets : EpochsNeeded(b) <= MaxEpochs
ASSUME ConnectionSwitches ==
  {AutoReconnect, CallbacksWait, StopDuringStart, ConnectAfterGivingUp} \subseteq BOOLEAN

Epochs == 1 .. MaxEpochs
Stoppers == {"owner", "callback"}

VARIABLES
  \* the atomics and the fields guarded by stateMutex_, socketEpochMutex_, handleMutex_
  shouldRun, needsReconnect, connected, initialDone, notified,
  epoch,             \* socketEpoch_
  handle,            \* wsHandleEpoch_, 0 when wsHandle_ is null
  hostIndex,         \* activeWssHostIndex_, from 1
  suppressed,        \* reconnectSuppressedByServer_
  attempts,          \* *reconnectAttempts, shared by the worker and its sockets
  \* the worker thread; "none" when wsThread_ is not joinable
  worker, first, mine, latest,
  \* the thread that calls connect()
  conn,
  \* the threads inside disconnect(), and the locals they carry
  stop, was, took,
  \* each socket, whether it opened, and the callback it is running
  sock, opened, cb,
  crashed,           \* std::terminate was called
  \* history: used by the properties and the bounds only
  connects, ownerStops, failures, callbackStops, mayConnect, quiet, reports,
  limits             \* the budget, which never changes

flags == <<shouldRun, needsReconnect, connected, initialDone, notified>>
fields == <<epoch, handle, hostIndex, suppressed, attempts>>
workerVars == <<worker, first, mine, latest>>
stopVars == <<stop, was, took>>
sockets == <<sock, opened, cb>>
bounds == <<connects, ownerStops, failures, callbackStops, mayConnect>>
history == <<bounds, quiet, reports>>
vars == <<flags, fields, workerVars, conn, stopVars, sockets, crashed, history>>

WorkerSteps == {"none", "top", "begin", "claim", "store", "open", "loop", "drain",
                "takeOwn", "drop", "caught", "recover", "callError", "userError",
                "userErrorStopping", "discard", "decide", "sleep", "callGaveUp", "userGaveUp",
                "userGaveUpStopping", "exit", "done"}
ConnSteps == {"idle", "check", "refuse", "join", "started", "reset", "raise", "flags",
              "epoch", "spawn", "wait"}
StopSteps == {"idle", "fence", "exchange", "look", "extract", "join", "drop", "notify"}
CallbackSteps == {"idle", "alert", "call", "callDisconnected", "user", "userStopping"}

Init ==
  /\ shouldRun = FALSE /\ needsReconnect = FALSE /\ connected = FALSE
  /\ initialDone = FALSE /\ notified = TRUE
  /\ epoch = 0 /\ handle = 0 /\ hostIndex = 1 /\ suppressed = FALSE /\ attempts = 0
  /\ worker = "none" /\ first = 0 /\ mine = 0 /\ latest = 0
  /\ conn = "idle"
  /\ stop = [a \in Stoppers |-> "idle"]
  /\ was = [a \in Stoppers |-> FALSE]
  /\ took = [a \in Stoppers |-> 0]
  /\ sock = [e \in Epochs |-> "none"]
  /\ opened = {}
  /\ cb = [e \in Epochs |-> "idle"]
  /\ crashed = FALSE
  /\ connects = 0 /\ ownerStops = 0 /\ failures = 0 /\ callbackStops = 0 /\ mayConnect = TRUE
  /\ quiet = FALSE /\ reports = 0
  /\ limits \in ConnectionBudgets


\* socketUserCallbacksInFlight_ # 0.
WorkerInUser == worker \in {"userError", "userErrorStopping", "userGaveUp", "userGaveUpStopping"}
InFlight == WorkerInUser \/ \E e \in Epochs : cb[e] \in {"user", "userStopping"}

Current(e) == e # 0 /\ e = epoch
\* Mutant: one host too many.
HostOffByOne == hostIndex <= HostCount

HasNextHost == hostIndex < HostCount

Goto(step) == worker' = step
-----------------------------------------------------------------------------
(* connect(). *)

ConnectGoto(step) == conn' = step

\* Only connect() with no connection to keep is modelled: a call that finds
\* connected_ set changes nothing.
ConnectEntry ==
  /\ conn = "idle" /\ connects < limits.connects
  /\ mayConnect \/ ConnectAfterGivingUp
  /\ stop["owner"] = "idle"
  /\ ~ connected
  /\ mayConnect' = FALSE
  /\ ConnectGoto("check")
  /\ UNCHANGED <<flags, fields, workerVars, stopVars, sockets, crashed, connects, ownerStops, failures,
                 callbackStops, quiet, reports>>

\* wsThread_.joinable() && !shouldRun_: a worker that is over, or will be.
WorkerIsOver == worker # "none" /\ ~ shouldRun

ConnectChecksWorker ==
  /\ conn = "check"
  /\ ConnectGoto(IF WorkerIsOver THEN "refuse" ELSE "started")
  /\ UNCHANGED <<flags, fields, workerVars, stopVars, sockets, crashed, history>>

ConnectRefused ==
  /\ conn = "refuse"
  /\ IF InFlight THEN ConnectGoto("idle") /\ mayConnect' = TRUE
                 ELSE ConnectGoto("join") /\ UNCHANGED mayConnect
  /\ UNCHANGED <<flags, fields, workerVars, stopVars, sockets, crashed, connects, ownerStops, failures,
                 callbackStops, quiet, reports>>

ConnectJoins ==
  /\ conn = "join"
  /\ worker \in {"none", "done"}
  /\ Goto("none")
  /\ ConnectGoto("started")
  /\ UNCHANGED <<flags, fields, first, mine, latest, stopVars, sockets, crashed, history>>

ConnectChecksRunning ==
  /\ conn = "started"
  /\ ConnectGoto(IF shouldRun THEN "idle" ELSE "reset")
  /\ UNCHANGED <<flags, fields, workerVars, stopVars, sockets, crashed, history>>

ConnectResets ==
  /\ conn = "reset"
  /\ hostIndex' = 1
  /\ suppressed' = FALSE
  /\ connects' = connects + 1
  /\ mayConnect' = FALSE
  /\ quiet' = FALSE
  /\ ConnectGoto("raise")
  /\ UNCHANGED <<flags, epoch, handle, attempts, workerVars, stopVars, sockets, crashed,
                 ownerStops, failures, callbackStops, reports>>

ConnectRaises ==
  /\ conn = "raise"
  /\ shouldRun' = TRUE
  /\ ConnectGoto("flags")
  /\ UNCHANGED <<needsReconnect, connected, initialDone, notified, fields, workerVars,
                 stopVars, sockets, crashed, history>>

ConnectClearsFlags ==
  /\ conn = "flags"
  /\ needsReconnect' = FALSE
  /\ initialDone' = FALSE
  /\ notified' = TRUE
  /\ ConnectGoto("epoch")
  /\ UNCHANGED <<shouldRun, connected, fields, workerVars, stopVars, sockets, crashed, history>>

ConnectBeginsEpoch ==
  /\ conn = "epoch"
  /\ epoch' = epoch + 1
  /\ first' = epoch + 1
  /\ ConnectGoto("spawn")
  /\ UNCHANGED <<flags, handle, hostIndex, suppressed, attempts, worker, mine, latest,
                 stopVars, sockets, crashed, history>>

\* Assigning to a std::thread that is still joinable calls std::terminate.
ConnectSpawns ==
  /\ conn = "spawn"
  /\ IF worker = "none"
     THEN Goto("top") /\ mine' = 0 /\ latest' = 0 /\ attempts' = 0 /\ UNCHANGED crashed
     ELSE crashed' = TRUE /\ UNCHANGED <<worker, mine, latest, attempts>>
  /\ ConnectGoto("wait")
  /\ UNCHANGED <<flags, epoch, handle, hostIndex, suppressed, first, stopVars,
                 sockets, history>>

\* connect() stops waiting for the first attempt.
Answered == connected \/ initialDone \/ ~ shouldRun

ConnectReturns ==
  /\ conn = "wait"
  /\ ConnectGoto("idle")
  /\ UNCHANGED <<flags, fields, workerVars, stopVars, sockets, crashed, history>>

ConnectAnswered == Answered /\ ConnectReturns
-----------------------------------------------------------------------------
(* disconnect(), on the thread that owns the client or inside a user       *)
(* callback.                                                               *)

StopGoto(a, step) == stop' = [stop EXCEPT ![a] = step]

\* The first store of disconnect().
StopRaised(a) ==
  /\ stop[a] = "idle"
  /\ shouldRun' = FALSE
  /\ StopGoto(a, "fence")
  /\ UNCHANGED <<needsReconnect, connected, initialDone, notified, fields, was, took, conn,
                 crashed>>

\* Output and Source disconnect once for every connect they made.
OwnerStops ==
  /\ ownerStops < connects
  /\ conn \in {"idle", "wait"} \/ StopDuringStart
  /\ StopRaised("owner")
  /\ ownerStops' = ownerStops + 1
  /\ UNCHANGED <<workerVars, sockets, connects, failures, callbackStops, mayConnect, quiet,
                 reports>>

CallbackStops(e) ==
  /\ cb[e] = "user"
  /\ callbackStops < limits.stops
  /\ StopRaised("callback")
  /\ cb' = [cb EXCEPT ![e] = "userStopping"]
  /\ callbackStops' = callbackStops + 1
  /\ UNCHANGED <<workerVars, sock, opened, connects, ownerStops, failures, mayConnect, quiet, reports>>

WorkerCallbackStops ==
  /\ worker \in {"userError", "userGaveUp"}
  /\ callbackStops < limits.stops
  /\ StopRaised("callback")
  /\ Goto(IF worker = "userError" THEN "userErrorStopping" ELSE "userGaveUpStopping")
  /\ callbackStops' = callbackStops + 1
  /\ UNCHANGED <<first, mine, latest, sockets, connects, ownerStops, failures, mayConnect,
                 quiet, reports>>

StopFences(a) ==
  /\ stop[a] = "fence"
  /\ epoch' = epoch + 1
  /\ StopGoto(a, "exchange")
  /\ UNCHANGED <<flags, handle, hostIndex, suppressed, attempts, workerVars, conn, was, took,
                 sockets, crashed, history>>

StopExchanges(a) ==
  /\ stop[a] = "exchange"
  /\ was' = [was EXCEPT ![a] = connected]
  /\ connected' = FALSE
  /\ StopGoto(a, "look")
  /\ UNCHANGED <<shouldRun, needsReconnect, initialDone, notified, fields, workerVars, conn,
                 took, sockets, crashed, history>>

\* Mutant: close and join whatever callbacks are running.
NeverDefer == FALSE

\* teardownDeferred: closing here could wait for a callback that waits for us.
TeardownDeferred == InFlight

StopLooks(a) ==
  /\ stop[a] = "look"
  /\ StopGoto(a, IF TeardownDeferred THEN "notify" ELSE "extract")
  /\ UNCHANGED <<flags, fields, workerVars, conn, was, took, sockets, crashed, history>>

\* takeWebSocketHandle() and close(): the socket's callbacks are stale by now.
StopExtracts(a) ==
  /\ stop[a] = "extract"
  /\ took' = [took EXCEPT ![a] = handle]
  /\ handle' = 0
  /\ StopGoto(a, "join")
  /\ UNCHANGED <<flags, epoch, hostIndex, suppressed, attempts, workerVars, conn, was,
                 sockets, crashed, history>>

\* Mutant: disconnect() leaves the worker to the next connect().
StopSkipsJoin(a) ==
  /\ stop[a] = "join"
  /\ StopGoto(a, "drop")
  /\ UNCHANGED <<flags, fields, workerVars, conn, was, took, sockets, crashed, history>>

StopJoins(a) ==
  /\ stop[a] = "join"
  /\ worker \in {"none", "done"}
  /\ Goto("none")
  /\ StopGoto(a, "drop")
  /\ UNCHANGED <<flags, fields, first, mine, latest, conn, was, took, sockets,
                 crashed, history>>

\* The destructor of a socket returns when it is closed and no callback of it
\* is running.
Destroyable(e) == sock[e] \in {"none", "closed"} /\ cb[e] = "idle"

StopDrops(a) ==
  /\ stop[a] = "drop"
  /\ took[a] # 0 => Destroyable(took[a])
  /\ took' = [took EXCEPT ![a] = 0]
  /\ quiet' = TRUE
  /\ StopGoto(a, "notify")
  /\ UNCHANGED <<flags, fields, workerVars, conn, was, sockets, crashed, bounds, reports>>

\* A user callback that called disconnect() continues.
Resume(a) ==
  IF a = "owner" THEN UNCHANGED <<worker, cb>>
  ELSE /\ cb' = [e \in Epochs |-> IF cb[e] = "userStopping" THEN "user" ELSE cb[e]]
       /\ Goto(CASE worker = "userErrorStopping"  -> "userError"
                 [] worker = "userGaveUpStopping" -> "userGaveUp"
                 [] OTHER -> worker)

\* Mutant: every disconnect() tells the user.
NotifyAlways(a) == TRUE

\* wasConnected, and nobody has told the user yet.
Notifies(a) == was[a] /\ ~ notified

\* notifyDisconnected(); then the call returns.
StopReturns(a) ==
  /\ stop[a] = "notify"
  /\ notified' = (notified \/ was[a])
  /\ reports' = IF Notifies(a) THEN reports + 1 ELSE reports
  /\ was' = [was EXCEPT ![a] = FALSE]
  /\ mayConnect' = TRUE
  /\ Resume(a)
  /\ StopGoto(a, "idle")
  /\ UNCHANGED <<shouldRun, needsReconnect, connected, initialDone, fields, first, mine, latest,
                 conn, took, sock, opened, crashed, connects, ownerStops, failures,
                 callbackStops, quiet>>
-----------------------------------------------------------------------------
(* The callbacks of a socket.  A callback that is not admitted does        *)
(* nothing; an admitted one changes the state and then, with the epoch     *)
(* lock released, calls the user's callback if the epoch is still current. *)

\* Mutant: a callback of a replaced socket is let in.
AdmitAll(e) == TRUE

Admitted(e) == Current(e)

\* Somebody is destroying the socket.
Closing(e) == (worker = "drop" /\ mine = e) \/ \E a \in Stoppers : took[a] = e

SocketOpens(e) ==
  /\ sock[e] = "connecting" /\ cb[e] = "idle"
  /\ sock' = [sock EXCEPT ![e] = "open"]
  /\ IF Admitted(e)
     THEN /\ opened' = opened \cup {e}
          /\ connected' = TRUE /\ notified' = FALSE /\ initialDone' = TRUE
          /\ attempts' = 0 /\ suppressed' = FALSE
          /\ cb' = [cb EXCEPT ![e] = "call"]
     ELSE UNCHANGED <<opened, connected, notified, initialDone, attempts, suppressed, cb>>
  /\ UNCHANGED <<shouldRun, needsReconnect, epoch, handle, hostIndex, workerVars, conn,
                 stopVars, crashed, history>>

SocketCloses(e) ==
  /\ sock[e] \in {"connecting", "open", "failing"} /\ cb[e] = "idle"
  /\ IF sock[e] = "failing" \/ Closing(e) THEN UNCHANGED failures
     ELSE failures < limits.failures /\ failures' = failures + 1
  /\ sock' = [sock EXCEPT ![e] = "closed"]
  /\ IF Admitted(e)
     THEN LET lost == e \in opened /\ connected
          IN /\ connected' = FALSE
             /\ needsReconnect' = TRUE
             /\ notified' = (notified \/ lost)
             /\ cb' = IF lost /\ ~ notified THEN [cb EXCEPT ![e] = "callDisconnected"] ELSE cb
     ELSE UNCHANGED <<connected, needsReconnect, notified, cb>>
  /\ UNCHANGED <<shouldRun, initialDone, fields, workerVars, conn, stopVars, opened, crashed,
                 connects, ownerStops, callbackStops, mayConnect, quiet, reports>>

\* onError, which libdatachannel follows by onClosed.  Before the socket opened
\* it leaves the user alone when there is another host to try.
SocketFails(e) ==
  /\ sock[e] \in {"connecting", "open"} /\ cb[e] = "idle"
  /\ failures < limits.failures
  /\ failures' = failures + 1
  /\ sock' = [sock EXCEPT ![e] = "failing"]
  /\ IF Admitted(e)
     THEN /\ needsReconnect' = (needsReconnect \/ e \notin opened)
          /\ cb' = IF e \notin opened /\ HasNextHost THEN cb ELSE [cb EXCEPT ![e] = "call"]
     ELSE UNCHANGED <<needsReconnect, cb>>
  /\ UNCHANGED <<shouldRun, connected, initialDone, notified, fields, workerVars, conn, stopVars,
                 opened, crashed, connects, ownerStops, callbackStops, mayConnect, quiet, reports>>

\* handleSocketMessage() admits the message, and processMessage() parses it
\* with no lock held.
AlertArrives(e) ==
  /\ sock[e] = "open" /\ cb[e] = "idle"
  /\ ~ suppressed
  /\ Admitted(e)
  /\ cb' = [cb EXCEPT ![e] = "alert"]
  /\ UNCHANGED <<flags, fields, workerVars, conn, stopVars, sock, opened, crashed, history>>

AlertCommits(e) ==
  /\ cb[e] = "alert"
  /\ IF Current(e)
     THEN suppressed' = TRUE /\ cb' = [cb EXCEPT ![e] = "call"]
     ELSE UNCHANGED suppressed /\ cb' = [cb EXCEPT ![e] = "idle"]
  /\ UNCHANGED <<flags, epoch, handle, hostIndex, attempts, workerVars, conn, stopVars, sock,
                 opened, crashed, history>>

\* beginUserCallback(): counted under the epoch lock, or not called.
MayBegin(e) == Current(e)

CallbackBegins(e) ==
  /\ cb[e] \in {"call", "callDisconnected"}
  /\ cb' = [cb EXCEPT ![e] = IF MayBegin(e) THEN "user" ELSE "idle"]
  /\ reports' = IF cb[e] = "callDisconnected" /\ MayBegin(e) THEN reports + 1 ELSE reports
  /\ UNCHANGED <<flags, fields, workerVars, conn, stopVars, sock, opened, crashed, bounds, quiet>>

\* A callback may wait until the owner's disconnect() has returned.
MayReturn == ~ (CallbacksWait /\ stop["owner"] # "idle")

CallbackReturns(e) ==
  /\ cb[e] = "user" /\ MayReturn
  /\ cb' = [cb EXCEPT ![e] = "idle"]
  /\ UNCHANGED <<flags, fields, workerVars, conn, stopVars, sock, opened, crashed, history>>
-----------------------------------------------------------------------------
(* wsThreadFunc(). *)

WorkerTop ==
  /\ worker = "top"
  /\ Goto(IF shouldRun THEN "begin" ELSE "exit")
  /\ UNCHANGED <<flags, fields, first, mine, latest, conn, stopVars, sockets,
                 crashed, history>>

\* The first attempt takes the epoch of connect(), a later one a new epoch,
\* unless somebody else has begun one.
WorkerBegins ==
  /\ worker = "begin"
  /\ IF latest = 0 THEN Goto("claim") /\ mine' = first /\ UNCHANGED epoch
     ELSE IF Current(latest)
          THEN Goto("claim") /\ mine' = epoch + 1 /\ epoch' = epoch + 1
          ELSE Goto("done") /\ UNCHANGED <<mine, epoch>>
  /\ UNCHANGED <<flags, handle, hostIndex, suppressed, attempts, first, latest,
                 conn, stopVars, sockets, crashed, history>>

WorkerClaims ==
  /\ worker = "claim"
  /\ IF Current(mine) /\ shouldRun
     THEN Goto("store") /\ latest' = mine /\ needsReconnect' = FALSE
     ELSE Goto("done") /\ UNCHANGED <<latest, needsReconnect>>
  /\ UNCHANGED <<shouldRun, connected, initialDone, notified, fields, first, mine,
                 conn, stopVars, sockets, crashed, history>>

WorkerStoresHandle ==
  /\ worker = "store"
  /\ handle' = mine
  /\ Goto("open")
  /\ UNCHANGED <<flags, epoch, hostIndex, suppressed, attempts, first, mine, latest,
                 conn, stopVars, sockets, crashed, history>>

WorkerOpens ==
  /\ worker = "open"
  /\ \/ /\ Goto("loop")
        /\ sock' = [sock EXCEPT ![mine] = "connecting"]
        /\ UNCHANGED failures
     \/ /\ limits.throws /\ failures < limits.failures
        /\ Goto("caught")
        /\ failures' = failures + 1
        /\ UNCHANGED sock
  /\ UNCHANGED <<flags, fields, first, mine, latest, conn, stopVars, opened, cb,
                 crashed, connects, ownerStops, callbackStops, mayConnect, quiet, reports>>

\* Mutant: the loop ends with the client only.
LoopUntilStopped == ~ shouldRun \/ ~ Current(mine)

LoopOver == ~ shouldRun \/ needsReconnect \/ ~ Current(mine)

WorkerLeavesLoop ==
  /\ worker = "loop"
  /\ LoopOver
  /\ Goto("drain")
  /\ UNCHANGED <<flags, fields, first, mine, latest, conn, stopVars, sockets,
                 crashed, history>>

\* waitForSocketUserCallbacks()
WorkerDrains ==
  /\ worker \in {"drain", "caught"}
  /\ ~ InFlight
  /\ Goto(IF worker = "drain" THEN "takeOwn" ELSE "recover")
  /\ UNCHANGED <<flags, fields, first, mine, latest, conn, stopVars, sockets,
                 crashed, history>>

OwnHandle == handle = mine

\* takeWebSocketHandle(socketEpoch); the worker holds the last reference to the
\* socket unless disconnect() has taken the handle.
WorkerTakesOwn ==
  /\ worker = "takeOwn"
  /\ handle' = IF OwnHandle THEN 0 ELSE handle
  /\ Goto(IF OwnHandle THEN "drop" ELSE "decide")
  /\ UNCHANGED <<flags, epoch, hostIndex, suppressed, attempts, first, mine, latest,
                 conn, stopVars, sockets, crashed, history>>

WorkerDrops ==
  /\ worker = "drop"
  /\ Destroyable(mine)
  /\ Goto("decide")
  /\ UNCHANGED <<flags, fields, first, mine, latest, conn, stopVars, sockets, crashed, history>>

\* The catch block.
WorkerRecovers ==
  /\ worker = "recover"
  /\ IF Current(mine)
     THEN /\ connected' = FALSE
          /\ Goto(IF mine \notin opened /\ HasNextHost THEN "discard" ELSE "callError")
          /\ UNCHANGED handle
     ELSE /\ handle' = IF OwnHandle THEN 0 ELSE handle
          /\ Goto("done")
          /\ UNCHANGED connected
  /\ UNCHANGED <<shouldRun, needsReconnect, initialDone, notified, epoch, hostIndex, suppressed,
                 attempts, first, mine, latest, conn, stopVars, sockets, crashed, history>>

WorkerCallbackBegins ==
  /\ \/ worker = "callError"  /\ Goto(IF MayBegin(mine) THEN "userError" ELSE "discard")
     \/ worker = "callGaveUp" /\ Goto(IF MayBegin(mine) THEN "userGaveUp" ELSE "exit")
  /\ UNCHANGED <<flags, fields, first, mine, latest, conn, stopVars, sockets, crashed, history>>

WorkerCallbackReturns ==
  /\ MayReturn
  /\ \/ worker = "userError"  /\ Goto("discard")
     \/ worker = "userGaveUp" /\ Goto("exit")
  /\ UNCHANGED <<flags, fields, first, mine, latest, conn, stopVars, sockets, crashed, history>>

WorkerDiscards ==
  /\ worker = "discard"
  /\ handle' = IF OwnHandle THEN 0 ELSE handle
  /\ Goto("decide")
  /\ UNCHANGED <<flags, epoch, hostIndex, suppressed, attempts, first, mine, latest, conn,
                 stopVars, sockets, crashed, history>>

ShouldReconnect == shouldRun /\ AutoReconnect /\ needsReconnect

\* After an attempt: the next host, the failure of the first attempt, or
\* another attempt.
WorkerDecides ==
  /\ worker = "decide"
  /\ IF ~ Current(mine)
     THEN Goto("done") /\ UNCHANGED <<hostIndex, needsReconnect, initialDone, attempts>>
     ELSE IF mine \notin opened /\ ~ connected /\ HasNextHost
     THEN /\ hostIndex' = hostIndex + 1
          /\ needsReconnect' = FALSE
          /\ Goto("top")
          /\ UNCHANGED <<initialDone, attempts>>
     ELSE IF ~ connected /\ ~ initialDone
     THEN /\ initialDone' = TRUE
          /\ Goto("exit")
          /\ UNCHANGED <<hostIndex, needsReconnect, attempts>>
     ELSE IF ~ ShouldReconnect \/ suppressed
     THEN Goto("exit") /\ UNCHANGED <<hostIndex, needsReconnect, initialDone, attempts>>
     ELSE /\ attempts' = attempts + 1
          /\ Goto(IF attempts' > MaxAttempts THEN "callGaveUp" ELSE "sleep")
          /\ UNCHANGED <<hostIndex, needsReconnect, initialDone>>
  /\ UNCHANGED <<shouldRun, connected, notified, epoch, handle, suppressed, first, mine, latest,
                 conn, stopVars, sockets, crashed, history>>

\* The delay ends early when the client stops; reconnectTimerMayProceed().
WorkerWakes ==
  /\ worker = "sleep"
  /\ Goto(IF Current(mine) THEN "top" ELSE "done")
  /\ UNCHANGED <<flags, fields, first, mine, latest, conn, stopVars, sockets, crashed, history>>

\* A worker that never claimed an attempt has no epoch to lose.
WorkerExits ==
  /\ worker = "exit"
  /\ IF latest = 0 \/ Current(latest)
     THEN shouldRun' = FALSE /\ needsReconnect' = FALSE /\ initialDone' = TRUE
     ELSE UNCHANGED <<shouldRun, needsReconnect, initialDone>>
  /\ Goto("done")
  /\ UNCHANGED <<connected, notified, fields, first, mine, latest, conn, stopVars, sockets,
                 crashed, history>>
-----------------------------------------------------------------------------
Connect == \/ ConnectEntry \/ ConnectChecksWorker \/ ConnectRefused \/ ConnectJoins
           \/ ConnectChecksRunning \/ ConnectResets \/ ConnectRaises \/ ConnectClearsFlags
           \/ ConnectBeginsEpoch \/ ConnectSpawns \/ ConnectReturns

StopStep(a) == StopFences(a) \/ StopExchanges(a) \/ StopLooks(a) \/ StopExtracts(a)
                 \/ StopJoins(a) \/ StopDrops(a) \/ StopReturns(a)

Socket(e) == SocketOpens(e) \/ SocketCloses(e) \/ SocketFails(e) \/ AlertArrives(e)

Callback(e) == AlertCommits(e) \/ CallbackBegins(e) \/ CallbackReturns(e)

Worker == \/ WorkerTop \/ WorkerBegins \/ WorkerClaims \/ WorkerStoresHandle \/ WorkerOpens
          \/ WorkerLeavesLoop \/ WorkerDrains \/ WorkerTakesOwn \/ WorkerDrops
          \/ WorkerRecovers \/ WorkerCallbackBegins \/ WorkerCallbackReturns
          \/ WorkerDiscards \/ WorkerDecides \/ WorkerWakes \/ WorkerExits

\* What libdatachannel does by itself: a connection attempt ends, and a socket
\* that failed or is being destroyed closes.
SocketSettles(e) ==
  \/ sock[e] = "connecting" /\ Socket(e)
  \/ (sock[e] = "failing" \/ Closing(e)) /\ SocketCloses(e)

Next ==
  /\ ~ crashed /\ UNCHANGED limits
  /\ \/ Connect \/ OwnerStops \/ Worker \/ WorkerCallbackStops
     \/ \E a \in Stoppers : StopStep(a)
     \/ \E e \in Epochs : Socket(e) \/ Callback(e) \/ CallbackStops(e)

Spec == Init /\ [][Next]_<<vars, limits>>

\* The threads are scheduled, user callbacks return when they may, and a socket
\* that is connecting or closing reaches an outcome: libdatachannel times the
\* connection out.  Nothing makes the owner call connect() or disconnect().
Fairness ==
  /\ WF_vars(~ crashed /\ Worker)
  /\ WF_vars(~ crashed /\ Connect /\ conn # "idle" /\ conn # "wait")
  /\ WF_vars(~ crashed /\ ConnectAnswered)
  /\ \A a \in Stoppers : WF_vars(~ crashed /\ StopStep(a))
  /\ \A e \in Epochs : /\ WF_vars(~ crashed /\ Callback(e))
                       /\ WF_vars(~ crashed /\ SocketSettles(e))

FairSpec == Spec /\ Fairness
-----------------------------------------------------------------------------
(* Properties. *)

\* Every variable has its type: the host index stays within wssHosts_, the
\* attempts within their limit, and connect() never assigns to a thread that is
\* still joinable, which would call std::terminate.
TypeOK ==
  /\ {shouldRun, needsReconnect, connected, initialDone, notified, suppressed,
      mayConnect, quiet} \subseteq BOOLEAN
  /\ ~ crashed
  /\ {epoch, handle, first, mine, latest} \subseteq {0} \cup Epochs
  /\ hostIndex \in 1 .. HostCount
  /\ attempts \in 0 .. MaxAttempts + 1
  /\ worker \in WorkerSteps
  /\ conn \in ConnSteps
  /\ stop \in [Stoppers -> StopSteps]
  /\ was \in [Stoppers -> BOOLEAN]
  /\ took \in [Stoppers -> {0} \cup Epochs]
  /\ sock \in [Epochs -> {"none", "connecting", "open", "failing", "closed"}]
  /\ cb \in [Epochs -> CallbackSteps]
  /\ opened \subseteq Epochs
  /\ {connects, ownerStops, failures, callbackStops, reports} \subseteq Nat
  /\ limits \in ConnectionBudgets

\* connected_ is about the current socket: it is set only while that socket is
\* open, or until the disconnect() that replaced the epoch clears it.
ConnectedIsCurrent ==
  connected => \/ epoch \in opened /\ sock[epoch] \in {"open", "failing"}
               \/ \E a \in Stoppers : stop[a] = "exchange"

\* onDisconnected is called at most once for each connection that opened.
ReportedOnce == reports <= Cardinality(opened)

\* A disconnect() that was not deferred leaves nothing behind until the next
\* connect(): no worker, no socket, and no callback running or still to come.
QuietAfterDisconnect ==
  quiet => /\ worker = "none" /\ handle = 0
           /\ ~ connected \/ stop["callback"] = "exchange"
           /\ \A e \in Epochs : Destroyable(e)

\* A worker that is over has left no socket in wsHandle_.
NoSocketLeftBehind == worker \in {"none", "done"} => handle = 0

\* Once disconnect() has returned nothing is reported any more, and no socket
\* that a connection left is ever in use again: a stop, a failure and a
\* reconnect may meet in any order.
NothingLeftBehind == QuietAfterDisconnect /\ NoSocketLeftBehind

\* A running worker gives up a current connection only because its first
\* attempt failed, reconnecting is off, the server suppressed it, or the
\* attempts are used up.
GivesUpForCause ==
  [][worker # "exit" /\ worker' = "exit" /\ shouldRun /\ Current(latest)
       => \/ ~ initialDone /\ initialDone'
          \/ ~ AutoReconnect \/ suppressed \/ attempts > MaxAttempts]_vars

\* disconnect() returns, even when a user callback waits for it.
DisconnectReturns == \A a \in Stoppers : stop[a] # "idle" ~> stop[a] = "idle"

\* The worker of a client that was told to stop comes to its end, also when
\* disconnect() deferred the teardown.
TeardownCompletes == ~ shouldRun ~> (worker \in {"none", "done"} \/ shouldRun)

\* connect() is answered by an outcome, never only by its timeout.
ConnectIsAnswered == conn = "wait" ~> conn # "wait"

\* A lost connection is followed by another one, or the client stops.
ReconnectsOrStops == needsReconnect /\ shouldRun ~> (connected \/ ~ shouldRun)
=============================================================================
