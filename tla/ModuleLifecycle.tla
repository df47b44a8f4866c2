--------------------------- MODULE ModuleLifecycle ---------------------------
(***************************************************************************)
(* The process-global libdatachannel lifecycle of the plugin               *)
(* (VDONinjaModuleLifecycle) and the boundary through which OBS creates    *)
(* and destroys plugin instances (VDONinjaModuleInstanceBoundary).         *)
(*                                                                         *)
(* OBS calls load, unload, create and destroy from any thread.  Each       *)
(* action is one critical section of mutex_ or one call that leaves the    *)
(* class: the logger, libdatachannel, an OBS create or destroy callback.   *)
(* No mutex is held during those calls, so they interleave freely.         *)
(*                                                                         *)
(* Log messages and the load generation number, which only logs and        *)
(* snapshots carry, are left out.                                          *)
(***************************************************************************)
EXTENDS Naturals, FiniteSets

CONSTANTS
  Threads,            \* the OBS threads that call into the module
  Kinds,              \* ModuleInstanceKind
  Addresses,          \* the addresses a create callback can return
  None,               \* nullptr, and a local variable that is out of scope
  Repeating,          \* kinds whose create callback may return a live instance
  QuietThrows         \* may an exception carry an empty what()?

ASSUME ThreadsFinite == IsFiniteSet(Threads)
ASSUME AddressesFinite == IsFiniteSet(Addresses) /\ None \notin Addresses
ASSUME SwitchesAssumption == Repeating \subseteq Kinds /\ QuietThrows \in BOOLEAN

VARIABLES
  \* guarded by VDONinjaModuleLifecycle::mutex_
  phase,             \* phase_
  live,              \* liveInstances_, the permits of each kind
  future,            \* cleanupFuture_ is valid
  loggerAttached,    \* loggerAttached_
  \* guarded by VDONinjaModuleInstanceBoundary::mutex_
  registered,        \* liveInstances_, the addresses of each kind
  \* per thread: where it is, and the local variables it carries
  pc, kind, obj, preloadAttempted,
  \* the world outside
  rtc,               \* libdatachannel's global state
  allocated          \* the instances that exist

sharedVars == <<phase, live, future, loggerAttached, registered>>
localVars  == <<pc, kind, obj, preloadAttempted>>
vars == <<sharedVars, localVars, rtc, allocated>>

Phases == {"Unloaded", "Loading", "Loaded", "Unloading", "UnloadPending",
           "Cleaning", "CleanupTimedOut", "CleanupFailed"}

LoadSteps    == {"attach", "recordLogger", "preload", "commitLoad",
                 "rollbackDetach", "rollbackCommit"}
UnloadSteps  == {"detach", "commitUnload"}
CleanupSteps == {"beginCleanup", "storeFuture", "waitCleanup", "resolve", "poll",
                 "finishCleanup", "finishPoll", "recordTimeout", "recordFailure"}
PermitSteps  == {"creator", "register", "rollbackDestroy", "destroyer", "release"}
Steps == {"idle", "reload"} \cup LoadSteps \cup UnloadSteps
           \cup CleanupSteps \cup PermitSteps

\* "deferred" is a cleanup whose future waits for a caller to run it.
RtcStates == {"off", "on", "cleaning", "deferred", "cleaned", "failed"}

NoLiveInstances(l) == \A k \in Kinds : l[k] = 0

Goto(t, step) == pc' = [pc EXCEPT ![t] = step]

Init ==
  /\ phase = "Unloaded"
  /\ live = [k \in Kinds |-> 0]
  /\ future = FALSE
  /\ loggerAttached = FALSE
  /\ registered = [k \in Kinds |-> {}]
  /\ pc = [t \in Threads |-> "idle"]
  /\ kind = [t \in Threads |-> None]
  /\ obj = [t \in Threads |-> None]
  /\ preloadAttempted = [t \in Threads |-> FALSE]
  /\ rtc = "off"
  /\ allocated = {}
-----------------------------------------------------------------------------
(* load().  A call that finds any other phase changes nothing. *)

\* Mutant: a failed cleanup is forgotten.
StartLoadingAfterFailure ==
  phase \in {"Unloaded", "CleanupFailed"} /\ NoLiveInstances(live)

MayStartLoading == phase = "Unloaded" /\ NoLiveInstances(live)

LoadEntry(t) ==
  /\ pc[t] \in {"idle", "reload"}
  /\ \/ /\ phase = "CleanupTimedOut"
        /\ phase' = "Cleaning"
        /\ Goto(t, "resolve")
     \/ /\ MayStartLoading
        /\ phase' = "Loading"
        /\ Goto(t, "attach")
  /\ UNCHANGED <<live, future, loggerAttached, registered, kind, obj, preloadAttempted,
                 rtc, allocated>>

\* load() called again by load() itself, after another thread took the phase.
ReloadRefused(t) ==
  /\ pc[t] = "reload"
  /\ ~ (phase = "CleanupTimedOut" \/ MayStartLoading)
  /\ Goto(t, "idle")
  /\ UNCHANGED <<sharedVars, kind, obj, preloadAttempted, rtc, allocated>>

\* The try block catches every exception, but keeps only what() of it, and
\* tests that text to learn whether anything was thrown at all.
ThrowTarget == IF QuietThrows THEN {"rollbackDetach", "commitLoad"} ELSE {"rollbackDetach"}

AttachLogger(t) ==
  /\ pc[t] = "attach"
  /\ \E next \in {"recordLogger"} \cup ThrowTarget : Goto(t, next)
  /\ UNCHANGED <<sharedVars, kind, obj, preloadAttempted, rtc, allocated>>

RecordLogger(t) ==
  /\ pc[t] = "recordLogger"
  /\ loggerAttached' = TRUE
  /\ preloadAttempted' = [preloadAttempted EXCEPT ![t] = TRUE]
  /\ Goto(t, "preload")
  /\ UNCHANGED <<phase, live, future, registered, kind, obj, rtc, allocated>>

PreloadRtc(t) ==
  /\ pc[t] = "preload"
  /\ \/ rtc' = "on" /\ Goto(t, "commitLoad")
     \/ rtc' \in {rtc, "on"} /\ \E next \in ThrowTarget : Goto(t, next)
  /\ UNCHANGED <<sharedVars, kind, obj, preloadAttempted, allocated>>

\* detachLogger may throw: the failure is logged and otherwise ignored.
RollbackDetach(t) ==
  /\ pc[t] = "rollbackDetach"
  /\ Goto(t, "rollbackCommit")
  /\ UNCHANGED <<sharedVars, kind, obj, preloadAttempted, rtc, allocated>>

RollbackCommit(t) ==
  /\ pc[t] = "rollbackCommit"
  /\ loggerAttached' = FALSE
  /\ IF preloadAttempted[t]
       THEN phase' = "Cleaning" /\ Goto(t, "beginCleanup")
       ELSE phase' = "Unloaded" /\ Goto(t, "idle")
  /\ preloadAttempted' = [preloadAttempted EXCEPT ![t] = FALSE]
  /\ UNCHANGED <<live, future, registered, kind, obj, rtc, allocated>>

CommitLoad(t) ==
  /\ pc[t] = "commitLoad"
  /\ phase' = "Loaded"
  /\ preloadAttempted' = [preloadAttempted EXCEPT ![t] = FALSE]
  /\ Goto(t, "idle")
  /\ UNCHANGED <<live, future, loggerAttached, registered, kind, obj, rtc, allocated>>
-----------------------------------------------------------------------------
(* unload() *)

UnloadEntry(t) ==
  /\ pc[t] = "idle"
  /\ phase = "Loaded"
  /\ phase' = "Unloading"
  /\ Goto(t, "detach")
  /\ UNCHANGED <<live, future, loggerAttached, registered, kind, obj,
                 preloadAttempted, rtc, allocated>>

UnloadDetach(t) ==
  /\ pc[t] = "detach"
  /\ Goto(t, "commitUnload")
  /\ UNCHANGED <<sharedVars, kind, obj, preloadAttempted, rtc, allocated>>

\* Mutants: unload never waits for instances; unload always leaves the
\* cleanup to a later release.
CleanAtOnce == TRUE
LeaveToRelease == FALSE

CleanAtUnload == NoLiveInstances(live)

CommitUnload(t) ==
  /\ pc[t] = "commitUnload"
  /\ loggerAttached' = FALSE
  /\ IF CleanAtUnload
       THEN phase' = "Cleaning" /\ Goto(t, "beginCleanup")
       ELSE phase' = "UnloadPending" /\ Goto(t, "idle")
  /\ UNCHANGED <<live, future, registered, kind, obj, preloadAttempted,
                 rtc, allocated>>
-----------------------------------------------------------------------------
(* VDONinjaModuleInstanceBoundary::create and destroy *)

\* tryAcquireInstance: without a permit, create returns nullptr.
CreateEntry(t, k) ==
  /\ pc[t] = "idle"
  /\ phase = "Loaded"
  /\ live' = [live EXCEPT ![k] = @ + 1]
  /\ kind' = [kind EXCEPT ![t] = k]
  /\ Goto(t, "creator")
  /\ UNCHANGED <<phase, future, loggerAttached, registered, obj, preloadAttempted,
                 rtc, allocated>>

AfterNullCreate == "release"

\* The creator throws or returns nullptr, returns a new instance, or
\* (what it must never do) the address of a live one.
CreatorReturns(t) ==
  /\ pc[t] = "creator"
  /\ \/ /\ Goto(t, AfterNullCreate)
        /\ UNCHANGED <<obj, allocated>>
     \/ \E a \in Addresses \ allocated :
          /\ allocated' = allocated \cup {a}
          /\ obj' = [obj EXCEPT ![t] = a]
          /\ Goto(t, "register")
     \/ /\ kind[t] \in Repeating
        /\ \E a \in registered[kind[t]] : obj' = [obj EXCEPT ![t] = a]
        /\ Goto(t, "register")
        /\ UNCHANGED allocated
  /\ UNCHANGED <<sharedVars, kind, preloadAttempted, rtc>>

\* Mutant: the permit of a refused registration is not given back.
KeepPermit == "idle"

AfterDuplicate == "release"

\* Insertion succeeds, finds the address already there, or throws.
RegisterInstance(t) ==
  /\ pc[t] = "register"
  /\ \/ /\ obj[t] \notin registered[kind[t]]
        /\ registered' = [registered EXCEPT ![kind[t]] = @ \cup {obj[t]}]
        /\ kind' = [kind EXCEPT ![t] = None]
        /\ obj' = [obj EXCEPT ![t] = None]
        /\ Goto(t, "idle")
     \/ /\ obj[t] \in registered[kind[t]]
        /\ Goto(t, AfterDuplicate)
        /\ UNCHANGED <<registered, kind, obj>>
     \/ /\ obj[t] \notin registered[kind[t]]
        /\ Goto(t, "rollbackDestroy")
        /\ UNCHANGED <<registered, kind, obj>>
  /\ UNCHANGED <<phase, live, future, loggerAttached, preloadAttempted, rtc, allocated>>

\* Mutant: destroy looks the address up without erasing it.
FindOnly(k, a) == registered[k]

Erase(k, a) == registered[k] \ {a}

\* A destroy of an address that is not registered changes nothing.  OBS does not
\* destroy an instance that a create is about to return.
DestroyEntry(t, k, a) ==
  /\ pc[t] = "idle"
  /\ a \in registered[k] /\ \A u \in Threads : pc[u] = "register" => obj[u] # a
  /\ registered' = [registered EXCEPT ![k] = Erase(k, a)]
  /\ kind' = [kind EXCEPT ![t] = k]
  /\ obj' = [obj EXCEPT ![t] = a]
  /\ Goto(t, "destroyer")
  /\ UNCHANGED <<phase, live, future, loggerAttached, preloadAttempted,
                 rtc, allocated>>

\* The OBS destroy callback, or the rollback destroyer of a failed create.
DestroyerReturns(t) ==
  /\ pc[t] \in {"destroyer", "rollbackDestroy"}
  /\ allocated' = allocated \ {obj[t]}
  /\ obj' = [obj EXCEPT ![t] = None]
  /\ Goto(t, "release")
  /\ UNCHANGED <<sharedVars, kind, preloadAttempted, rtc>>

\* The permits left after a release call for the cleanup.
LastRelease(left) == phase = "UnloadPending" /\ NoLiveInstances(left)

\* releaseInstance, called by releasePermit.  A count of zero is only logged.
ReleaseInstance(t) ==
  LET k    == kind[t]
      left == [live EXCEPT ![k] = @ - 1]
      last == live[k] # 0 /\ LastRelease(left)
  IN  /\ pc[t] = "release"
      /\ live' = IF live[k] = 0 THEN live ELSE left
      /\ phase' = IF last THEN "Cleaning" ELSE phase
      /\ Goto(t, IF last THEN "beginCleanup" ELSE "idle")
      /\ kind' = [kind EXCEPT ![t] = None]
      /\ obj' = [obj EXCEPT ![t] = None]
      /\ UNCHANGED <<future, loggerAttached, registered, preloadAttempted, rtc,
                     allocated>>
-----------------------------------------------------------------------------
(* executeCleanup, resolveTimedOutCleanup and completeCleanupFuture *)

\* beginRtcCleanup throws or returns an invalid future, or starts a cleanup.
BeginRtcCleanup(t) ==
  /\ pc[t] = "beginCleanup"
  /\ \/ Goto(t, "recordFailure") /\ UNCHANGED rtc
     \/ Goto(t, "storeFuture") /\ rtc' \in {"cleaning", "deferred"}
  /\ UNCHANGED <<sharedVars, kind, obj, preloadAttempted, allocated>>

StoreFuture(t) ==
  /\ pc[t] = "storeFuture"
  /\ future' = TRUE
  /\ Goto(t, "waitCleanup")
  /\ UNCHANGED <<phase, live, loggerAttached, registered, kind, obj,
                 preloadAttempted, rtc, allocated>>

\* load() of a timed-out lifecycle takes the stored future to poll it.
TakeTimedOutFuture(t) ==
  /\ pc[t] = "resolve"
  /\ Goto(t, IF future THEN "poll" ELSE "recordFailure")
  /\ UNCHANGED <<sharedVars, kind, obj, preloadAttempted, rtc, allocated>>

\* future.wait_for, with the timeout of unload or the zero timeout of load:
\* it throws, finds a result, or gives up.  Only the poll takes a deferred
\* future for one that is still running.
WaitForCleanup(t) ==
  /\ pc[t] \in {"waitCleanup", "poll"}
  /\ \/ Goto(t, "recordFailure")
     \/ /\ rtc \in {"cleaned", "failed"}
        /\ Goto(t, IF pc[t] = "poll" THEN "finishPoll" ELSE "finishCleanup")
     \/ rtc = "cleaning" /\ Goto(t, "recordTimeout")
     \/ rtc = "deferred" /\ Goto(t, IF pc[t] = "poll" THEN "recordTimeout"
                                                     ELSE "recordFailure")
  /\ UNCHANGED <<sharedVars, kind, obj, preloadAttempted, rtc, allocated>>

\* completeCleanupFuture: get() rethrows what the cleanup threw, of which
\* again only the text is looked at.
FinishCleanup(t) ==
  /\ pc[t] \in {"finishCleanup", "finishPoll"}
  /\ \/ /\ rtc = "cleaned" \/ QuietThrows
        /\ future' = FALSE
        /\ phase' = "Unloaded"
        /\ Goto(t, IF pc[t] = "finishPoll" THEN "reload" ELSE "idle")
     \/ /\ rtc = "failed"
        /\ phase' = "CleanupFailed"
        /\ Goto(t, "idle")
        /\ UNCHANGED future
  /\ UNCHANGED <<live, loggerAttached, registered, kind, obj, preloadAttempted,
                 rtc, allocated>>

\* Mutant: a cleanup that timed out is taken for finished.
ForgetTimeout == "Unloaded"

AfterTimeout == "CleanupTimedOut"

RecordOutcome(t) ==
  /\ \/ pc[t] = "recordTimeout" /\ phase' = AfterTimeout
     \/ pc[t] = "recordFailure" /\ phase' = "CleanupFailed"
  /\ Goto(t, "idle")
  /\ UNCHANGED <<live, future, loggerAttached, registered, kind, obj,
                 preloadAttempted, rtc, allocated>>

\* libdatachannel finishes tearing down its global state, or throws.
RtcCleanupEnds ==
  /\ rtc = "cleaning"
  /\ rtc' \in {"cleaned", "failed"}
  /\ UNCHANGED <<sharedVars, localVars, allocated>>
-----------------------------------------------------------------------------
(* What a thread does once it is inside a call. *)
Continue(t) ==
  \/ pc[t] = "reload" /\ LoadEntry(t)
  \/ ReloadRefused(t)
  \/ AttachLogger(t) \/ RecordLogger(t) \/ PreloadRtc(t) \/ CommitLoad(t)
  \/ RollbackDetach(t) \/ RollbackCommit(t)
  \/ UnloadDetach(t) \/ CommitUnload(t)
  \/ CreatorReturns(t) \/ RegisterInstance(t)
  \/ DestroyerReturns(t) \/ ReleaseInstance(t)
  \/ BeginRtcCleanup(t) \/ StoreFuture(t) \/ TakeTimedOutFuture(t)
  \/ WaitForCleanup(t) \/ FinishCleanup(t) \/ RecordOutcome(t)

(* What OBS may ask of an idle thread. *)
Call(t) ==
  \/ pc[t] = "idle" /\ LoadEntry(t)
  \/ UnloadEntry(t)
  \/ \E k \in Kinds : CreateEntry(t, k)
  \/ \E k \in Kinds, a \in Addresses : DestroyEntry(t, k, a)

Next ==
  \/ RtcCleanupEnds
  \/ \E t \in Threads : Call(t) \/ Continue(t)

Spec == Init /\ [][Next]_vars

(* Every external call returns and every thread keeps running, and OBS     *)
(* destroys the instances it still has once the module is being unloaded.  *)
DestroySome ==
  /\ phase \in {"Unloading", "UnloadPending"}
  /\ \E t \in Threads, k \in Kinds, a \in Addresses : DestroyEntry(t, k, a)

Fairness ==
  /\ \A t \in Threads : WF_vars(Continue(t))
  /\ WF_vars(DestroySome)

FairSpec == Spec /\ Fairness
-----------------------------------------------------------------------------
\* Every variable has its type.
TypeOK ==
  /\ phase \in Phases
  /\ live \in [Kinds -> Nat]
  /\ future \in BOOLEAN /\ loggerAttached \in BOOLEAN
  /\ registered \in [Kinds -> SUBSET Addresses]
  /\ pc \in [Threads -> Steps]
  /\ kind \in [Threads -> Kinds \cup {None}]
  /\ obj \in [Threads -> Addresses \cup {None}]
  /\ preloadAttempted \in [Threads -> BOOLEAN]
  /\ rtc \in RtcStates
  /\ allocated \subseteq Addresses

(* The threads inside a create or destroy of kind k, permit in hand. *)
Holders(k) == {t \in Threads : pc[t] \in PermitSteps /\ kind[t] = k}

(* The permits counted under mutex_ are those of the registered instances  *)
(* and of the creates and destroys in progress, though the two classes     *)
(* never hold both mutexes: create takes its permit before it registers,   *)
(* destroy unregisters before it gives its permit back.                    *)
PermitAccounting ==
  \A k \in Kinds : live[k] = Cardinality(registered[k]) + Cardinality(Holders(k))

(* An instance exists, or OBS code that makes or destroys one is running. *)
InUse ==
  \/ allocated # {}
  \/ \E t \in Threads : pc[t] \in {"creator", "rollbackDestroy", "destroyer"}

(* The abstract runtime behind the phases and the permits. *)
RuntimeState ==
  CASE phase = "Unloaded" -> "down"
    [] phase = "Loading" -> "starting"
    [] phase = "Loaded" -> "up"
    [] phase \in {"Unloading", "UnloadPending"} -> "draining"
    [] phase \in {"Cleaning", "CleanupTimedOut"} -> "cleaning"
    [] phase = "CleanupFailed" -> "lost"

Runtime == INSTANCE RtcRuntime WITH state <- RuntimeState, inUse <- InUse

(* The lifecycle implements RtcRuntime: no unload, failed load, timeout or *)
(* reload, in any interleaving with creates and destroys, takes RTC down   *)
(* under an instance or starts it over an unfinished cleanup.              *)
ImplementsRuntime == Runtime!Spec

(* Every instance, and every OBS callback that makes or destroys one, runs *)
(* while libdatachannel is initialised: preloaded and not being torn down. *)
InstancesRunOnLiveRtc == InUse => rtc = "on"

(* At most one thread at a time is between the start and the end of a load *)
(* or a cleanup; so operations_ are never entered by two threads at once,  *)
(* and the cleanup never overlaps a logger attach or detach.               *)
OneTransition ==
  \A t, u \in Threads :
    /\ pc[t] \in LoadSteps \cup UnloadSteps \cup CleanupSteps
    /\ pc[u] \in LoadSteps \cup UnloadSteps \cup CleanupSteps
    => t = u

(* A load is under way only when the cleanup of the load before it ended   *)
(* and succeeded, however late that was: the timeout of unload gives up    *)
(* waiting, it does not give up the cleanup.                               *)
LoadAfterCleanup ==
  \A t \in Threads : pc[t] \in LoadSteps => rtc \notin {"cleaning", "deferred", "failed"}

(* A destroy callback is never given an instance twice: it still exists    *)
(* and no other thread has it, whatever destroys and creates overlap, even *)
(* when a create returned an instance of another.                          *)
DestroyedOnce ==
  \A t \in Threads : pc[t] \in {"destroyer", "rollbackDestroy"} =>
    /\ obj[t] \in allocated
    /\ \A k \in Kinds : obj[t] \notin registered[k]
    /\ \A u \in Threads \ {t} : obj[u] = obj[t] => pc[u] = "release"

(* One thread at a time takes the module from phase to phase, and one      *)
(* thread at a time destroys an instance, whatever loads, unloads,         *)
(* creates, destroys and releases overlap.                                 *)
OneAtATime == OneTransition /\ DestroyedOnce

(* A cleanup that failed blocks every later load (the test                 *)
(* CleanupFailureIsReportedAndPermanentlyBlocksUnsafeReload).              *)
FailedCleanupBlocksLoad == [][rtc = "failed" => phase' # "Loading"]_vars

(* Once unload has begun and OBS destroys what it made, the cleanup comes: *)
(* neither unload nor the last release may each leave it to the other.     *)
UnloadReachesCleanup ==
  phase = "Unloading" ~> phase \in {"Unloaded", "CleanupTimedOut", "CleanupFailed"}
=============================================================================
