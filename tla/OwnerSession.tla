----------------------------- MODULE OwnerSession -----------------------------
(***************************************************************************)
(* PeerManagerOwnerSession: how the callbacks of libdatachannel and of the *)
(* signaling client reach a VDONinjaPeerManager that its owner may destroy *)
(* at any time.                                                            *)
(*                                                                         *)
(* A callback works on the manager only under a permit.  Every completion  *)
(* function that the manager installs in another object is registered with *)
(* the session, together with a way to detach it again.  The destructor    *)
(* closes both doors, waits for the permits, and detaches what was         *)
(* registered; a function whose registration comes too late is detached by *)
(* whoever installed it.                                                   *)
(*                                                                         *)
(* Each action is one critical section of workMutex_ or functionMutex_, or *)
(* one call into the object a function is installed in.  What a callback   *)
(* does with the manager is left out, except that it installs functions.   *)
(***************************************************************************)
EXTENDS Naturals, FiniteSets

CONSTANTS
  CallbackThreads,     \* the threads that run callbacks
  Functions,   \* the completion functions
  Copied,      \* those that the signaling client calls from a copy
  NoFunction

ASSUME CallbackThreadsFinite == IsFiniteSet(CallbackThreads)
ASSUME NoneIsNoFunction == NoFunction \notin Functions
ASSUME CopiedAreFunctions == Copied \subseteq Functions

VARIABLES
  \* guarded by workMutex_
  admittingWork,       \* admittingWork_
  owner,               \* owner_ is not null
  activeWork,          \* activeWork_
  \* guarded by functionMutex_
  admittingFunctions,  \* admittingFunctions_
  installedFunctions,  \* installedFunctions_
  \* the objects outside
  attached,            \* the functions installed in them
  \* each callback thread: its step, the function it runs, the one it installs
  place, running, installing,
  \* the control thread: the function it installs, or its step in the destructor
  control, own, toDetach

sessionVars == <<admittingWork, owner, activeWork, admittingFunctions, installedFunctions>>
threadVars == <<place, running, installing>>
controlVars == <<control, own, toDetach>>
ownerVars == <<sessionVars, attached, threadVars, controlVars>>

CallbackSteps == {"idle", "entered", "working", "registering", "detaching"}
ControlSteps == {"idle", "registering", "detachingOwn",
                 "closeFunctions", "wait", "detach", "release", "destroyed"}

\* The thread holds a WorkPermit.
Permitted(t) == place[t] \in {"working", "registering", "detaching"}

SessionInit ==
  /\ admittingWork = TRUE /\ owner = TRUE /\ activeWork = 0
  /\ admittingFunctions = TRUE /\ installedFunctions = {}
  /\ attached = {}
  /\ place = [t \in CallbackThreads |-> "idle"]
  /\ running = [t \in CallbackThreads |-> NoFunction]
  /\ installing = [t \in CallbackThreads |-> NoFunction]
  /\ control = "idle" /\ own = NoFunction /\ toDetach = {}

Move(t, s) == place' = [place EXCEPT ![t] = s]
-----------------------------------------------------------------------------
(* Callbacks. *)

\* libdatachannel calls a function, or replaces it, under a lock of its own.
\* The signaling client copies the function and calls the copy with no lock.
Free(f) == f \in Copied \/ \A t \in CallbackThreads : running[t] # f

\* Another object calls a function that is installed in it.
Fire(t, f) ==
  /\ place[t] = "idle"
  /\ f \in attached
  /\ Free(f)
  /\ Move(t, "entered")
  /\ running' = [running EXCEPT ![t] = f]
  /\ UNCHANGED <<sessionVars, attached, installing, controlVars>>

\* Mutant: only the owner's address is tested.
AdmitUntilDrained == owner

Counted == activeWork + 1

Admits == admittingWork /\ owner

\* acquire(): a permit, or the callback returns without touching the manager.
Acquire(t) ==
  /\ place[t] = "entered"
  /\ IF Admits
     THEN Move(t, "working") /\ activeWork' = Counted /\ UNCHANGED running
     ELSE Move(t, "idle") /\ running' = [running EXCEPT ![t] = NoFunction] /\ UNCHANGED activeWork
  /\ UNCHANGED <<admittingWork, owner, admittingFunctions, installedFunctions, attached,
                 installing, controlVars>>

Fresh(f) == f \notin attached \cup installedFunctions \cup toDetach

\* The manager, working for the callback, calls a setter of another object.
Install(t, f) ==
  /\ place[t] = "working"
  /\ Fresh(f) /\ f # own /\ \A u \in CallbackThreads : f \notin {installing[u], running[u]}
  /\ attached' = attached \cup {f}
  /\ installing' = [installing EXCEPT ![t] = f]
  /\ Move(t, "registering")
  /\ UNCHANGED <<sessionVars, running, controlVars>>

\* Mutant: a registration that comes too late is accepted.
AcceptAlways == TRUE

Accepts == admittingFunctions

\* registerInstalledFunction().  It may also throw, which is handled like a
\* registration that was refused.
Register(t) ==
  /\ place[t] = "registering"
  /\ \/ /\ Accepts
        /\ installedFunctions' = installedFunctions \cup {installing[t]}
        /\ installing' = [installing EXCEPT ![t] = NoFunction]
        /\ Move(t, "working")
     \/ /\ Move(t, "detaching")
        /\ UNCHANGED <<installedFunctions, installing>>
  /\ UNCHANGED <<admittingWork, owner, activeWork, admittingFunctions, attached, running,
                 controlVars>>

DetachOwn(t) ==
  /\ place[t] = "detaching"
  /\ Free(installing[t])
  /\ attached' = attached \ {installing[t]}
  /\ installing' = [installing EXCEPT ![t] = NoFunction]
  /\ Move(t, "working")
  /\ UNCHANGED <<sessionVars, running, controlVars>>

Release(t) ==
  /\ place[t] = "working"
  /\ activeWork' = activeWork - 1
  /\ Move(t, "idle")
  /\ running' = [running EXCEPT ![t] = NoFunction]
  /\ UNCHANGED <<admittingWork, owner, admittingFunctions, installedFunctions, attached,
                 installing, controlVars>>
-----------------------------------------------------------------------------
(* The control thread: initialize(), which needs no permit, and the        *)
(* destructor.                                                             *)

ControlInstall(f) ==
  /\ control = "idle"
  /\ Fresh(f) /\ \A t \in CallbackThreads : f \notin {installing[t], running[t]}
  /\ attached' = attached \cup {f}
  /\ own' = f
  /\ control' = "registering"
  /\ UNCHANGED <<sessionVars, threadVars, toDetach>>

ControlRegister ==
  /\ control = "registering"
  /\ \/ /\ Accepts
        /\ installedFunctions' = installedFunctions \cup {own}
        /\ own' = NoFunction
        /\ control' = "idle"
     \/ /\ control' = "detachingOwn"
        /\ UNCHANGED <<installedFunctions, own>>
  /\ UNCHANGED <<admittingWork, owner, activeWork, admittingFunctions, attached, threadVars,
                 toDetach>>

ControlDetachOwn ==
  /\ control = "detachingOwn"
  /\ Free(own)
  /\ attached' = attached \ {own}
  /\ own' = NoFunction
  /\ control' = "idle"
  /\ UNCHANGED <<sessionVars, threadVars, toDetach>>

CloseWorkAdmission ==
  /\ control = "idle"
  /\ admittingWork' = FALSE
  /\ control' = "closeFunctions"
  /\ UNCHANGED <<owner, activeWork, admittingFunctions, installedFunctions, attached, threadVars,
                 own, toDetach>>

\* closeFunctionAdmissionAndTakeDetachers()
CloseFunctionAdmission ==
  /\ control = "closeFunctions"
  /\ admittingFunctions' = FALSE
  /\ toDetach' = installedFunctions
  /\ installedFunctions' = {}
  /\ control' = "wait"
  /\ UNCHANGED <<admittingWork, owner, activeWork, attached, threadVars, own>>

\* Mutant: the destructor does not wait.
NoWait == TRUE

Drained == activeWork = 0

WaitForCurrentWork ==
  /\ control = "wait"
  /\ Drained
  /\ owner' = FALSE
  /\ control' = "detach"
  /\ UNCHANGED <<admittingWork, activeWork, admittingFunctions, installedFunctions, attached,
                 threadVars, own, toDetach>>

Detach(f) ==
  /\ control = "detach"
  /\ f \in toDetach
  /\ Free(f)
  /\ attached' = attached \ {f}
  /\ toDetach' = toDetach \ {f}
  /\ UNCHANGED <<sessionVars, threadVars, control, own>>

\* The subscribers and the peers are released after that.
Destroy ==
  /\ control = "detach"
  /\ toDetach = {}
  /\ control' = "destroyed"
  /\ UNCHANGED <<sessionVars, attached, threadVars, own, toDetach>>
-----------------------------------------------------------------------------
Callback(t) ==
  \/ Acquire(t) \/ Register(t) \/ DetachOwn(t) \/ Release(t)
  \/ \E f \in Functions : Install(t, f)

Control ==
  \/ ControlRegister \/ ControlDetachOwn \/ CloseWorkAdmission \/ CloseFunctionAdmission
  \/ WaitForCurrentWork \/ Destroy
  \/ \E f \in Functions : ControlInstall(f) \/ Detach(f)

SessionNext ==
  \/ \E t \in CallbackThreads : Callback(t) \/ \E f \in Functions : Fire(t, f)
  \/ Control

SessionSpec == SessionInit /\ [][SessionNext]_ownerVars

\* The threads are scheduled, a setter that waits for the callbacks of its
\* object gets its turn, and a callback installs only so many functions before
\* it returns.  Nothing makes an object call a function, or the
\* manager install one.
SessionFairness ==
  /\ \A t \in CallbackThreads : /\ WF_ownerVars(Acquire(t) \/ Register(t))
                        /\ SF_ownerVars(DetachOwn(t)) /\ SF_ownerVars(Release(t))
  /\ WF_ownerVars(ControlRegister \/ CloseFunctionAdmission \/ WaitForCurrentWork \/ Destroy)
  /\ SF_ownerVars(ControlDetachOwn)
  /\ \A f \in Functions : SF_ownerVars(Detach(f))

SessionFairSpec == SessionSpec /\ SessionFairness
-----------------------------------------------------------------------------
(* Properties. *)

\* Every variable has its type.
SessionTypeOK ==
  /\ admittingWork \in BOOLEAN /\ owner \in BOOLEAN /\ admittingFunctions \in BOOLEAN
  /\ activeWork \in Nat
  /\ installedFunctions \subseteq Functions
  /\ toDetach \subseteq Functions
  /\ attached \subseteq Functions
  /\ place \in [CallbackThreads -> CallbackSteps]
  /\ running \in [CallbackThreads -> Functions \cup {NoFunction}]
  /\ installing \in [CallbackThreads -> Functions \cup {NoFunction}]
  /\ control \in ControlSteps
  /\ own \in Functions \cup {NoFunction}

\* The destructor is past the wait for the permits.
TearingDown == control \in {"detach", "destroyed"}

\* No callback works on a manager whose subscribers and peers are being
\* released: ~VDONinjaPeerManager waits for every permit.
NoWorkDuringTeardown == TearingDown => \A t \in CallbackThreads : ~ Permitted(t)

\* When the destructor is done, no object holds a completion function of the
\* manager any more, whenever it was installed.
NothingLeftAttached == control = "destroyed" => attached = {}

\* The destructor ends, whatever the callbacks are doing when it begins.
DestructorEnds == control = "closeFunctions" ~> control = "destroyed"
=============================================================================
