-------------------------- MODULE OwnerSessionProofs --------------------------
(***************************************************************************)
(* Theorems about OwnerSession, for any finite set of threads and any set  *)
(* of completion functions.                                                *)
(*                                                                         *)
(* The argument: the count of permits is the number of threads that hold   *)
(* one (Accounted), so the destructor's wait ends only when nobody works   *)
(* on the manager, and the closed admission keeps it that way (Doors).     *)
(* Every function that is attached anywhere is registered, about to be     *)
(* detached by the destructor, or in the hands of the thread that          *)
(* installed it (Traced); at the end of the destructor none of those is    *)
(* left.                                                                   *)
(***************************************************************************)
EXTENDS OwnerSession, FiniteSetTheorems, TLAPS

Holders == {t \in CallbackThreads : Permitted(t)}

\* activeWork_ counts the threads that hold a permit.
Accounted == activeWork = Cardinality(Holders)

\* What the destructor has closed stays closed.
Doors ==
  /\ control \in {"closeFunctions", "wait", "detach", "destroyed"} => ~ admittingWork
  /\ control \in {"wait", "detach", "destroyed"} =>
       ~ admittingFunctions /\ installedFunctions = {}
  /\ TearingDown => ~ owner /\ Holders = {}
  /\ control \notin {"wait", "detach"} => toDetach = {}

\* Somebody knows of every attached function.
Traced ==
  /\ \A f \in attached : \/ f \in installedFunctions \cup toDetach
                         \/ f = own
                         \/ \E t \in CallbackThreads : f = installing[t]
  /\ \A t \in CallbackThreads : installing[t] # NoFunction <=> place[t] \in {"registering", "detaching"}
  /\ own # NoFunction <=> control \in {"registering", "detachingOwn"}

IInv == SessionTypeOK /\ Accounted /\ Doors /\ Traced
-----------------------------------------------------------------------------
LEMMA HoldersFinite == IsFiniteSet(Holders) /\ Cardinality(Holders) \in Nat
BY CallbackThreadsFinite, FS_Subset, FS_CardinalityType DEF Holders

\* A thread that gets a permit is one more holder.
LEMMA HolderAdded ==
  ASSUME SessionTypeOK, NEW t \in CallbackThreads, ~ Permitted(t), place' = [place EXCEPT ![t] = "working"]
  PROVE  Cardinality(Holders') = Cardinality(Holders) + 1
<1>1. Holders' = Holders \cup {t}
  BY DEF Holders, Permitted, SessionTypeOK
<1>2. t \notin Holders
  BY DEF Holders
<1> QED BY <1>1, <1>2, HoldersFinite, FS_AddElement

\* A thread that releases its permit is one holder less.
LEMMA HolderRemoved ==
  ASSUME SessionTypeOK, NEW t \in CallbackThreads, Permitted(t), place' = [place EXCEPT ![t] = "idle"]
  PROVE  /\ Cardinality(Holders) > 0
         /\ Cardinality(Holders') = Cardinality(Holders) - 1
<1>1. Holders' = Holders \ {t}
  BY DEF Holders, Permitted, SessionTypeOK
<1>2. t \in Holders
  BY DEF Holders
<1>3. Cardinality(Holders) # 0
  BY <1>2, HoldersFinite, FS_EmptySet
<1> QED BY <1>1, <1>2, <1>3, HoldersFinite, FS_RemoveElement

\* The steps that give and take no permit.
LEMMA HoldersKept ==
  ASSUME \A t \in CallbackThreads : Permitted(t)' <=> Permitted(t)
  PROVE  Holders' = Holders
BY DEF Holders
-----------------------------------------------------------------------------
\* What each part of the invariant needs of the others to survive a step.
LEMMA TypeStep ==
  ASSUME IInv, [SessionNext]_ownerVars
  PROVE  SessionTypeOK'
<1> USE DEF IInv, SessionTypeOK, Traced, CallbackSteps, ControlSteps
<1>1. ASSUME NEW t \in CallbackThreads, Acquire(t) PROVE SessionTypeOK'
  BY <1>1 DEF Acquire, Move, Counted, controlVars
<1>2. ASSUME NEW t \in CallbackThreads, Register(t) PROVE SessionTypeOK'
  BY <1>2 DEF Register, Move, sessionVars, threadVars, controlVars
<1>3. ASSUME NEW t \in CallbackThreads, DetachOwn(t) PROVE SessionTypeOK'
  BY <1>3 DEF DetachOwn, Move, sessionVars, threadVars, controlVars
<1>4. ASSUME NEW t \in CallbackThreads, Release(t) PROVE SessionTypeOK'
  <2>1. Cardinality(Holders) > 0
    BY <1>4, HolderRemoved DEF Release, Move, Permitted
  <2>2. activeWork - 1 \in Nat
    BY <2>1, HoldersFinite DEF Accounted
  <2> QED BY <1>4, <2>2 DEF Release, Move, controlVars
<1>5. ASSUME NEW t \in CallbackThreads, NEW f \in Functions, Install(t, f) PROVE SessionTypeOK'
  BY <1>5, NoneIsNoFunction DEF Install, Move, sessionVars, threadVars, controlVars
<1>6. ASSUME NEW t \in CallbackThreads, NEW f \in Functions, Fire(t, f) PROVE SessionTypeOK'
  BY <1>6 DEF Fire, Move, sessionVars, threadVars, controlVars
<1>7. ASSUME ControlRegister PROVE SessionTypeOK'
  BY <1>7 DEF ControlRegister, Move, sessionVars, threadVars, controlVars
<1>8. ASSUME ControlDetachOwn PROVE SessionTypeOK'
  BY <1>8 DEF ControlDetachOwn, Move, sessionVars, threadVars, controlVars
<1>9. ASSUME CloseWorkAdmission PROVE SessionTypeOK'
  BY <1>9 DEF CloseWorkAdmission, Move, sessionVars, threadVars, controlVars
<1>10. ASSUME CloseFunctionAdmission PROVE SessionTypeOK'
  BY <1>10 DEF CloseFunctionAdmission, Move, sessionVars, threadVars, controlVars
<1>11. ASSUME WaitForCurrentWork PROVE SessionTypeOK'
  BY <1>11 DEF WaitForCurrentWork, Move, sessionVars, threadVars, controlVars
<1>12. ASSUME Destroy PROVE SessionTypeOK'
  BY <1>12 DEF Destroy, Move, sessionVars, threadVars, controlVars
<1>13. ASSUME NEW f \in Functions, ControlInstall(f) PROVE SessionTypeOK'
  BY <1>13, NoneIsNoFunction DEF ControlInstall, Move, sessionVars, threadVars, controlVars
<1>14. ASSUME NEW f \in Functions, Detach(f) PROVE SessionTypeOK'
  BY <1>14 DEF Detach, Move, sessionVars, threadVars, controlVars
<1>15. ASSUME UNCHANGED ownerVars PROVE SessionTypeOK'
  BY <1>15 DEF ownerVars, sessionVars, threadVars, controlVars
<1> QED BY <1>1, <1>2, <1>3, <1>4, <1>5, <1>6, <1>7, <1>8, <1>9, <1>10, <1>11, <1>12, <1>13, <1>14, <1>15 DEF SessionNext, Callback, Control

LEMMA AccountedStep ==
  ASSUME IInv, [SessionNext]_ownerVars
  PROVE  Accounted'
<1> USE DEF IInv, SessionTypeOK, Accounted
<1>1. ASSUME NEW t \in CallbackThreads, Acquire(t) PROVE Accounted'
  <2>1. CASE Admits
    <3>1. Cardinality(Holders') = Cardinality(Holders) + 1
      BY <1>1, <2>1, HolderAdded DEF Acquire, Move, Permitted
    <3> QED BY <1>1, <2>1, <3>1 DEF Acquire, Counted
  <2>2. CASE ~ Admits
    <3>1. Holders' = Holders
      BY <1>1, <2>2, HoldersKept DEF Acquire, Move, Permitted
    <3> QED BY <1>1, <2>2, <3>1 DEF Acquire
  <2> QED BY <2>1, <2>2
<1>2. ASSUME NEW t \in CallbackThreads, Register(t) PROVE Accounted'
  <2>1. Holders' = Holders
    BY <1>2, HoldersKept DEF Register, Move, Permitted, sessionVars, threadVars, controlVars
  <2> QED BY <1>2, <2>1 DEF Register, sessionVars, threadVars, controlVars
<1>3. ASSUME NEW t \in CallbackThreads, DetachOwn(t) PROVE Accounted'
  <2>1. Holders' = Holders
    BY <1>3, HoldersKept DEF DetachOwn, Move, Permitted, sessionVars, threadVars, controlVars
  <2> QED BY <1>3, <2>1 DEF DetachOwn, sessionVars, threadVars, controlVars
<1>4. ASSUME NEW t \in CallbackThreads, Release(t) PROVE Accounted'
  <2>1. Cardinality(Holders') = Cardinality(Holders) - 1
    BY <1>4, HolderRemoved DEF Release, Move, Permitted
  <2> QED BY <1>4, <2>1 DEF Release
<1>5. ASSUME NEW t \in CallbackThreads, NEW f \in Functions, Install(t, f) PROVE Accounted'
  <2>1. Holders' = Holders
    BY <1>5, HoldersKept DEF Install, Move, Permitted, sessionVars, threadVars, controlVars
  <2> QED BY <1>5, <2>1 DEF Install, sessionVars, threadVars, controlVars
<1>6. ASSUME NEW t \in CallbackThreads, NEW f \in Functions, Fire(t, f) PROVE Accounted'
  <2>1. Holders' = Holders
    BY <1>6, HoldersKept DEF Fire, Move, Permitted, sessionVars, threadVars, controlVars
  <2> QED BY <1>6, <2>1 DEF Fire, sessionVars, threadVars, controlVars
<1>7. ASSUME ControlRegister PROVE Accounted'
  <2>1. Holders' = Holders
    BY <1>7, HoldersKept DEF ControlRegister, Move, Permitted, sessionVars, threadVars, controlVars
  <2> QED BY <1>7, <2>1 DEF ControlRegister, sessionVars, threadVars, controlVars
<1>8. ASSUME ControlDetachOwn PROVE Accounted'
  <2>1. Holders' = Holders
    BY <1>8, HoldersKept DEF ControlDetachOwn, Move, Permitted, sessionVars, threadVars, controlVars
  <2> QED BY <1>8, <2>1 DEF ControlDetachOwn, sessionVars, threadVars, controlVars
<1>9. ASSUME CloseWorkAdmission PROVE Accounted'
  <2>1. Holders' = Holders
    BY <1>9, HoldersKept DEF CloseWorkAdmission, Move, Permitted, sessionVars, threadVars, controlVars
  <2> QED BY <1>9, <2>1 DEF CloseWorkAdmission, sessionVars, threadVars, controlVars
<1>10. ASSUME CloseFunctionAdmission PROVE Accounted'
  <2>1. Holders' = Holders
    BY <1>10, HoldersKept DEF CloseFunctionAdmission, Move, Permitted, sessionVars, threadVars, controlVars
  <2> QED BY <1>10, <2>1 DEF CloseFunctionAdmission, sessionVars, threadVars, controlVars
<1>11. ASSUME WaitForCurrentWork PROVE Accounted'
  <2>1. Holders' = Holders
    BY <1>11, HoldersKept DEF WaitForCurrentWork, Move, Permitted, sessionVars, threadVars, controlVars
  <2> QED BY <1>11, <2>1 DEF WaitForCurrentWork, sessionVars, threadVars, controlVars
<1>12. ASSUME Destroy PROVE Accounted'
  <2>1. Holders' = Holders
    BY <1>12, HoldersKept DEF Destroy, Move, Permitted, sessionVars, threadVars, controlVars
  <2> QED BY <1>12, <2>1 DEF Destroy, sessionVars, threadVars, controlVars
<1>13. ASSUME NEW f \in Functions, ControlInstall(f) PROVE Accounted'
  <2>1. Holders' = Holders
    BY <1>13, HoldersKept DEF ControlInstall, Move, Permitted, sessionVars, threadVars, controlVars
  <2> QED BY <1>13, <2>1 DEF ControlInstall, sessionVars, threadVars, controlVars
<1>14. ASSUME NEW f \in Functions, Detach(f) PROVE Accounted'
  <2>1. Holders' = Holders
    BY <1>14, HoldersKept DEF Detach, Move, Permitted, sessionVars, threadVars, controlVars
  <2> QED BY <1>14, <2>1 DEF Detach, sessionVars, threadVars, controlVars
<1>15. ASSUME UNCHANGED ownerVars PROVE Accounted'
  <2>1. Holders' = Holders
    BY <1>15, HoldersKept DEF ownerVars, threadVars, Permitted
  <2> QED BY <1>15, <2>1 DEF ownerVars, sessionVars, controlVars
<1> QED BY <1>1, <1>2, <1>3, <1>4, <1>5, <1>6, <1>7, <1>8, <1>9, <1>10, <1>11, <1>12, <1>13, <1>14, <1>15 DEF SessionNext, Callback, Control

LEMMA DoorsStep ==
  ASSUME IInv, [SessionNext]_ownerVars
  PROVE  Doors'
<1> USE DEF IInv, SessionTypeOK, Accounted, Doors, TearingDown
<1>1. ASSUME NEW t \in CallbackThreads, Acquire(t) PROVE Doors'
  <2>1. CASE Admits
    <3>1. ~ TearingDown
      BY <2>1 DEF Admits
    <3> QED BY <1>1, <2>1, <3>1 DEF Acquire, controlVars, TearingDown
  <2>2. CASE ~ Admits
    <3>1. Holders' = Holders
      BY <1>1, <2>2, HoldersKept DEF Acquire, Move, Permitted
    <3> QED BY <1>1, <2>2, <3>1 DEF Acquire, controlVars
  <2> QED BY <2>1, <2>2
<1>2. ASSUME NEW t \in CallbackThreads, Register(t) PROVE Doors'
  <2>1. Holders' = Holders
    BY <1>2, HoldersKept DEF Register, Move, Permitted, sessionVars, threadVars, controlVars
  <2> QED BY <1>2, <2>1 DEF Register, Accepts, sessionVars, threadVars, controlVars
<1>3. ASSUME NEW t \in CallbackThreads, DetachOwn(t) PROVE Doors'
  <2>1. Holders' = Holders
    BY <1>3, HoldersKept DEF DetachOwn, Move, Permitted, sessionVars, threadVars, controlVars
  <2> QED BY <1>3, <2>1 DEF DetachOwn, sessionVars, threadVars, controlVars
<1>4. ASSUME NEW t \in CallbackThreads, Release(t) PROVE Doors'
  <2>1. ~ TearingDown
    BY <1>4 DEF Release, Holders, Permitted
  <2> QED BY <1>4, <2>1 DEF Release, controlVars, TearingDown
<1>5. ASSUME NEW t \in CallbackThreads, NEW f \in Functions, Install(t, f) PROVE Doors'
  <2>1. Holders' = Holders
    BY <1>5, HoldersKept DEF Install, Move, Permitted, sessionVars, threadVars, controlVars
  <2> QED BY <1>5, <2>1 DEF Install, sessionVars, threadVars, controlVars
<1>6. ASSUME NEW t \in CallbackThreads, NEW f \in Functions, Fire(t, f) PROVE Doors'
  <2>1. Holders' = Holders
    BY <1>6, HoldersKept DEF Fire, Move, Permitted, sessionVars, threadVars, controlVars
  <2> QED BY <1>6, <2>1 DEF Fire, sessionVars, threadVars, controlVars
<1>7. ASSUME ControlRegister PROVE Doors'
  <2>1. Holders' = Holders
    BY <1>7, HoldersKept DEF ControlRegister, Move, Permitted, sessionVars, threadVars, controlVars
  <2> QED BY <1>7, <2>1 DEF ControlRegister, Accepts, sessionVars, threadVars, controlVars
<1>8. ASSUME ControlDetachOwn PROVE Doors'
  <2>1. Holders' = Holders
    BY <1>8, HoldersKept DEF ControlDetachOwn, Move, Permitted, sessionVars, threadVars, controlVars
  <2> QED BY <1>8, <2>1 DEF ControlDetachOwn, sessionVars, threadVars, controlVars
<1>9. ASSUME CloseWorkAdmission PROVE Doors'
  <2>1. Holders' = Holders
    BY <1>9, HoldersKept DEF CloseWorkAdmission, Move, Permitted, sessionVars, threadVars, controlVars
  <2> QED BY <1>9, <2>1 DEF CloseWorkAdmission, sessionVars, threadVars, controlVars
<1>10. ASSUME CloseFunctionAdmission PROVE Doors'
  <2>1. Holders' = Holders
    BY <1>10, HoldersKept DEF CloseFunctionAdmission, Move, Permitted, sessionVars, threadVars, controlVars
  <2> QED BY <1>10, <2>1 DEF CloseFunctionAdmission, sessionVars, threadVars, controlVars
<1>11. ASSUME WaitForCurrentWork PROVE Doors'
  <2>1. Holders = {}
    BY <1>11, HoldersFinite, FS_EmptySet DEF WaitForCurrentWork, Drained
  <2>2. Holders' = Holders
    BY <1>11, HoldersKept DEF WaitForCurrentWork, Permitted, threadVars
  <2> QED BY <1>11, <2>1, <2>2 DEF WaitForCurrentWork
<1>12. ASSUME Destroy PROVE Doors'
  <2>1. Holders' = Holders
    BY <1>12, HoldersKept DEF Destroy, Move, Permitted, sessionVars, threadVars, controlVars
  <2> QED BY <1>12, <2>1 DEF Destroy, sessionVars, threadVars, controlVars
<1>13. ASSUME NEW f \in Functions, ControlInstall(f) PROVE Doors'
  <2>1. Holders' = Holders
    BY <1>13, HoldersKept DEF ControlInstall, Move, Permitted, sessionVars, threadVars, controlVars
  <2> QED BY <1>13, <2>1 DEF ControlInstall, sessionVars, threadVars, controlVars
<1>14. ASSUME NEW f \in Functions, Detach(f) PROVE Doors'
  <2>1. Holders' = Holders
    BY <1>14, HoldersKept DEF Detach, Move, Permitted, sessionVars, threadVars, controlVars
  <2> QED BY <1>14, <2>1 DEF Detach, sessionVars, threadVars, controlVars
<1>15. ASSUME UNCHANGED ownerVars PROVE Doors'
  <2>1. Holders' = Holders
    BY <1>15, HoldersKept DEF ownerVars, threadVars, Permitted
  <2> QED BY <1>15, <2>1 DEF ownerVars, sessionVars, controlVars
<1> QED BY <1>1, <1>2, <1>3, <1>4, <1>5, <1>6, <1>7, <1>8, <1>9, <1>10, <1>11, <1>12, <1>13, <1>14, <1>15 DEF SessionNext, Callback, Control

LEMMA TracedStep ==
  ASSUME IInv, [SessionNext]_ownerVars
  PROVE  Traced'
<1> USE DEF IInv, SessionTypeOK, Doors, Traced
<1>1. ASSUME NEW t \in CallbackThreads, Acquire(t) PROVE Traced'
  BY <1>1 DEF Acquire, Move, sessionVars, threadVars, controlVars
<1>2. ASSUME NEW t \in CallbackThreads, Register(t) PROVE Traced'
  BY <1>2 DEF Register, Move, sessionVars, threadVars, controlVars
<1>3. ASSUME NEW t \in CallbackThreads, DetachOwn(t) PROVE Traced'
  BY <1>3 DEF DetachOwn, Move, sessionVars, threadVars, controlVars
<1>4. ASSUME NEW t \in CallbackThreads, Release(t) PROVE Traced'
  BY <1>4 DEF Release, Move, sessionVars, threadVars, controlVars
<1>5. ASSUME NEW t \in CallbackThreads, NEW f \in Functions, Install(t, f) PROVE Traced'
  BY <1>5, NoneIsNoFunction DEF Install, Move, sessionVars, threadVars, controlVars
<1>6. ASSUME NEW t \in CallbackThreads, NEW f \in Functions, Fire(t, f) PROVE Traced'
  BY <1>6 DEF Fire, Move, sessionVars, threadVars, controlVars
<1>7. ASSUME ControlRegister PROVE Traced'
  BY <1>7 DEF ControlRegister, Move, sessionVars, threadVars, controlVars
<1>8. ASSUME ControlDetachOwn PROVE Traced'
  BY <1>8 DEF ControlDetachOwn, Move, sessionVars, threadVars, controlVars
<1>9. ASSUME CloseWorkAdmission PROVE Traced'
  BY <1>9 DEF CloseWorkAdmission, Move, sessionVars, threadVars, controlVars
<1>10. ASSUME CloseFunctionAdmission PROVE Traced'
  BY <1>10 DEF CloseFunctionAdmission, Move, sessionVars, threadVars, controlVars
<1>11. ASSUME WaitForCurrentWork PROVE Traced'
  BY <1>11 DEF WaitForCurrentWork, Move, sessionVars, threadVars, controlVars
<1>12. ASSUME Destroy PROVE Traced'
  BY <1>12 DEF Destroy, Move, sessionVars, threadVars, controlVars
<1>13. ASSUME NEW f \in Functions, ControlInstall(f) PROVE Traced'
  BY <1>13, NoneIsNoFunction DEF ControlInstall, Move, sessionVars, threadVars, controlVars
<1>14. ASSUME NEW f \in Functions, Detach(f) PROVE Traced'
  BY <1>14 DEF Detach, Move, sessionVars, threadVars, controlVars
<1>15. ASSUME UNCHANGED ownerVars PROVE Traced'
  BY <1>15 DEF ownerVars, sessionVars, threadVars, controlVars
<1> QED BY <1>1, <1>2, <1>3, <1>4, <1>5, <1>6, <1>7, <1>8, <1>9, <1>10, <1>11, <1>12, <1>13, <1>14, <1>15 DEF SessionNext, Callback, Control

LEMMA InvariantStep == IInv /\ [SessionNext]_ownerVars => IInv'
BY TypeStep, AccountedStep, DoorsStep, TracedStep DEF IInv

LEMMA InvariantInit == SessionInit => IInv
<1> SUFFICES ASSUME SessionInit PROVE IInv
  OBVIOUS
<1>1. Holders = {}
  BY DEF SessionInit, Holders, Permitted
<1>2. Accounted
  BY <1>1, FS_EmptySet DEF SessionInit, Accounted
<1> QED BY <1>1, <1>2 DEF SessionInit, IInv, SessionTypeOK, Doors, Traced, TearingDown, CallbackSteps, ControlSteps

LEMMA Invariant == SessionSpec => []IInv
<1>1. SessionInit => IInv
  BY InvariantInit
<1>2. IInv /\ [SessionNext]_ownerVars => IInv'
  BY InvariantStep
<1> QED BY <1>1, <1>2, PTL DEF SessionSpec
-----------------------------------------------------------------------------
\* The type invariant, for any set of callbacks and functions.
THEOREM TypeCorrect == SessionSpec => []SessionTypeOK
<1>1. IInv => SessionTypeOK
  BY DEF IInv
<1> QED BY <1>1, Invariant, PTL

\* ~VDONinjaPeerManager releases its subscribers and peers only when no
\* callback works on the manager, and none can begin to.
THEOREM TeardownAlone == SessionSpec => []NoWorkDuringTeardown
<1>1. IInv => NoWorkDuringTeardown
  BY DEF IInv, Doors, NoWorkDuringTeardown, Holders
<1> QED BY <1>1, Invariant, PTL

\* The destructor leaves no completion function attached, in whatever order the
\* installations of other threads and its own steps happen.
THEOREM AllDetached == SessionSpec => []NothingLeftAttached
<1>1. IInv => NothingLeftAttached
  <2> SUFFICES ASSUME IInv, control = "destroyed", NEW f \in attached
               PROVE  FALSE
    BY DEF NothingLeftAttached
  <2>1. f # NoFunction
    BY NoneIsNoFunction DEF IInv, SessionTypeOK
  <2>2. \A t \in CallbackThreads : ~ Permitted(t)
    BY DEF IInv, Doors, TearingDown, Holders
  <2>3. \A t \in CallbackThreads : installing[t] = NoFunction
    BY <2>2 DEF IInv, Traced, Permitted
  <2> QED BY <2>1, <2>3 DEF IInv, Doors, Traced
<1> QED BY <1>1, Invariant, PTL
===============================================================================
