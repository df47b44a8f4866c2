------------------------ MODULE ModuleLifecycleProofs ------------------------
(***************************************************************************)
(* Theorems about ModuleLifecycle, for every finite set of threads and     *)
(* addresses and every set of instance kinds.                              *)
(***************************************************************************)
EXTENDS ModuleLifecycle, FiniteSetTheorems, TLAPS

(* A thread with a permit knows its kind, and one that passes an instance  *)
(* on knows its address.                                                   *)
LocalsOK ==
  \A t \in Threads :
    /\ pc[t] \in PermitSteps => kind[t] \in Kinds
    /\ pc[t] \in {"register", "rollbackDestroy", "destroyer"} => obj[t] \in Addresses

(* The phase says which kind of transition a thread may be inside.         *)
PhaseOwner ==
  \A t \in Threads :
    /\ pc[t] \in LoadSteps => phase = "Loading"
    /\ pc[t] \in UnloadSteps => phase = "Unloading"
    /\ pc[t] \in CleanupSteps => phase = "Cleaning"

(* No permit is out in the phases in which RTC is not up.                  *)
Drained ==
  phase \notin {"Loaded", "Unloading", "UnloadPending"} => NoLiveInstances(live)

Control == TypeOK /\ LocalsOK /\ PhaseOwner /\ OneTransition /\ Drained

(* Init establishes the control invariant. *)
LEMMA ControlInit == Init => Control
<1> SUFFICES ASSUME Init PROVE Control
  OBVIOUS
<1>1. TypeOK
  BY DEF Init, TypeOK, Phases, RtcStates, Steps
<1>2. LocalsOK /\ PhaseOwner /\ OneTransition
  BY DEF Init, LocalsOK, PhaseOwner, OneTransition, LoadSteps, UnloadSteps,
     CleanupSteps, PermitSteps
<1>3. Drained
  BY DEF Init, Drained, NoLiveInstances
<1> QED BY <1>1, <1>2, <1>3 DEF Control

(* Every step preserves the control invariant. *)
LEMMA ControlStep == Control /\ [Next]_vars => Control'
<1> SUFFICES ASSUME Control, [Next]_vars PROVE Control'
  OBVIOUS
<1> USE DEF Control, TypeOK, LocalsOK, PhaseOwner, OneTransition, Drained,
      NoLiveInstances, Phases, RtcStates, sharedVars, localVars, Steps,
      LoadSteps, UnloadSteps, CleanupSteps, PermitSteps
<1>1. CASE RtcCleanupEnds
  BY <1>1 DEF RtcCleanupEnds
<1>2. ASSUME NEW t \in Threads, LoadEntry(t)
      PROVE  Control'
  BY <1>2 DEF LoadEntry, MayStartLoading, Goto
<1>3. ASSUME NEW t \in Threads, ReloadRefused(t)
      PROVE  Control'
  BY <1>3 DEF ReloadRefused, MayStartLoading, Goto
<1>4. ASSUME NEW t \in Threads, AttachLogger(t)
      PROVE  Control'
  BY <1>4 DEF AttachLogger, ThrowTarget, Goto
<1>5. ASSUME NEW t \in Threads, RecordLogger(t)
      PROVE  Control'
  BY <1>5 DEF RecordLogger, Goto
<1>6. ASSUME NEW t \in Threads, PreloadRtc(t)
      PROVE  Control'
  BY <1>6 DEF PreloadRtc, ThrowTarget, Goto
<1>7. ASSUME NEW t \in Threads, CommitLoad(t)
      PROVE  Control'
  BY <1>7 DEF CommitLoad, Goto
<1>8. ASSUME NEW t \in Threads, RollbackDetach(t)
      PROVE  Control'
  BY <1>8 DEF RollbackDetach, Goto
<1>9. ASSUME NEW t \in Threads, RollbackCommit(t)
      PROVE  Control'
  <2>1. TypeOK'
    BY <1>9 DEF RollbackCommit, Goto, Control, TypeOK, Phases, RtcStates,
       sharedVars, localVars
  <2>2. LocalsOK'
    BY <1>9 DEF RollbackCommit, Goto, Control, TypeOK, LocalsOK, sharedVars,
       localVars
  <2>3. PhaseOwner' /\ OneTransition'
    BY <1>9 DEF RollbackCommit, Goto, Control, TypeOK, PhaseOwner,
       OneTransition, sharedVars, localVars
  <2>4. Drained'
    BY <1>9 DEF RollbackCommit, Goto, Control, TypeOK, PhaseOwner, Drained,
       NoLiveInstances
  <2> QED BY <2>1, <2>2, <2>3, <2>4 DEF Control
<1>10. ASSUME NEW t \in Threads, UnloadEntry(t)
      PROVE  Control'
  BY <1>10 DEF UnloadEntry, Goto
<1>11. ASSUME NEW t \in Threads, UnloadDetach(t)
      PROVE  Control'
  BY <1>11 DEF UnloadDetach, Goto
<1>12. ASSUME NEW t \in Threads, CommitUnload(t)
      PROVE  Control'
  <2>1. TypeOK'
    BY <1>12 DEF CommitUnload, CleanAtUnload, Goto, Control, TypeOK, Phases,
       RtcStates, sharedVars, localVars
  <2>2. LocalsOK'
    BY <1>12 DEF CommitUnload, CleanAtUnload, Goto, Control, TypeOK, LocalsOK,
       sharedVars, localVars
  <2>3. PhaseOwner' /\ OneTransition'
    BY <1>12 DEF CommitUnload, CleanAtUnload, Goto, Control, TypeOK, PhaseOwner,
       OneTransition, sharedVars, localVars
  <2>4. Drained'
    BY <1>12 DEF CommitUnload, CleanAtUnload, Goto, Control, TypeOK, PhaseOwner,
       Drained, NoLiveInstances
  <2> QED BY <2>1, <2>2, <2>3, <2>4 DEF Control
<1>13. ASSUME NEW t \in Threads, NEW k \in Kinds, CreateEntry(t, k)
      PROVE  Control'
  BY <1>13 DEF CreateEntry, Goto
<1>14. ASSUME NEW t \in Threads, CreatorReturns(t)
      PROVE  Control'
  BY <1>14 DEF CreatorReturns, AfterNullCreate, Goto
<1>15. ASSUME NEW t \in Threads, RegisterInstance(t)
      PROVE  Control'
  BY <1>15 DEF RegisterInstance, AfterDuplicate, Goto
<1>16. ASSUME NEW t \in Threads, NEW k \in Kinds, NEW a \in Addresses, DestroyEntry(t, k, a)
      PROVE  Control'
  BY <1>16 DEF DestroyEntry, Erase, Goto
<1>17. ASSUME NEW t \in Threads, DestroyerReturns(t)
      PROVE  Control'
  BY <1>17 DEF DestroyerReturns, Goto
<1>18. ASSUME NEW t \in Threads, ReleaseInstance(t)
      PROVE  Control'
  BY <1>18 DEF ReleaseInstance, LastRelease, Goto
<1>19. ASSUME NEW t \in Threads, BeginRtcCleanup(t)
      PROVE  Control'
  BY <1>19 DEF BeginRtcCleanup, Goto
<1>20. ASSUME NEW t \in Threads, StoreFuture(t)
      PROVE  Control'
  BY <1>20 DEF StoreFuture, Goto
<1>21. ASSUME NEW t \in Threads, TakeTimedOutFuture(t)
      PROVE  Control'
  BY <1>21 DEF TakeTimedOutFuture, Goto
<1>22. ASSUME NEW t \in Threads, WaitForCleanup(t)
      PROVE  Control'
  BY <1>22 DEF WaitForCleanup, Goto
<1>23. ASSUME NEW t \in Threads, FinishCleanup(t)
      PROVE  Control'
  <2>1. TypeOK'
    BY <1>23 DEF FinishCleanup, Goto, Control, TypeOK, Phases, RtcStates,
       sharedVars, localVars
  <2>2. LocalsOK'
    BY <1>23 DEF FinishCleanup, Goto, Control, TypeOK, LocalsOK, sharedVars,
       localVars
  <2>3. PhaseOwner' /\ OneTransition'
    BY <1>23 DEF FinishCleanup, Goto, Control, TypeOK, PhaseOwner,
       OneTransition, sharedVars, localVars
  <2>4. Drained'
    BY <1>23 DEF FinishCleanup, Goto, Control, TypeOK, PhaseOwner, Drained,
       NoLiveInstances
  <2> QED BY <2>1, <2>2, <2>3, <2>4 DEF Control
<1>24. ASSUME NEW t \in Threads, RecordOutcome(t)
      PROVE  Control'
  BY <1>24 DEF RecordOutcome, AfterTimeout, Goto
<1>25. CASE UNCHANGED vars
  BY <1>25 DEF vars, sharedVars, localVars
<1> QED
  BY <1>1, <1>2, <1>3, <1>4, <1>5, <1>6, <1>7, <1>8, <1>9, <1>10, <1>11, <1>12,
     <1>13, <1>14, <1>15, <1>16, <1>17, <1>18, <1>19, <1>20, <1>21, <1>22,
     <1>23, <1>24, <1>25 DEF Next, Call, Continue

(* The state keeps its types. *)
THEOREM TypeCorrect == Spec => []TypeOK
<1>1. Control => TypeOK
  BY DEF Control
<1> QED BY ControlInit, ControlStep, <1>1, PTL DEF Spec
-----------------------------------------------------------------------------
(* The set of permit holders of a kind is finite, so its size is a number. *)
LEMMA HoldersFinite ==
  ASSUME NEW k
  PROVE  IsFiniteSet(Holders(k)) /\ Cardinality(Holders(k)) \in Nat
BY ThreadsFinite, FS_Subset, FS_CardinalityType DEF Holders

LEMMA RegisteredFinite ==
  ASSUME TypeOK, NEW k \in Kinds
  PROVE  IsFiniteSet(registered[k]) /\ Cardinality(registered[k]) \in Nat
BY AddressesFinite, FS_Subset, FS_CardinalityType DEF TypeOK

(* A step that leaves live, registered and kind alone and does not move a  *)
(* thread in or out of the permit steps keeps the account.                 *)
LEMMA AccountKept ==
  ASSUME TypeOK, PermitAccounting, NEW t \in Threads, NEW s,
         Goto(t, s), UNCHANGED <<live, registered, kind>>,
         pc[t] \in PermitSteps <=> s \in PermitSteps
  PROVE  PermitAccounting'
<1>1. ASSUME NEW k \in Kinds PROVE Holders(k)' = Holders(k)
  BY DEF Holders, Goto, TypeOK
<1> QED BY <1>1 DEF PermitAccounting

(* A thread joins the holders of its new kind. *)
LEMMA HolderJoins ==
  ASSUME TypeOK, NEW t \in Threads, NEW k \in Kinds, NEW s \in PermitSteps,
         pc[t] \notin PermitSteps, Goto(t, s), kind' = [kind EXCEPT ![t] = k]
  PROVE  /\ Cardinality(Holders(k))' = Cardinality(Holders(k)) + 1
         /\ \A j \in Kinds \ {k} : Holders(j)' = Holders(j)
<1>1. Holders(k)' = Holders(k) \cup {t} /\ t \notin Holders(k)
  BY DEF Holders, Goto, TypeOK
<1>2. \A j \in Kinds \ {k} : Holders(j)' = Holders(j)
  BY DEF Holders, Goto, TypeOK
<1> QED BY <1>1, <1>2, HoldersFinite, FS_AddElement

(* A thread leaves the holders of its kind. *)
LEMMA HolderLeaves ==
  ASSUME TypeOK, NEW t \in Threads, NEW k \in Kinds, NEW s \in Steps,
         pc[t] \in PermitSteps, kind[t] = k, s \notin PermitSteps, Goto(t, s),
         kind' = [kind EXCEPT ![t] = None]
  PROVE  /\ Cardinality(Holders(k)) > 0
         /\ Cardinality(Holders(k))' = Cardinality(Holders(k)) - 1
         /\ \A j \in Kinds \ {k} : Holders(j)' = Holders(j)
<1>1. t \in Holders(k)
  BY DEF Holders
<1>2. Holders(k)' = Holders(k) \ {t}
  BY DEF Holders, Goto, TypeOK
<1>3. \A j \in Kinds \ {k} : Holders(j)' = Holders(j)
  BY DEF Holders, Goto, TypeOK
<1>4. Cardinality(Holders(k)) > 0
  BY <1>1, HoldersFinite, FS_EmptySet
<1>5. Cardinality(Holders(k) \ {t}) = Cardinality(Holders(k)) - 1
  BY <1>1, HoldersFinite, FS_RemoveElement
<1> QED BY <1>2, <1>3, <1>4, <1>5

LEMMA AccountInit == Init => PermitAccounting
<1> SUFFICES ASSUME Init, NEW k \in Kinds
             PROVE  live[k] = Cardinality(registered[k]) + Cardinality(Holders(k))
  BY DEF PermitAccounting
<1>1. registered[k] = {} /\ Holders(k) = {} /\ live[k] = 0
  BY DEF Init, Holders, PermitSteps
<1> QED BY <1>1, FS_EmptySet

(* Every step keeps the account. *)
LEMMA AccountStep == Control /\ PermitAccounting /\ [Next]_vars => PermitAccounting'
<1> SUFFICES ASSUME Control, PermitAccounting, [Next]_vars PROVE PermitAccounting'
  OBVIOUS
<1> USE DEF Control
<1> USE DEF Steps, LoadSteps, UnloadSteps, CleanupSteps, PermitSteps
<1>1. CASE UNCHANGED vars \/ RtcCleanupEnds
  BY <1>1 DEF PermitAccounting, Holders, RtcCleanupEnds, vars, sharedVars, localVars
<1>2. ASSUME NEW t \in Threads, LoadEntry(t)
      PROVE  PermitAccounting'
  BY <1>2, AccountKept DEF LoadEntry, MayStartLoading, Goto, sharedVars
<1>3. ASSUME NEW t \in Threads, ReloadRefused(t)
      PROVE  PermitAccounting'
  BY <1>3, AccountKept DEF ReloadRefused, MayStartLoading, Goto, sharedVars
<1>4. ASSUME NEW t \in Threads, AttachLogger(t)
      PROVE  PermitAccounting'
  BY <1>4, AccountKept DEF AttachLogger, ThrowTarget, Goto, sharedVars
<1>5. ASSUME NEW t \in Threads, RecordLogger(t)
      PROVE  PermitAccounting'
  BY <1>5, AccountKept DEF RecordLogger, Goto, sharedVars
<1>6. ASSUME NEW t \in Threads, PreloadRtc(t)
      PROVE  PermitAccounting'
  BY <1>6, AccountKept DEF PreloadRtc, ThrowTarget, Goto, sharedVars
<1>7. ASSUME NEW t \in Threads, CommitLoad(t)
      PROVE  PermitAccounting'
  BY <1>7, AccountKept DEF CommitLoad, Goto, sharedVars
<1>8. ASSUME NEW t \in Threads, RollbackDetach(t)
      PROVE  PermitAccounting'
  BY <1>8, AccountKept DEF RollbackDetach, Goto, sharedVars
<1>9. ASSUME NEW t \in Threads, RollbackCommit(t)
      PROVE  PermitAccounting'
  BY <1>9, AccountKept DEF RollbackCommit, Goto, sharedVars
<1>10. ASSUME NEW t \in Threads, UnloadEntry(t)
      PROVE  PermitAccounting'
  BY <1>10, AccountKept DEF UnloadEntry, Goto, sharedVars
<1>11. ASSUME NEW t \in Threads, UnloadDetach(t)
      PROVE  PermitAccounting'
  BY <1>11, AccountKept DEF UnloadDetach, Goto, sharedVars
<1>12. ASSUME NEW t \in Threads, CommitUnload(t)
      PROVE  PermitAccounting'
  BY <1>12, AccountKept DEF CommitUnload, CleanAtUnload, Goto, sharedVars
<1>13. ASSUME NEW t \in Threads, CreatorReturns(t)
      PROVE  PermitAccounting'
  BY <1>13, AccountKept DEF CreatorReturns, AfterNullCreate, Goto, sharedVars
<1>14. ASSUME NEW t \in Threads, DestroyerReturns(t)
      PROVE  PermitAccounting'
  BY <1>14, AccountKept DEF DestroyerReturns, Goto, sharedVars
<1>15. ASSUME NEW t \in Threads, BeginRtcCleanup(t)
      PROVE  PermitAccounting'
  BY <1>15, AccountKept DEF BeginRtcCleanup, Goto, sharedVars
<1>16. ASSUME NEW t \in Threads, StoreFuture(t)
      PROVE  PermitAccounting'
  BY <1>16, AccountKept DEF StoreFuture, Goto, sharedVars
<1>17. ASSUME NEW t \in Threads, TakeTimedOutFuture(t)
      PROVE  PermitAccounting'
  BY <1>17, AccountKept DEF TakeTimedOutFuture, Goto, sharedVars
<1>18. ASSUME NEW t \in Threads, WaitForCleanup(t)
      PROVE  PermitAccounting'
  BY <1>18, AccountKept DEF WaitForCleanup, Goto, sharedVars
<1>19. ASSUME NEW t \in Threads, FinishCleanup(t)
      PROVE  PermitAccounting'
  BY <1>19, AccountKept DEF FinishCleanup, Goto, sharedVars
<1>20. ASSUME NEW t \in Threads, RecordOutcome(t)
      PROVE  PermitAccounting'
  BY <1>20, AccountKept DEF RecordOutcome, AfterTimeout, Goto, sharedVars
<1>21. ASSUME NEW t \in Threads, NEW k \in Kinds, CreateEntry(t, k)
      PROVE  PermitAccounting'
  <2>1. /\ Cardinality(Holders(k))' = Cardinality(Holders(k)) + 1
        /\ \A j \in Kinds \ {k} : Holders(j)' = Holders(j)
    BY <1>21, HolderJoins DEF CreateEntry
  <2> QED
    BY <1>21, <2>1, HoldersFinite, RegisteredFinite DEF CreateEntry,
       PermitAccounting, TypeOK
<1>22. ASSUME NEW t \in Threads, RegisterInstance(t)
      PROVE  PermitAccounting'
  <2>0. PICK k \in Kinds : kind[t] = k /\ pc[t] = "register"
    BY <1>22 DEF RegisterInstance, AfterDuplicate, LocalsOK
  <2>1. CASE registered' = registered
    BY <1>22, <2>1, AccountKept DEF RegisterInstance, AfterDuplicate, LocalsOK,
       TypeOK, Goto
  <2>2. CASE registered' # registered
    <3>1. /\ obj[t] \notin registered[k]
          /\ registered' = [registered EXCEPT ![k] = @ \cup {obj[t]}]
          /\ kind' = [kind EXCEPT ![t] = None]
          /\ Goto(t, "idle") /\ pc[t] = "register" /\ live' = live
      BY <1>22, <2>0, <2>2 DEF RegisterInstance, AfterDuplicate
    <3>2. /\ Cardinality(Holders(k))' = Cardinality(Holders(k)) - 1
          /\ \A j \in Kinds \ {k} : Holders(j)' = Holders(j)
      BY <2>0, <3>1, HolderLeaves
    <3>3. Cardinality(registered[k] \cup {obj[t]}) = Cardinality(registered[k]) + 1
      BY <3>1, <3>2, RegisteredFinite, FS_AddElement
    <3>4. registered'[k] = registered[k] \cup {obj[t]}
      BY <3>1, <3>2 DEF TypeOK
    <3>5. ASSUME NEW i \in Kinds
          PROVE  live'[i] = Cardinality(registered'[i]) + Cardinality(Holders(i))'
      <4>1. CASE i = k
        <5>1. live[k] = Cardinality(registered[k]) + Cardinality(Holders(k))
          BY DEF PermitAccounting
        <5>2. Cardinality(registered'[k]) = Cardinality(registered[k]) + 1
          BY <3>3, <3>4
        <5>3. live'[k] = live[k]
          BY <3>1
        <5> QED BY <4>1, <5>1, <5>2, <5>3, <3>2, HoldersFinite, RegisteredFinite
      <4>2. CASE i # k
        BY <4>2, <3>1, <3>2 DEF PermitAccounting, TypeOK
      <4> QED BY <4>1, <4>2
    <3> QED BY <3>5 DEF PermitAccounting
  <2> QED BY <2>1, <2>2
<1>23. ASSUME NEW t \in Threads, NEW k \in Kinds, NEW a \in Addresses, DestroyEntry(t, k, a)
      PROVE  PermitAccounting'
  <2>1. /\ Cardinality(Holders(k))' = Cardinality(Holders(k)) + 1
        /\ \A j \in Kinds \ {k} : Holders(j)' = Holders(j)
    BY <1>23, HolderJoins DEF DestroyEntry, Erase
  <2>2. Cardinality(registered[k] \ {a}) = Cardinality(registered[k]) - 1
    BY <1>23, RegisteredFinite, FS_RemoveElement DEF DestroyEntry, Erase
  <2>3. ASSUME NEW i \in Kinds
        PROVE  live'[i] = Cardinality(registered'[i]) + Cardinality(Holders(i))'
    <3>1. CASE i = k
      BY <1>23, <3>1, <2>1, <2>2, HoldersFinite, RegisteredFinite
      DEF DestroyEntry, Erase, PermitAccounting, TypeOK
    <3>2. CASE i # k
      BY <1>23, <3>2, <2>1 DEF DestroyEntry, Erase, PermitAccounting, TypeOK
    <3> QED BY <3>1, <3>2
  <2> QED BY <2>3 DEF PermitAccounting
<1>24. ASSUME NEW t \in Threads, ReleaseInstance(t)
      PROVE  PermitAccounting'
  <2>0. PICK k \in Kinds : kind[t] = k
    BY <1>24 DEF ReleaseInstance, LastRelease, LocalsOK
  <2>1. PICK s \in Steps : s \notin PermitSteps /\ Goto(t, s)
    BY <1>24 DEF ReleaseInstance, LastRelease
  <2>2. /\ Cardinality(Holders(k)) > 0
        /\ Cardinality(Holders(k))' = Cardinality(Holders(k)) - 1
        /\ \A j \in Kinds \ {k} : Holders(j)' = Holders(j)
    BY <1>24, <2>0, <2>1, HolderLeaves DEF ReleaseInstance, LastRelease
  <2>3. live[k] > 0
    BY <2>2, HoldersFinite, RegisteredFinite DEF PermitAccounting
  <2>4. live' = [live EXCEPT ![k] = @ - 1] /\ registered' = registered
    BY <1>24, <2>0, <2>3 DEF ReleaseInstance, LastRelease
  <2>5. ASSUME NEW i \in Kinds
        PROVE  live'[i] = Cardinality(registered'[i]) + Cardinality(Holders(i))'
    <3>1. CASE i = k
      BY <3>1, <2>2, <2>4, HoldersFinite, RegisteredFinite DEF PermitAccounting,
         TypeOK
    <3>2. CASE i # k
      BY <3>2, <2>2, <2>4 DEF PermitAccounting, TypeOK
    <3> QED BY <3>1, <3>2
  <2> QED BY <2>5 DEF PermitAccounting
<1> QED
  BY <1>1, <1>2, <1>3, <1>4, <1>5, <1>6, <1>7, <1>8, <1>9, <1>10, <1>11, <1>12,
     <1>13, <1>14, <1>15, <1>16, <1>17, <1>18, <1>19, <1>20, <1>21, <1>22,
     <1>23, <1>24 DEF Next, Call, Continue

(* The permits counted are the instances registered and the creates and    *)
(* destroys in progress.                                                   *)
THEOREM PermitsAccounted == Spec => []PermitAccounting
BY ControlInit, ControlStep, AccountInit, AccountStep, PTL DEF Spec

-----------------------------------------------------------------------------
(* An instance that exists is registered, or a thread is about to register *)
(* it, or is destroying it.                                                *)
Covered ==
  \A a \in allocated :
    \/ \E k \in Kinds : a \in registered[k]
    \/ \E t \in Threads : pc[t] \in {"register", "rollbackDestroy", "destroyer"} /\ obj[t] = a

(* What the phase says of libdatachannel, as long as no exception is taken *)
(* for success.                                                            *)
RtcUp ==
  /\ phase \in {"Loaded", "Unloading", "UnloadPending"} => rtc = "on"
  /\ phase \in {"Unloaded", "Loading"} => rtc \notin {"cleaning", "deferred", "failed"}
  /\ \A t \in Threads : pc[t] = "commitLoad" => rtc = "on"

LEMMA CoveredStep == Control /\ Covered /\ [Next]_vars => Covered'
<1> SUFFICES ASSUME Control, Covered, [Next]_vars PROVE Covered'
  OBVIOUS
<1> USE DEF Control
<1> USE DEF Covered, TypeOK, LocalsOK, sharedVars, localVars, Steps,
      LoadSteps, UnloadSteps, CleanupSteps, PermitSteps
<1>1. CASE RtcCleanupEnds
  BY <1>1 DEF RtcCleanupEnds
<1>2. ASSUME NEW t \in Threads, LoadEntry(t)
      PROVE  Covered'
  BY <1>2 DEF LoadEntry, MayStartLoading, Goto
<1>3. ASSUME NEW t \in Threads, ReloadRefused(t)
      PROVE  Covered'
  BY <1>3 DEF ReloadRefused, MayStartLoading, Goto
<1>4. ASSUME NEW t \in Threads, AttachLogger(t)
      PROVE  Covered'
  BY <1>4 DEF AttachLogger, ThrowTarget, Goto
<1>5. ASSUME NEW t \in Threads, RecordLogger(t)
      PROVE  Covered'
  BY <1>5 DEF RecordLogger, Goto
<1>6. ASSUME NEW t \in Threads, PreloadRtc(t)
      PROVE  Covered'
  BY <1>6 DEF PreloadRtc, ThrowTarget, Goto
<1>7. ASSUME NEW t \in Threads, CommitLoad(t)
      PROVE  Covered'
  BY <1>7 DEF CommitLoad, Goto
<1>8. ASSUME NEW t \in Threads, RollbackDetach(t)
      PROVE  Covered'
  BY <1>8 DEF RollbackDetach, Goto
<1>9. ASSUME NEW t \in Threads, RollbackCommit(t)
      PROVE  Covered'
  BY <1>9 DEF RollbackCommit, Goto
<1>10. ASSUME NEW t \in Threads, UnloadEntry(t)
      PROVE  Covered'
  BY <1>10 DEF UnloadEntry, Goto
<1>11. ASSUME NEW t \in Threads, UnloadDetach(t)
      PROVE  Covered'
  BY <1>11 DEF UnloadDetach, Goto
<1>12. ASSUME NEW t \in Threads, CommitUnload(t)
      PROVE  Covered'
  BY <1>12 DEF CommitUnload, CleanAtUnload, Goto
<1>13. ASSUME NEW t \in Threads, NEW k \in Kinds, CreateEntry(t, k)
      PROVE  Covered'
  BY <1>13 DEF CreateEntry, Goto
<1>14. ASSUME NEW t \in Threads, CreatorReturns(t)
      PROVE  Covered'
  BY <1>14 DEF CreatorReturns, AfterNullCreate, Goto
<1>15. ASSUME NEW t \in Threads, RegisterInstance(t)
      PROVE  Covered'
  BY <1>15 DEF RegisterInstance, AfterDuplicate, Goto
<1>16. ASSUME NEW t \in Threads, NEW k \in Kinds, NEW a \in Addresses, DestroyEntry(t, k, a)
      PROVE  Covered'
  BY <1>16 DEF DestroyEntry, Erase, Goto
<1>17. ASSUME NEW t \in Threads, DestroyerReturns(t)
      PROVE  Covered'
  BY <1>17 DEF DestroyerReturns, Goto
<1>18. ASSUME NEW t \in Threads, ReleaseInstance(t)
      PROVE  Covered'
  BY <1>18 DEF ReleaseInstance, LastRelease, Goto
<1>19. ASSUME NEW t \in Threads, BeginRtcCleanup(t)
      PROVE  Covered'
  BY <1>19 DEF BeginRtcCleanup, Goto
<1>20. ASSUME NEW t \in Threads, StoreFuture(t)
      PROVE  Covered'
  BY <1>20 DEF StoreFuture, Goto
<1>21. ASSUME NEW t \in Threads, TakeTimedOutFuture(t)
      PROVE  Covered'
  BY <1>21 DEF TakeTimedOutFuture, Goto
<1>22. ASSUME NEW t \in Threads, WaitForCleanup(t)
      PROVE  Covered'
  BY <1>22 DEF WaitForCleanup, Goto
<1>23. ASSUME NEW t \in Threads, FinishCleanup(t)
      PROVE  Covered'
  BY <1>23 DEF FinishCleanup, Goto
<1>24. ASSUME NEW t \in Threads, RecordOutcome(t)
      PROVE  Covered'
  BY <1>24 DEF RecordOutcome, AfterTimeout, Goto
<1>25. CASE UNCHANGED vars
  BY <1>25 DEF vars, sharedVars, localVars
<1> QED
  BY <1>1, <1>2, <1>3, <1>4, <1>5, <1>6, <1>7, <1>8, <1>9, <1>10, <1>11, <1>12,
     <1>13, <1>14, <1>15, <1>16, <1>17, <1>18, <1>19, <1>20, <1>21, <1>22,
     <1>23, <1>24, <1>25 DEF Next, Call, Continue

LEMMA RtcUpStep ==
  ASSUME ~QuietThrows
  PROVE  Control /\ RtcUp /\ [Next]_vars => RtcUp'
<1> SUFFICES ASSUME Control, RtcUp, [Next]_vars PROVE RtcUp'
  OBVIOUS
<1> USE ~QuietThrows DEF Control
<1> USE DEF RtcUp, PhaseOwner, OneTransition, TypeOK, sharedVars,
      localVars, Steps, LoadSteps, UnloadSteps, CleanupSteps, PermitSteps
<1>1. CASE RtcCleanupEnds
  BY <1>1 DEF RtcCleanupEnds
<1>2. ASSUME NEW t \in Threads, LoadEntry(t)
      PROVE  RtcUp'
  BY <1>2 DEF LoadEntry, MayStartLoading, Goto
<1>3. ASSUME NEW t \in Threads, ReloadRefused(t)
      PROVE  RtcUp'
  BY <1>3 DEF ReloadRefused, MayStartLoading, Goto
<1>4. ASSUME NEW t \in Threads, AttachLogger(t)
      PROVE  RtcUp'
  BY <1>4 DEF AttachLogger, ThrowTarget, Goto
<1>5. ASSUME NEW t \in Threads, RecordLogger(t)
      PROVE  RtcUp'
  BY <1>5 DEF RecordLogger, Goto
<1>6. ASSUME NEW t \in Threads, PreloadRtc(t)
      PROVE  RtcUp'
  BY <1>6 DEF PreloadRtc, ThrowTarget, Goto
<1>7. ASSUME NEW t \in Threads, CommitLoad(t)
      PROVE  RtcUp'
  BY <1>7 DEF CommitLoad, Goto
<1>8. ASSUME NEW t \in Threads, RollbackDetach(t)
      PROVE  RtcUp'
  BY <1>8 DEF RollbackDetach, Goto
<1>9. ASSUME NEW t \in Threads, RollbackCommit(t)
      PROVE  RtcUp'
  BY <1>9 DEF RollbackCommit, Goto
<1>10. ASSUME NEW t \in Threads, UnloadEntry(t)
      PROVE  RtcUp'
  BY <1>10 DEF UnloadEntry, Goto
<1>11. ASSUME NEW t \in Threads, UnloadDetach(t)
      PROVE  RtcUp'
  BY <1>11 DEF UnloadDetach, Goto
<1>12. ASSUME NEW t \in Threads, CommitUnload(t)
      PROVE  RtcUp'
  BY <1>12 DEF CommitUnload, CleanAtUnload, Goto
<1>13. ASSUME NEW t \in Threads, NEW k \in Kinds, CreateEntry(t, k)
      PROVE  RtcUp'
  BY <1>13 DEF CreateEntry, Goto
<1>14. ASSUME NEW t \in Threads, CreatorReturns(t)
      PROVE  RtcUp'
  BY <1>14 DEF CreatorReturns, AfterNullCreate, Goto
<1>15. ASSUME NEW t \in Threads, RegisterInstance(t)
      PROVE  RtcUp'
  BY <1>15 DEF RegisterInstance, AfterDuplicate, Goto
<1>16. ASSUME NEW t \in Threads, NEW k \in Kinds, NEW a \in Addresses, DestroyEntry(t, k, a)
      PROVE  RtcUp'
  BY <1>16 DEF DestroyEntry, Erase, Goto
<1>17. ASSUME NEW t \in Threads, DestroyerReturns(t)
      PROVE  RtcUp'
  BY <1>17 DEF DestroyerReturns, Goto
<1>18. ASSUME NEW t \in Threads, ReleaseInstance(t)
      PROVE  RtcUp'
  BY <1>18 DEF ReleaseInstance, LastRelease, Goto
<1>19. ASSUME NEW t \in Threads, BeginRtcCleanup(t)
      PROVE  RtcUp'
  BY <1>19 DEF BeginRtcCleanup, Goto
<1>20. ASSUME NEW t \in Threads, StoreFuture(t)
      PROVE  RtcUp'
  BY <1>20 DEF StoreFuture, Goto
<1>21. ASSUME NEW t \in Threads, TakeTimedOutFuture(t)
      PROVE  RtcUp'
  BY <1>21 DEF TakeTimedOutFuture, Goto
<1>22. ASSUME NEW t \in Threads, WaitForCleanup(t)
      PROVE  RtcUp'
  BY <1>22 DEF WaitForCleanup, Goto
<1>23. ASSUME NEW t \in Threads, FinishCleanup(t)
      PROVE  RtcUp'
  BY <1>23 DEF FinishCleanup, Goto
<1>24. ASSUME NEW t \in Threads, RecordOutcome(t)
      PROVE  RtcUp'
  BY <1>24 DEF RecordOutcome, AfterTimeout, Goto
<1>25. CASE UNCHANGED vars
  BY <1>25 DEF vars, sharedVars, localVars
<1> QED
  BY <1>1, <1>2, <1>3, <1>4, <1>5, <1>6, <1>7, <1>8, <1>9, <1>10, <1>11, <1>12,
     <1>13, <1>14, <1>15, <1>16, <1>17, <1>18, <1>19, <1>20, <1>21, <1>22,
     <1>23, <1>24, <1>25 DEF Next, Call, Continue

(* A permit is counted for whatever is in use. *)
LEMMA InUseIsCounted ==
  ASSUME Control, PermitAccounting, Covered, InUse
  PROVE  ~NoLiveInstances(live)
<1> SUFFICES \E k \in Kinds : registered[k] # {} \/ Holders(k) # {}
  BY HoldersFinite, RegisteredFinite, FS_EmptySet
  DEF Control, PermitAccounting, NoLiveInstances
<1> QED BY DEF Control, Covered, InUse, LocalsOK, Holders, PermitSteps

(* Instances exist, and OBS callbacks that make or destroy them run, only  *)
(* while libdatachannel is initialised.                                    *)
THEOREM InstancesOnLiveRtc ==
  ASSUME ~QuietThrows
  PROVE  Spec => []InstancesRunOnLiveRtc
<1>1. Init => Covered /\ RtcUp
  BY DEF Init, Covered, RtcUp
<1>2. Control /\ PermitAccounting /\ Covered /\ RtcUp => InstancesRunOnLiveRtc
  BY InUseIsCounted DEF Control, Drained, RtcUp, InstancesRunOnLiveRtc
<1> QED BY ControlInit, ControlStep, AccountInit, AccountStep, CoveredStep,
   RtcUpStep,
           <1>1, <1>2, PTL DEF Spec

(* A load is under way only after the last cleanup ended well. *)
THEOREM LoadsAfterCleanup ==
  ASSUME ~QuietThrows
  PROVE  Spec => []LoadAfterCleanup
<1>1. Init => RtcUp
  BY DEF Init, RtcUp
<1>2. Control /\ RtcUp => LoadAfterCleanup
  BY DEF Control, PhaseOwner, RtcUp, LoadAfterCleanup
<1> QED BY ControlInit, ControlStep, RtcUpStep, <1>1, <1>2, PTL DEF Spec
-----------------------------------------------------------------------------
(* Whose an address is: an instance is registered under one kind only, a   *)
(* thread that will destroy one is alone with it, and so is a thread whose *)
(* new instance is not registered yet.                                     *)
Scoped ==
  \A t \in Threads :
    obj[t] # None => pc[t] \in {"register", "rollbackDestroy", "destroyer",
       "release"}

RegisteredOnce ==
  /\ \A k \in Kinds : registered[k] \subseteq allocated
  /\ \A j, k \in Kinds : j # k => registered[j] \cap registered[k] = {}

AloneWith(t) ==
  /\ \A k \in Kinds : obj[t] \notin registered[k]
  /\ \A u \in Threads \ {t} : obj[u] = obj[t] => pc[u] = "release"

NewIsFresh ==
  \A t \in Threads : pc[t] = "register" =>
    /\ obj[t] \in allocated
    /\ obj[t] \notin registered[kind[t]] => AloneWith(t)

Ownership == Scoped /\ RegisteredOnce /\ NewIsFresh /\ DestroyedOnce

(* Every step keeps each address where it belongs. *)
LEMMA OwnershipStep == Control /\ Ownership /\ [Next]_vars => Ownership'
<1> SUFFICES ASSUME Control, Ownership, [Next]_vars PROVE Ownership'
  OBVIOUS
<1>1. ASSUME RtcCleanupEnds PROVE Ownership'
  BY <1>1 DEF RtcCleanupEnds, Control, Ownership, Scoped, RegisteredOnce,
     NewIsFresh, AloneWith, DestroyedOnce, TypeOK, LocalsOK, sharedVars,
     localVars, Steps, PermitSteps, LoadSteps, UnloadSteps, CleanupSteps
<1>2. ASSUME NEW t \in Threads, LoadEntry(t) PROVE Ownership'
  BY <1>2 DEF LoadEntry, MayStartLoading, Goto, Control, Ownership, Scoped,
     RegisteredOnce, NewIsFresh, AloneWith, DestroyedOnce, TypeOK, LocalsOK,
     sharedVars, localVars, Steps, PermitSteps, LoadSteps, UnloadSteps,
     CleanupSteps
<1>3. ASSUME NEW t \in Threads, ReloadRefused(t) PROVE Ownership'
  BY <1>3 DEF ReloadRefused, Goto, Control, Ownership, Scoped, RegisteredOnce,
     NewIsFresh, AloneWith, DestroyedOnce, TypeOK, LocalsOK, sharedVars,
     localVars, Steps, PermitSteps, LoadSteps, UnloadSteps, CleanupSteps
<1>4. ASSUME NEW t \in Threads, AttachLogger(t) PROVE Ownership'
  BY <1>4 DEF AttachLogger, ThrowTarget, Goto, Control, Ownership, Scoped,
     RegisteredOnce, NewIsFresh, AloneWith, DestroyedOnce, TypeOK, LocalsOK,
     sharedVars, localVars, Steps, PermitSteps, LoadSteps, UnloadSteps,
     CleanupSteps
<1>5. ASSUME NEW t \in Threads, RecordLogger(t) PROVE Ownership'
  BY <1>5 DEF RecordLogger, Goto, Control, Ownership, Scoped, RegisteredOnce,
     NewIsFresh, AloneWith, DestroyedOnce, TypeOK, LocalsOK, sharedVars,
     localVars, Steps, PermitSteps, LoadSteps, UnloadSteps, CleanupSteps
<1>6. ASSUME NEW t \in Threads, PreloadRtc(t) PROVE Ownership'
  BY <1>6 DEF PreloadRtc, ThrowTarget, Goto, Control, Ownership, Scoped,
     RegisteredOnce, NewIsFresh, AloneWith, DestroyedOnce, TypeOK, LocalsOK,
     sharedVars, localVars, Steps, PermitSteps, LoadSteps, UnloadSteps,
     CleanupSteps
<1>7. ASSUME NEW t \in Threads, CommitLoad(t) PROVE Ownership'
  BY <1>7 DEF CommitLoad, Goto, Control, Ownership, Scoped, RegisteredOnce,
     NewIsFresh, AloneWith, DestroyedOnce, TypeOK, LocalsOK, sharedVars,
     localVars, Steps, PermitSteps, LoadSteps, UnloadSteps, CleanupSteps
<1>8. ASSUME NEW t \in Threads, RollbackDetach(t) PROVE Ownership'
  BY <1>8 DEF RollbackDetach, Goto, Control, Ownership, Scoped,
     RegisteredOnce, NewIsFresh, AloneWith, DestroyedOnce, TypeOK, LocalsOK,
     sharedVars, localVars, Steps, PermitSteps, LoadSteps, UnloadSteps,
     CleanupSteps
<1>9. ASSUME NEW t \in Threads, RollbackCommit(t) PROVE Ownership'
  BY <1>9 DEF RollbackCommit, Goto, Control, Ownership, Scoped,
     RegisteredOnce, NewIsFresh, AloneWith, DestroyedOnce, TypeOK, LocalsOK,
     sharedVars, localVars, Steps, PermitSteps, LoadSteps, UnloadSteps,
     CleanupSteps
<1>10. ASSUME NEW t \in Threads, UnloadEntry(t) PROVE Ownership'
  BY <1>10 DEF UnloadEntry, Goto, Control, Ownership, Scoped, RegisteredOnce,
     NewIsFresh, AloneWith, DestroyedOnce, TypeOK, LocalsOK, sharedVars,
     localVars, Steps, PermitSteps, LoadSteps, UnloadSteps, CleanupSteps
<1>11. ASSUME NEW t \in Threads, UnloadDetach(t) PROVE Ownership'
  BY <1>11 DEF UnloadDetach, Goto, Control, Ownership, Scoped, RegisteredOnce,
     NewIsFresh, AloneWith, DestroyedOnce, TypeOK, LocalsOK, sharedVars,
     localVars, Steps, PermitSteps, LoadSteps, UnloadSteps, CleanupSteps
<1>12. ASSUME NEW t \in Threads, CommitUnload(t) PROVE Ownership'
  BY <1>12 DEF CommitUnload, CleanAtUnload, Goto, Control, Ownership, Scoped,
     RegisteredOnce, NewIsFresh, AloneWith, DestroyedOnce, TypeOK, LocalsOK,
     sharedVars, localVars, Steps, PermitSteps, LoadSteps, UnloadSteps,
     CleanupSteps
<1>13. ASSUME NEW t \in Threads, NEW k \in Kinds, CreateEntry(t, k) PROVE
   Ownership'
  BY <1>13 DEF CreateEntry, Goto, Control, Ownership, Scoped, RegisteredOnce,
     NewIsFresh, AloneWith, DestroyedOnce, TypeOK, LocalsOK, sharedVars,
     localVars, Steps, PermitSteps, LoadSteps, UnloadSteps, CleanupSteps
<1>14. ASSUME NEW t \in Threads, CreatorReturns(t) PROVE Ownership'
  <2>1. Scoped'
    BY <1>14, AddressesFinite DEF CreatorReturns, AfterNullCreate, Goto,
       Scoped, DestroyedOnce, PermitSteps, Steps, Control, Ownership, TypeOK,
       sharedVars, localVars
  <2>2. RegisteredOnce'
    BY <1>14, AddressesFinite DEF CreatorReturns, AfterNullCreate, Goto,
       RegisteredOnce, NewIsFresh, DestroyedOnce, AloneWith, LocalsOK,
       PermitSteps, Control, Ownership, TypeOK, sharedVars, localVars
  <2>3. NewIsFresh'
    BY <1>14, AddressesFinite DEF CreatorReturns, AfterNullCreate, Goto,
       Scoped, RegisteredOnce, NewIsFresh, DestroyedOnce, AloneWith, LocalsOK,
       PermitSteps, Control, Ownership, TypeOK, sharedVars, localVars
  <2>4. DestroyedOnce'
    BY <1>14, AddressesFinite DEF CreatorReturns, AfterNullCreate, Goto,
       Scoped, RegisteredOnce, NewIsFresh, DestroyedOnce, AloneWith, LocalsOK,
       PermitSteps, Control, Ownership, TypeOK, sharedVars, localVars
  <2> QED BY <2>1, <2>2, <2>3, <2>4 DEF Ownership
<1>15. ASSUME NEW t \in Threads, RegisterInstance(t) PROVE Ownership'
  <2>1. Scoped'
    BY <1>15, AddressesFinite DEF RegisterInstance, AfterDuplicate, Goto,
       Scoped, DestroyedOnce, PermitSteps, Steps, Control, Ownership, TypeOK,
       sharedVars, localVars
  <2>2. RegisteredOnce'
    BY <1>15, AddressesFinite DEF RegisterInstance, AfterDuplicate, Goto,
       RegisteredOnce, NewIsFresh, DestroyedOnce, AloneWith, LocalsOK,
       PermitSteps, Control, Ownership, TypeOK, sharedVars, localVars
  <2>3. NewIsFresh'
    BY <1>15, AddressesFinite DEF RegisterInstance, AfterDuplicate, Goto,
       Scoped, RegisteredOnce, NewIsFresh, DestroyedOnce, AloneWith, LocalsOK,
       PermitSteps, Control, Ownership, TypeOK, sharedVars, localVars
  <2>4. DestroyedOnce'
    BY <1>15, AddressesFinite DEF RegisterInstance, AfterDuplicate, Goto,
       Scoped, RegisteredOnce, NewIsFresh, DestroyedOnce, AloneWith, LocalsOK,
       PermitSteps, Control, Ownership, TypeOK, sharedVars, localVars
  <2> QED BY <2>1, <2>2, <2>3, <2>4 DEF Ownership
<1>16. ASSUME NEW t \in Threads, NEW k \in Kinds, NEW a \in Addresses,
   DestroyEntry(t, k, a)
      PROVE  Ownership'
  <2>1. Scoped'
    BY <1>16, AddressesFinite DEF DestroyEntry, Erase, Goto, Scoped,
       DestroyedOnce, PermitSteps, Steps, Control, Ownership, TypeOK,
       sharedVars, localVars
  <2>2. RegisteredOnce'
    BY <1>16, AddressesFinite DEF DestroyEntry, Erase, Goto, RegisteredOnce,
       NewIsFresh, DestroyedOnce, AloneWith, LocalsOK, PermitSteps, Control,
       Ownership, TypeOK, sharedVars, localVars
  <2>3. NewIsFresh'
    BY <1>16, AddressesFinite DEF DestroyEntry, Erase, Goto, Scoped,
       RegisteredOnce, NewIsFresh, DestroyedOnce, AloneWith, LocalsOK,
       PermitSteps, Control, Ownership, TypeOK, sharedVars, localVars
  <2>4. DestroyedOnce'
    BY <1>16, AddressesFinite DEF DestroyEntry, Erase, Goto, Scoped,
       RegisteredOnce, NewIsFresh, DestroyedOnce, AloneWith, LocalsOK,
       PermitSteps, Control, Ownership, TypeOK, sharedVars, localVars
  <2> QED BY <2>1, <2>2, <2>3, <2>4 DEF Ownership
<1>17. ASSUME NEW t \in Threads, DestroyerReturns(t) PROVE Ownership'
  BY <1>17 DEF DestroyerReturns, Goto, Control, Ownership, Scoped,
     RegisteredOnce, NewIsFresh, AloneWith, DestroyedOnce, TypeOK, LocalsOK,
     sharedVars, localVars, Steps, PermitSteps, LoadSteps, UnloadSteps,
     CleanupSteps
<1>18. ASSUME NEW t \in Threads, ReleaseInstance(t) PROVE Ownership'
  <2>1. Scoped'
    BY <1>18, AddressesFinite DEF ReleaseInstance, LastRelease, Goto, Scoped,
       DestroyedOnce, PermitSteps, Steps, Control, Ownership, TypeOK,
       sharedVars, localVars
  <2>2. RegisteredOnce'
    BY <1>18, AddressesFinite DEF ReleaseInstance, LastRelease, Goto,
       RegisteredOnce, NewIsFresh, DestroyedOnce, AloneWith, LocalsOK,
       PermitSteps, Control, Ownership, TypeOK, sharedVars, localVars
  <2>3. NewIsFresh'
    BY <1>18, AddressesFinite DEF ReleaseInstance, LastRelease, Goto, Scoped,
       RegisteredOnce, NewIsFresh, DestroyedOnce, AloneWith, LocalsOK,
       PermitSteps, Control, Ownership, TypeOK, sharedVars, localVars
  <2>4. DestroyedOnce'
    BY <1>18, AddressesFinite DEF ReleaseInstance, LastRelease, Goto, Scoped,
       RegisteredOnce, NewIsFresh, DestroyedOnce, AloneWith, LocalsOK,
       PermitSteps, Control, Ownership, TypeOK, sharedVars, localVars
  <2> QED BY <2>1, <2>2, <2>3, <2>4 DEF Ownership
<1>19. ASSUME NEW t \in Threads, BeginRtcCleanup(t) PROVE Ownership'
  BY <1>19 DEF BeginRtcCleanup, Goto, Control, Ownership, Scoped,
     RegisteredOnce, NewIsFresh, AloneWith, DestroyedOnce, TypeOK, LocalsOK,
     sharedVars, localVars, Steps, PermitSteps, LoadSteps, UnloadSteps,
     CleanupSteps
<1>20. ASSUME NEW t \in Threads, StoreFuture(t) PROVE Ownership'
  BY <1>20 DEF StoreFuture, Goto, Control, Ownership, Scoped, RegisteredOnce,
     NewIsFresh, AloneWith, DestroyedOnce, TypeOK, LocalsOK, sharedVars,
     localVars, Steps, PermitSteps, LoadSteps, UnloadSteps, CleanupSteps
<1>21. ASSUME NEW t \in Threads, TakeTimedOutFuture(t) PROVE Ownership'
  BY <1>21 DEF TakeTimedOutFuture, Goto, Control, Ownership, Scoped,
     RegisteredOnce, NewIsFresh, AloneWith, DestroyedOnce, TypeOK, LocalsOK,
     sharedVars, localVars, Steps, PermitSteps, LoadSteps, UnloadSteps,
     CleanupSteps
<1>22. ASSUME NEW t \in Threads, WaitForCleanup(t) PROVE Ownership'
  BY <1>22 DEF WaitForCleanup, Goto, Control, Ownership, Scoped,
     RegisteredOnce, NewIsFresh, AloneWith, DestroyedOnce, TypeOK, LocalsOK,
     sharedVars, localVars, Steps, PermitSteps, LoadSteps, UnloadSteps,
     CleanupSteps
<1>23. ASSUME NEW t \in Threads, FinishCleanup(t) PROVE Ownership'
  BY <1>23 DEF FinishCleanup, Goto, Control, Ownership, Scoped,
     RegisteredOnce, NewIsFresh, AloneWith, DestroyedOnce, TypeOK, LocalsOK,
     sharedVars, localVars, Steps, PermitSteps, LoadSteps, UnloadSteps,
     CleanupSteps
<1>24. ASSUME NEW t \in Threads, RecordOutcome(t) PROVE Ownership'
  BY <1>24 DEF RecordOutcome, AfterTimeout, Goto, Control, Ownership, Scoped,
     RegisteredOnce, NewIsFresh, AloneWith, DestroyedOnce, TypeOK, LocalsOK,
     sharedVars, localVars, Steps, PermitSteps, LoadSteps, UnloadSteps,
     CleanupSteps
<1>25. CASE UNCHANGED vars
  BY <1>25 DEF vars, Control, Ownership, Scoped, RegisteredOnce, NewIsFresh,
     AloneWith, DestroyedOnce, TypeOK, LocalsOK, sharedVars, localVars, Steps,
     PermitSteps, LoadSteps, UnloadSteps, CleanupSteps
<1> QED
  BY <1>1, <1>2, <1>3, <1>4, <1>5, <1>6, <1>7, <1>8, <1>9, <1>10, <1>11,
     <1>12, <1>13, <1>14, <1>15, <1>16, <1>17, <1>18, <1>19, <1>20, <1>21,
     <1>22, <1>23, <1>24, <1>25 DEF Next, Call, Continue

(* What is in use keeps RTC up. *)
InUseWhileUp == InUse => phase \in {"Loaded", "Unloading", "UnloadPending"}

(* Whoever uses RTC holds a permit, and with a permit out the phase is one *)
(* of those. *)
LEMMA UseNeedsPermit == Control /\ PermitAccounting /\ Covered => InUseWhileUp
BY InUseIsCounted DEF Control, Drained, InUseWhileUp

(* Every step is one of RtcRuntime or leaves its variables alone. *)
LEMMA RuntimeStep ==
  ASSUME Control, Ownership, InUseWhileUp, InUseWhileUp', [Next]_vars
  PROVE  [Runtime!Next]_Runtime!vars
<1> USE DEF Control, InUseWhileUp
<1> USE DEF Runtime!Next, Runtime!vars, Runtime!Start, Runtime!StartFails,
   Runtime!Started,
      Runtime!Drain, Runtime!Clean, Runtime!Cleaned, Runtime!Lost,
         Runtime!Enter,
      Runtime!Leave, Runtime!Move, RuntimeState, InUse, TypeOK, PhaseOwner,
         Phases,
      sharedVars, localVars, Steps, PermitSteps, LoadSteps, UnloadSteps,
         CleanupSteps
<1>1. ASSUME RtcCleanupEnds PROVE [Runtime!Next]_Runtime!vars
  BY <1>1 DEF RtcCleanupEnds
<1>2. ASSUME NEW t \in Threads, LoadEntry(t) PROVE [Runtime!Next]_Runtime!vars
  BY <1>2 DEF LoadEntry, MayStartLoading, Goto
<1>3. ASSUME NEW t \in Threads, ReloadRefused(t) PROVE
   [Runtime!Next]_Runtime!vars
  BY <1>3 DEF ReloadRefused, Goto
<1>4. ASSUME NEW t \in Threads, AttachLogger(t) PROVE
   [Runtime!Next]_Runtime!vars
  BY <1>4 DEF AttachLogger, ThrowTarget, Goto
<1>5. ASSUME NEW t \in Threads, RecordLogger(t) PROVE
   [Runtime!Next]_Runtime!vars
  BY <1>5 DEF RecordLogger, Goto
<1>6. ASSUME NEW t \in Threads, PreloadRtc(t) PROVE
   [Runtime!Next]_Runtime!vars
  BY <1>6 DEF PreloadRtc, ThrowTarget, Goto
<1>7. ASSUME NEW t \in Threads, CommitLoad(t) PROVE
   [Runtime!Next]_Runtime!vars
  BY <1>7 DEF CommitLoad, Goto
<1>8. ASSUME NEW t \in Threads, RollbackDetach(t) PROVE
   [Runtime!Next]_Runtime!vars
  BY <1>8 DEF RollbackDetach, Goto
<1>9. ASSUME NEW t \in Threads, RollbackCommit(t) PROVE
   [Runtime!Next]_Runtime!vars
  BY <1>9 DEF RollbackCommit, Goto
<1>10. ASSUME NEW t \in Threads, UnloadEntry(t) PROVE
   [Runtime!Next]_Runtime!vars
  BY <1>10 DEF UnloadEntry, Goto
<1>11. ASSUME NEW t \in Threads, UnloadDetach(t) PROVE
   [Runtime!Next]_Runtime!vars
  BY <1>11 DEF UnloadDetach, Goto
<1>12. ASSUME NEW t \in Threads, CommitUnload(t) PROVE
   [Runtime!Next]_Runtime!vars
  BY <1>12 DEF CommitUnload, CleanAtUnload, Goto
<1>13. ASSUME NEW t \in Threads, NEW k \in Kinds, CreateEntry(t, k) PROVE
   [Runtime!Next]_Runtime!vars
  BY <1>13 DEF CreateEntry, Goto
<1>14. ASSUME NEW t \in Threads, CreatorReturns(t) PROVE
   [Runtime!Next]_Runtime!vars
  BY <1>14 DEF CreatorReturns, AfterNullCreate, Goto
<1>15. ASSUME NEW t \in Threads, RegisterInstance(t) PROVE
   [Runtime!Next]_Runtime!vars
  BY <1>15 DEF RegisterInstance, AfterDuplicate, Goto, Ownership, NewIsFresh,
     RegisteredOnce
<1>16. ASSUME NEW t \in Threads, NEW k \in Kinds, NEW a \in Addresses,
   DestroyEntry(t, k, a)
      PROVE  [Runtime!Next]_Runtime!vars
  BY <1>16 DEF DestroyEntry, Erase, Goto, Ownership, NewIsFresh,
     RegisteredOnce
<1>17. ASSUME NEW t \in Threads, DestroyerReturns(t) PROVE
   [Runtime!Next]_Runtime!vars
  BY <1>17 DEF DestroyerReturns, Goto
<1>18. ASSUME NEW t \in Threads, ReleaseInstance(t) PROVE
   [Runtime!Next]_Runtime!vars
  BY <1>18 DEF ReleaseInstance, LastRelease, Goto
<1>19. ASSUME NEW t \in Threads, BeginRtcCleanup(t) PROVE
   [Runtime!Next]_Runtime!vars
  BY <1>19 DEF BeginRtcCleanup, Goto
<1>20. ASSUME NEW t \in Threads, StoreFuture(t) PROVE
   [Runtime!Next]_Runtime!vars
  BY <1>20 DEF StoreFuture, Goto
<1>21. ASSUME NEW t \in Threads, TakeTimedOutFuture(t) PROVE
   [Runtime!Next]_Runtime!vars
  BY <1>21 DEF TakeTimedOutFuture, Goto
<1>22. ASSUME NEW t \in Threads, WaitForCleanup(t) PROVE
   [Runtime!Next]_Runtime!vars
  BY <1>22 DEF WaitForCleanup, Goto
<1>23. ASSUME NEW t \in Threads, FinishCleanup(t) PROVE
   [Runtime!Next]_Runtime!vars
  BY <1>23 DEF FinishCleanup, Goto
<1>24. ASSUME NEW t \in Threads, RecordOutcome(t) PROVE
   [Runtime!Next]_Runtime!vars
  BY <1>24 DEF RecordOutcome, AfterTimeout, Goto
<1>25. CASE UNCHANGED vars
  BY <1>25 DEF vars
<1> QED
  BY <1>1, <1>2, <1>3, <1>4, <1>5, <1>6, <1>7, <1>8, <1>9, <1>10, <1>11,
     <1>12, <1>13, <1>14, <1>15, <1>16, <1>17, <1>18, <1>19, <1>20, <1>21,
     <1>22, <1>23, <1>24, <1>25 DEF Next, Call, Continue

(* The lifecycle implements RtcRuntime, whatever the OBS threads call and  *)
(* however libdatachannel and its cleanup answer.                          *)
THEOREM RuntimeImplemented == Spec => ImplementsRuntime
<1>1. Init => Covered /\ Ownership
  BY DEF Init, Covered, Ownership, Scoped, RegisteredOnce, NewIsFresh,
     DestroyedOnce
<1>2. Init => Runtime!Init
  BY DEF Init, Runtime!Init, RuntimeState, InUse
<1> QED
  BY ControlInit, ControlStep, AccountInit, AccountStep, CoveredStep,
     OwnershipStep,
     UseNeedsPermit, RuntimeStep, <1>1, <1>2, PTL DEF Spec, ImplementsRuntime,
        Runtime!Spec

(* One transition of the module at a time, and no instance is given to two *)
(* destroy callbacks.                                                      *)
THEOREM OneAtATimeHolds == Spec => []OneAtATime
<1>1. Init => Ownership
  BY DEF Init, Ownership, Scoped, RegisteredOnce, NewIsFresh, DestroyedOnce
<1>2. Control /\ Ownership => OneAtATime
  BY DEF Control, Ownership, OneAtATime
<1> QED
  BY ControlInit, ControlStep, OwnershipStep, <1>1, <1>2, PTL DEF Spec
===============================================================================
