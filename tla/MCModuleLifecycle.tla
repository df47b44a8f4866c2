--------------------------- MODULE MCModuleLifecycle ---------------------------
(***************************************************************************)
(* The two lifetimes that others depend on, model-checked: that of the     *)
(* module and its RTC runtime, and that of a peer manager.  A behaviour is *)
(* one of a single component, the subject; the other stays in its initial  *)
(* state, where its fairness asks for nothing.                             *)
(***************************************************************************)
EXTENDS ModuleLifecycle, OwnerSession

VARIABLE subject

MCInit == subject \in {"module", "manager"} /\ Init /\ SessionInit

MCNext ==
  /\ UNCHANGED subject
  /\ \/ subject = "module" /\ Next /\ UNCHANGED ownerVars
     \/ subject = "manager" /\ SessionNext /\ UNCHANGED vars

MCSpec ==
  /\ MCInit /\ [][MCNext]_<<subject, vars, ownerVars>>
  /\ Fairness /\ SessionFairness

\* What is being taken down goes down: an unload is followed by the end of a
\* cleanup, and the destructor of a peer manager returns.
TeardownsEnd == UnloadReachesCleanup /\ DestructorEnds
===============================================================================
