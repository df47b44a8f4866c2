------------------------------ MODULE RtcRuntime ------------------------------
(***************************************************************************)
(* What the module lifecycle promises about libdatachannel's process-wide  *)
(* runtime: plugin instances come into use only while it is up, and it is  *)
(* taken down only when none is left, one cleanup after one start.  A      *)
(* cleanup that fails leaves it lost for the rest of the process.          *)
(***************************************************************************)
VARIABLES
  state,   \* where the runtime is
  inUse    \* does any plugin instance exist, or is one being made or destroyed?

vars == <<state, inUse>>

States == {"down", "starting", "up", "draining", "cleaning", "lost"}

\* Every variable has its type.
TypeOK == state \in States /\ inUse \in BOOLEAN

Init == state = "down" /\ inUse = FALSE

Move(from, to) == state = from /\ state' = to /\ UNCHANGED inUse

Start      == Move("down", "starting") /\ ~inUse
StartFails == Move("starting", "down") \/ Move("starting", "cleaning")
Started    == Move("starting", "up")
Drain      == Move("up", "draining")
Clean      == Move("draining", "cleaning") /\ ~inUse
Cleaned    == Move("cleaning", "down")
Lost       == Move("cleaning", "lost")

Enter == state = "up" /\ inUse' = TRUE /\ UNCHANGED state
Leave == state \in {"up", "draining"} /\ inUse' = FALSE /\ UNCHANGED state

(* The last instance is gone and the runtime goes down in one step. *)
Next == \/ Start \/ StartFails \/ Started \/ Drain \/ Clean \/ Cleaned \/ Lost
        \/ Enter \/ Leave

Spec == Init /\ [][Next]_vars

NotUsedUnlessUp == inUse => state \in {"up", "draining"}
===============================================================================
