------------------------------- MODULE ViewRetry -------------------------------
(***************************************************************************)
(* What VDONinjaSource remembers about asking for its stream, under        *)
(* retryStateMutex_: whether a request waits for its peer, whether a retry *)
(* is due, and whether the server told it to stop asking.  The operators   *)
(* map the record a critical section finds to the one it leaves.           *)
(*                                                                         *)
(* Times are kept as what has passed: a retry that was set matures, and a  *)
(* request stops being recent.  Every delay of a retry is longer than the  *)
(* gap between requests, so a retry matures only once the last request is  *)
(* not recent.                                                             *)
(***************************************************************************)
EXTENDS Integers

\* The delays of vdoninja-source.cpp and vdoninja-reliability.cpp, in ms.
MinViewRequestGap == 1500
ViewRequestTimeout == 15000
ViewerRetryDelay(count) ==
  IF count <= 0 THEN 15000 ELSE IF count = 1 THEN 45000 ELSE 180000
ViewerPeerRecoveryDelay == 5000

ASSUME RetriesOutlastTheGap ==
  /\ \A count \in 0..2 : ViewerRetryDelay(count) > MinViewRequestGap
  /\ ViewerPeerRecoveryDelay > MinViewRequestGap
  /\ ViewRequestTimeout > MinViewRequestGap

\* due is nextViewRetryTimeMs_: not set, set, or set and reached; recent says
\* that the last request is younger than the gap.
RetryState ==
  [awaiting: BOOLEAN, due: {"none", "waiting", "ripe"}, recent: BOOLEAN,
   asked: BOOLEAN, suppressed: BOOLEAN]

NoRetry == [awaiting |-> FALSE, due |-> "none", recent |-> FALSE,
            asked |-> FALSE, suppressed |-> FALSE]

\* requestViewStream, once it knows that signaling is connected.
MayRequest(r, reset) == reset \/ (~r.suppressed /\ ~r.recent)
Requested(r, reset) ==
  IF MayRequest(r, reset)
  THEN [r EXCEPT !.awaiting = TRUE, !.due = "none", !.recent = TRUE,
                 !.asked = TRUE]
  ELSE r

\* scheduleViewRetry: a retry already set is kept, the new one is later.
RetryScheduled(r) ==
  IF r.suppressed \/ r.due # "none" THEN r
  ELSE [r EXCEPT !.due = "waiting", !.awaiting = FALSE]

\* cancelViewRetry and the reset of markNativePeerConnectedIfReadyAccepted.
RetryCancelled(r) ==
  [r EXCEPT !.due = "none", !.awaiting = FALSE, !.suppressed = FALSE]

\* serviceViewRetry: no peer came in time, and a retry whose time has come.
TimedOut(r) == r.awaiting /\ r.asked /\ r.due = "none" /\ ~r.recent
RequestTimedOut(r) == [r EXCEPT !.due = "waiting", !.awaiting = FALSE]
RetryIsDue(r) == ~r.suppressed /\ r.due = "ripe"
RetryTaken(r) == [r EXCEPT !.due = "none"]

\* handleSignalingAlert, by the class of the alert.
Alerts == {"conflict", "busy", "other"}
Alerted(r, alert) ==
  CASE alert = "conflict" ->
         [r EXCEPT !.suppressed = TRUE, !.awaiting = FALSE, !.due = "none"]
    [] alert = "busy"  -> RetryScheduled(r)
    [] alert = "other" -> r

\* Time passes.
Elapsed(r) ==
  {[r EXCEPT !.recent = FALSE]}
    \cup {[r EXCEPT !.due = "ripe", !.recent = FALSE] :
            x \in {r.due} \cap {"waiting"}}
===============================================================================
