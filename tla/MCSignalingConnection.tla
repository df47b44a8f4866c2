------------------------ MODULE MCSignalingConnection -------------------------
(* Instances of SignalingConnection for TLC. *)
EXTENDS SignalingConnection

ConnectionBudget(c, f, s, t) ==
  [connects |-> c, failures |-> f, stops |-> s, throws |-> t]

\* Two connects with sockets that fail, or with one that fails, open() throwing
\* and a user callback that disconnects; and one whose every attempt may fail.
MCConnectionBudgets ==
  {ConnectionBudget(2, 2, 0, FALSE), ConnectionBudget(2, 1, 1, TRUE),
   ConnectionBudget(1, 4, 1, FALSE)}

\* One connect() and one disconnect().
MCStopDuringStartBudgets == {ConnectionBudget(1, 0, 0, FALSE)}

\* disconnect() returns, even when a user callback waits for it, connect() is
\* answered by an outcome, never only by its timeout, and the worker of a
\* client that was told to stop comes to its end.
CallsComplete == DisconnectReturns /\ ConnectIsAnswered /\ TeardownCompletes

\* The client gives up only because its first attempt failed, reconnecting is
\* off, the server forbade it or its attempts are used up, and one that lost
\* its connection reconnects, gives up or is told to stop.
RetriesAsConfigured == GivesUpForCause /\ ReconnectsOrStops
===============================================================================
