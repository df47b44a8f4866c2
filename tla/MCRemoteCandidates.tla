--------------------------- MODULE MCRemoteCandidates --------------------------
(* RemotePeer with an offer on one thread and a candidate on another, for TLC. *)
EXTENDS RemotePeer

MCPeerBudgets ==
  {[kinds |-> {"offer", "candidate"}, socket |-> 1, late |-> 1, failures |-> 0,
    locals |-> 0, ends |-> 0, owner |-> 0, losses |-> 0]}
===============================================================================
