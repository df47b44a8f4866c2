SPECIFICATION RemoteSpec
CONSTANTS
  PeerSessions = {"", s1, s2}
  MaxPeers = 3
  MaxQueued = 2
  PeerBudgets <- MCPeerBudgets
INVARIANTS
  CandidatesReachPeer
CHECK_DEADLOCK FALSE
