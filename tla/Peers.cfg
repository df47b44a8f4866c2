SPECIFICATION Spec
CONSTANTS
  Channels = {c1, c2}
  MaxIncoming = 2
  ChannelBudgets <- MCChannelBudgets
  Copies = {h1, h2}
  SlotBudgets <- MCSlotBudgets
  PeerSessions = {"", s1, s2}
  MaxPeers = 3
  MaxQueued = 2
  PeerBudgets <- MCPeerBudgets
INVARIANTS
  PeersTypeOK
  HeardInOrder
  ChannelsSettle
  SlotsSettle
  EndedForCause
  LocalsArrive
SYMMETRY MCSymmetry
CHECK_DEADLOCK FALSE
