SPECIFICATION MCSpec
CONSTANTS
  Handlers = {h1, h2}
  Sockets = {h1}
  Uuids = {u1}
  Sessions = {s1, s2}
  MaxViewers = 1
  Named = {s1, s2}
  MaxGenerations = 2
  MaxMessages = 3
  MaxStarts = 1
  AutoOffer = TRUE
  None = none
SYMMETRY Symmetry
INVARIANTS
  ActiveIsRegistered
  PeersAccountedFor
  NoStrandedOffer
PROPERTIES
  ReportsInOrder
CHECK_DEADLOCK FALSE
