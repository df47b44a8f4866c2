SPECIFICATION MCSpec
CONSTANTS
  Handlers = {h1, h2}
  Sockets = {h1}
  Uuids = {u1}
  Sessions = {s1}
  MaxViewers = 1
  Named = {s1}
  MaxGenerations = 1
  MaxMessages = 1
  MaxStarts = 1
  AutoOffer = TRUE
  None = none
SYMMETRY Symmetry
INVARIANT CallsLiveConnection
CHECK_DEADLOCK FALSE
