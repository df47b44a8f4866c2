SPECIFICATION MCSpec
CONSTANTS
  Viewers = {v1}
  QueueLimit = 2
  Sizes = {2}
  SeqModulus = 32
  FirstSequence = 30
  MaxFrames = 3
  MaxAudio = 1
  MaxLosses = 1
  MaxEvents = 1
  MaxStarts = 2
  MaxStops = 2
  MaxOpens = 2
  MaxRequests = 1
  Pacers = {p1, p2}
  PacerLimit = 5
  RepairLimit = 3
  DuplicateLimit = 2
  MaxConsecutive = 2
  Burst = 1
  FrameSizes = {1, 2}
  PacerBudgets <- MCPacerBudgets
  Feeds = {w1, w2}
  Inbound = {i1, i2, mine}
  Own = {mine}
  Scenes = {scene1, scene2}
  NoScene = none
  InboundSettings <- MCInboundSettings
  MaxInboundStarts = 2
  InboundBudgets <- MCInboundBudgets
  StartOverlapsStop = FALSE
INVARIANTS
  EveryQueueOK
  BrokenOnlyWhenOvertaken
  NumbersFresh
  ThreadsInOrder
  ManagedIsShown
  MediaKeepsItsTurn
CHECK_DEADLOCK FALSE
