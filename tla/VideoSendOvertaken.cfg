SPECIFICATION VideoSpec
CONSTANTS
  Viewers = {v1}
  QueueLimit = 2
  Sizes = {2}
  SeqModulus = 32
  FirstSequence = 30
  MaxFrames = 4
  MaxAudio = 1
  MaxLosses = 1
  MaxEvents = 1
INVARIANTS
  DeltasFollowReferences
CHECK_DEADLOCK FALSE
