SPECIFICATION Spec
CONSTANTS
  Publishers = {a, b}
  MaxGenerations = 2
  Budgets <- MCBudgets
  Timestamps = 8
  MaxFrames = 2
  MaxTimestampDelta = 2
  VideoThreads = {v1, v2}
  AlphaThreads = {l1}
  FirstTimestamp = 6
  MediaBudgets <- MCMediaBudgets
  AudioThreads = {s1, s2}
  Wrap = 4
  MaxPackets = 3
  MaxAudioEvents = 2
  Muting = TRUE
  Retiring = TRUE
  Streams = {"s", "t"}
  Sizes = {1, 2}
  MaxChanges = 4
  MaxAccidents = 1
INVARIANTS
  ReceivingTypeOK
  OneLiveOwner
  ShownFollowsOwner
  PlayedTracksAreWired
  StillAsking
  ShownIsCurrent
  AlphaMatches
  ChildFollowsWrapper
PROPERTIES
  PicturesAdvance
  SoundAdvances
SYMMETRY MCSymmetry
CHECK_DEADLOCK FALSE
