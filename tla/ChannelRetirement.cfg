SPECIFICATION ChannelSpec
CONSTANTS
  Channels = {c1, c2}
  MaxIncoming = 2
  ChannelBudgets <- MCChannelBudgets
INVARIANTS
  RetirementDrains
CHECK_DEADLOCK FALSE
