SPECIFICATION OutputSpec
CONSTANTS
  MaxStarts = 1
  MaxStops = 1
  MaxOpens = 1
  MaxRequests = 1
PROPERTY StopReturns
CHECK_DEADLOCK FALSE
