SPECIFICATION FairSpec
CONSTANTS
  HostCount = 1
  MaxAttempts = 1
  AutoReconnect = TRUE
  MaxEpochs = 3
  ConnectionBudgets <- MCStopDuringStartBudgets
  CallbacksWait = TRUE
  StopDuringStart = TRUE
  ConnectAfterGivingUp = FALSE
PROPERTIES
  DisconnectReturns
CHECK_DEADLOCK FALSE
