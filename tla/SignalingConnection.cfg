SPECIFICATION FairSpec
CONSTANTS
  HostCount = 2
  MaxAttempts = 1
  AutoReconnect = TRUE
  MaxEpochs = 8
  ConnectionBudgets <- MCConnectionBudgets
  CallbacksWait = TRUE
  StopDuringStart = FALSE
  ConnectAfterGivingUp = FALSE
INVARIANTS
  TypeOK
  ConnectedIsCurrent
  ReportedOnce
  NothingLeftBehind
PROPERTIES
  RetriesAsConfigured
  CallsComplete
CHECK_DEADLOCK FALSE
