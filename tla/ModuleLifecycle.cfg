SPECIFICATION MCSpec
CONSTANTS
  Threads = {t1, t2, t3}
  Kinds = {source, output}
  Addresses = {a1, a2}
  None = none
  Repeating = {output}
  QuietThrows = FALSE
  CallbackThreads = {c1, c2}
  Functions = {f1, f2, f3}
  Copied = {f1}
  NoFunction = none
INVARIANTS
  PermitAccounting
  InstancesRunOnLiveRtc
  LoadAfterCleanup
  OneAtATime
  NoWorkDuringTeardown
  NothingLeftAttached
PROPERTIES
  ImplementsRuntime
  TeardownsEnd
CHECK_DEADLOCK FALSE
