CONSTANTS
  a = a
  b = b
  c = c
  Nodes <- Join
  Preds <- JoinPreds
  RetryMax <- JoinRetryMax
  BrowserNodes <- JoinBrowserNodes
  BatchSize = 2
  Outcomes = {"ok", "retryable", "fatal"}
  Faults = {"cancel", "publish_fails", "ack_lost", "quota_full"}
  CrashPoints = {"dispatch.leased", "apply.claimed", "apply.completed"}
  MaxMishaps = 1
SPECIFICATION Spec
INVARIANTS
  MemoryMatchesRows
  SlotsMatchWork
  LoopIsNeverStuck
  StampedCancelIsHonored
PROPERTIES
  FreshAttempts
  AttemptsSettle
  ImplementsMachine
CHECK_DEADLOCK FALSE
