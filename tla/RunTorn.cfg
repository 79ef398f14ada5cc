CONSTANTS
  a = a
  b = b
  c = c
  Nodes <- Chain
  Preds <- ChainPreds
  RetryMax <- ChainRetryMax
  BrowserNodes <- ChainBrowserNodes
  BatchSize = 1
  Outcomes = {"ok", "retryable", "fatal"}
  Faults = {"cancel", "publish_fails"}
  CrashPoints = {"dispatch.dispatched", "dispatch.recorded", "dispatch.running", "dispatch.leased", "create.run", "create.partial", "reap.marked", "apply.claimed", "apply.completed", "fail.attempt_finished", "fail.completed", "cancel.partial", "stop.partial"}
  MaxMishaps = 2
SPECIFICATION Spec
INVARIANTS
  DispatchAfterPredecessors
  OneRunningAttempt
  FinishedRunIsSettled
  RetryBudget
PROPERTIES
  SettledStays
CHECK_DEADLOCK FALSE
