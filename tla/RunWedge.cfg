CONSTANTS
  a = a
  b = b
  c = c
  Nodes <- Chain
  Preds <- ChainPreds
  RetryMax <- ChainRetryMax
  BrowserNodes <- ChainBrowserNodes
  BatchSize = 1
  Outcomes = {"ok", "retryable", "fatal"}
  Faults = {}
  CrashPoints = {"dispatch.dispatched", "dispatch.recorded", "dispatch.running", "reap.marked", "fail.attempt_finished"}
  MaxMishaps = 1
SPECIFICATION Spec
INVARIANTS
  InFlightIsReapable
CHECK_DEADLOCK FALSE
