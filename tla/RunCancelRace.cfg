CONSTANTS
  a = a
  b = b
  c = c
  Nodes <- Join
  Preds <- JoinPreds
  RetryMax <- JoinRetryMax
  BrowserNodes <- JoinBrowserNodes
  BatchSize = 1
  Outcomes = {"ok"}
  Faults = {"cancel"}
  CrashPoints = {}
  MaxMishaps = 0
SPECIFICATION Spec
PROPERTIES
  NoDispatchAfterCancel
CHECK_DEADLOCK FALSE
