CONSTANTS
  a = a
  b = b
  c = c
  Nodes <- Chain
  Preds <- ChainPreds
  RetryMax <- ChainRetryMax
  BrowserNodes <- ChainBrowserNodes
  BatchSize = 1
  Outcomes = {"ok", "retryable", "fatal"}
  Faults = {"cancel", "stop", "publish_fails", "quota_full", "ack_lost"}
  CrashPoints = {"dispatch.leased", "apply.claimed", "apply.completed", "cancel.partial"}
  MaxMishaps = 1
SPECIFICATION FairSpec
PROPERTIES
  RunSettles
CHECK_DEADLOCK FALSE
