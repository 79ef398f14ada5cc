CONSTANTS
  a = a
  b = b
  c = c
  d = d
  NoNode = NoNode
  w1 = w1
  w2 = w2
  Nodes <- Join
  Preds <- JoinPreds
  Workers <- TwoWorkers
  BrowserNodes <- JoinBrowserNodes
  TaskResults = {TRUE, FALSE}
  MayCancel = TRUE
SPECIFICATION Spec
INVARIANTS
  InFlightExact
  BrowserExclusive
  LogRespectsGraph
  LeavesWhenDecided
  OutcomeMatchesNodes
PROPERTIES
  ImplementsMachine
CHECK_DEADLOCK FALSE
