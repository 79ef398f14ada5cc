CONSTANTS
  a = a
  b = b
  c = c
  d = d
  NoNode = NoNode
  w1 = w1
  w2 = w2
  Nodes <- Pair
  Preds <- PairPreds
  Workers <- TwoWorkers
  BrowserNodes = {}
  TaskResults = {TRUE}
  MayCancel = FALSE
SPECIFICATION FairSpec
PROPERTIES
  RunReturns
CHECK_DEADLOCK FALSE
