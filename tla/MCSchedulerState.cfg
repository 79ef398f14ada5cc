CONSTANTS
  a = a
  b = b
  c = c
  d = d
  Nodes <- MCNodes
  Preds <- MCPreds
SPECIFICATION Spec
INVARIANTS
  DepCountExact
  UpstreamProduced
  FailureClosed
  NeverStuck
  OutcomeHonest
PROPERTY DecidedStays
