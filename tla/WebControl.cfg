SPECIFICATION Spec
CONSTANTS
  Runs = {r1, r2}
  Mine = {r1}
  Graphs <- AllGraphs
  Blank <- Empty
  NoGraph = NoGraph
  Plans <- AllPlans
  Pro = FALSE
  Engines = {"legacy", "evo"}
  MaxVersionRetries = 2
  MaxAttempts = 1
  MaxEdits = 1
  MaxFaults = 1
  r1 = r1
  r2 = r2
INVARIANTS RunsApprovedGraph StopReachesOwner PopupOnce
CHECK_DEADLOCK FALSE
