CONSTANTS
  a = a
  b = b
  NoNode = NoNode
  Nodes <- Single
  Later <- SingleLater
  MaxRetries = 1
  MaxFaults = 1
  Outcomes = {"stopped"}
SPECIFICATION FairSpec
INVARIANTS
  CaughtUp
  TerminalIsTrue
  SnapshotIsWhole
PROPERTIES
  DecidedStepsStay
  ViewSettles
CHECK_DEADLOCK FALSE
