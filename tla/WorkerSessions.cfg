CONSTANTS
  t1 = t1
  t2 = t2
  r1 = r1
  k1 = k1
  NoTask = NoTask
  NoRun = NoRun
  Tasks <- MCTasks
  Runs = {r1}
  Keys = {k1}
  runOf <- MCRunOf
  keyOf <- MCKeyOf
  kindsOf <- MCKindsOf
  MaxOrders = 1
SPECIFICATION FairSpec
INVARIANTS
  SessionExclusive
  DurableHandoff
PROPERTIES ClaimsSettle
CHECK_DEADLOCK FALSE
