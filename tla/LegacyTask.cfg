SPECIFICATION FairSpec
CONSTANTS
  Order <- ThreeNodes
  MaxAttempts = 3
  WaitPolls = 2
  MaxRetries = 1
  MaxFaults = 1
INVARIANTS EndIsPainted NoSessionLeft HandshakeIsForThisSession
PROPERTIES RunEnds
CHECK_DEADLOCK FALSE
