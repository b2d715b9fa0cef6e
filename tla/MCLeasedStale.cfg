SPECIFICATION FairSpec
CONSTANTS
  e1 = e1
  e2 = e2
  Effects <- OneEffect
  ScopeOf <- OneKey
  FingerprintOf <- SameContent
  Registered <- OneEffect
  Earlier = {}
  Workers = {w1, w2}
  None = None
  MaxAttempts = 1
  ReclaimBatchLimit = 1
  Settings <- Apart
  MaxFaults = 0
CHECK_DEADLOCK FALSE
PROPERTIES
  StaleFlightsRecover
