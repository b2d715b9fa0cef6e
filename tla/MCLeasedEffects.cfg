SPECIFICATION RecoverySpec
CONSTANTS
  e1 = e1
  e2 = e2
  Effects <- TwoEffects
  ScopeOf <- OneKey
  FingerprintOf <- SameContent
  Registered <- TwoEffects
  Earlier = {e2}
  Workers = {w1, w2}
  None = None
  MaxAttempts = 1
  ReclaimBatchLimit = 1
  Settings <- Apart
  MaxFaults = 1
CHECK_DEADLOCK FALSE
PROPERTIES
  LeaseIsExclusive
  SuccessIsNeverForgotten
  ClaimsRecover
