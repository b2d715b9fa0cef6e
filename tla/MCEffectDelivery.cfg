SPECIFICATION FairSpec
CONSTANTS
  a = a
  b = b
  c = c
  k = k
  x = x
  y = y
  Effects <- ThreeEffects
  Registered <- TwoEffects
  ScopeOf <- OneKey
  FingerprintOf <- Content
  p1 = p1
  p2 = p2
  Permits = {p1, p2}
  MaxAttempts = 1
  QueueCapacity = 1
  ReclaimBatchLimit = 2
  Settings <- MCSettings
INVARIANTS
  ScopeExclusive
  NoFalseSuccess
PROPERTIES
  ConfirmedNeverRepeated
  EventuallySettled
CHECK_DEADLOCK FALSE
