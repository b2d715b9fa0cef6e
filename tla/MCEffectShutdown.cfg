SPECIFICATION FairSpec
CONSTANTS
  a = a
  b = b
  Callers <- MCCallers
  BatchOf <- MCBatchOf
  QueueCapacity = 1
  AcceptRetries = 1
  Settings <- MCSettings
INVARIANTS OkMeansQuiet PartialBatchIsHonest
PROPERTIES ShutdownReturns AdmittedCallsReturn
