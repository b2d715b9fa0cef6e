SPECIFICATION DispatchSpec
CONSTANTS
  d1 = d1
  d2 = d2
  d3 = d3
  fA = fA
  fB = fB
  None = None
  Keys = {"k"}
  Serializable = {fA, fB}
  Ops <- AllOps
  Owners = {o1, o2}
  Fingerprints = {fA, fB}
  Dispatches = {d1, d2, d3}
  Plans <- AllPlans
  Steps = 2
  LeaseLength = 1
  RetentionWindow = 1
  MaxToken = 2
  MaxClock = 2
  MaxIncarnation = 2
INVARIANTS
  OwnOperationOnly
  NoSharedPermit
  SuccessMeansApplied
PROPERTIES
  ImplementsContract
  EveryRequestConcluded
CHECK_DEADLOCK FALSE
