SPECIFICATION MCSpec
CONSTANTS
  w1 = w1
  w2 = w2
  None = None
  Workers <- TwoWorkers
  NTags <- TagCount
  LastVersion <- Versions
  BatchSize = 2
  MaxFaults = 1
  MaxInterrupts = 1
INVARIANTS
  NoEventSkipped
  HolderHandlesFreshEvents
PROPERTIES
  OffsetNeverRewinds
  EveryEventHandled
CHECK_DEADLOCK FALSE
