SPECIFICATION FairSpec
CONSTANTS
  HostCalls <- MCHostCalls
  MaxCalls <- MCMaxCalls
  MaxStarts = 2
  MaxShutdowns = 2
  MaxPanics = 1
INVARIANTS ShutdownIsThorough CancelIsNotLost
PROPERTIES BuildIsOrderFree WorkersEnd
