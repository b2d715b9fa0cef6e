SPECIFICATION FairSpec
CONSTANTS
  Calls <- MCCalls
  Plans <- MCPlans
  NoValue = NoValue
  MaxCacheTtl = 3
  PoolSize = 2
  Debounce = 2
  MaxEntries = 2
INVARIANTS
  RevokedIsRefused
  CacheIsEvictable
PROPERTIES
  RefreshIsDebounced
  KeysConverge
  CallsAreAnswered
