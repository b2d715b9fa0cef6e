SPECIFICATION MCSpec
CONSTANTS
  Units <- MCUnits
  Streams <- MCStreams
  Plan <- MCPlan
  Backends = {"memory", "postgres", "stoolap"}
  SingleWriter = TRUE
  PoolSize = 2
  MaxFaults = 1
INVARIANTS OncePerKey AnswersAreTrue
PROPERTIES ImplementsLog CallersAreAnswered
