SPECIFICATION MCSpec
CONSTANTS
  c1 = c1
  c2 = c2
  c3 = c3
  k1 = k1
  NoKey = NoKey
  Nodes = {n1, n2}
  Commands = {c1, c2, c3}
  KeyChoices <- Choices
  PrintOf <- Content
  MailboxCapacity = 1
  SnapshotDecodes = TRUE
  MaxEpochs = 3
  MaxFaults = 1
INVARIANTS
  OneActorPerNode
  AppliedOnce
  StateIsReplay
  RepliesAreTrue
  NoCommandForgotten
SYMMETRY Symmetry
