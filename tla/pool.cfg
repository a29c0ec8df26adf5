\* Two workers sharing a channel, one undecodable message, every kind of fault.
CONSTANTS
  w1 = w1
  w2 = w2
  Workers <- TwoWorkers
  MaxMessages = 3
  Poison <- SecondIsPoison
  InfraErrors = TRUE
  MaxFaults = 2
SPECIFICATION FairSpec
CHECK_DEADLOCK FALSE
INVARIANTS
  TypeOK
  NoUnexplainedLoss
  DrainedWhenStopped
PROPERTIES
  CommitOnlyCompleted
  KeepsContract
  ShutdownCompletes
  EveryMessageHandled
