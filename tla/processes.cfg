\* Three starts of the two programs.
CONSTANTS
  Settings <- SomeSettings
  MaxStarts = 3
SPECIFICATION ProcSpec
CHECK_DEADLOCK FALSE
INVARIANTS
  InfraOutlivesWork
  ConsumersAreAssigned
PROPERTIES
  StopCompletes
  TopicIsRead
