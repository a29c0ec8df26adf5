\* One worker, infrastructure errors, no other fault.
CONSTANTS
  w1 = w1
  w2 = w2
  Workers <- OneWorker
  MaxMessages = 2
  Poison <- NoPoison
  InfraErrors = TRUE
  MaxFaults = 0
SPECIFICATION Spec
CHECK_DEADLOCK FALSE
INVARIANTS
  FailedIsRedelivered
