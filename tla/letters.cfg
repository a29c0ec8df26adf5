\* The consumer with every fault, one message that does not decode, and two replay requests.
CONSTANTS
  Tenants = {t1}
  Keys = {}
  MaxRows = 1
  MaxLog = 3
  InfraErrors = TRUE
  Admins = {a1, a2}
  Garbled <- SecondGarbled
  MaxRecords = 3
  MaxRestarts = 1
SPECIFICATION DeadLetterSpec
CHECK_DEADLOCK FALSE
INVARIANTS
  PersistedOrRefused
  ReplayedWasPublished
