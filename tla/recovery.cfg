\* A notification that fails, is recorded and replayed; the consumer restarts once.
CONSTANTS
  Tenants = {t1}
  Keys = {}
  MaxRows = 1
  MaxLog = 2
  InfraErrors = FALSE
  Clients = {c1}
  Schedules <- Immediate
  MaxBulk = 0
  Schedulers = {}
  BatchSize = 1
  Handlers = {h1}
  MaxAttempts = 1
  MaxHandouts = 1
  MaxDoubts = 0
  DLQEnabled = TRUE
  Admins = {a1}
  Garbled <- NoneGarbled
  MaxRecords = 4
  MaxRestarts = 1
SPECIFICATION RecoverySpec
CHECK_DEADLOCK FALSE
PROPERTIES
  AcceptedIsConcluded
  FailedIsRecorded
  ReplayIsConcluded
