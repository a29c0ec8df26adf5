\* A scheduled notification comes due; nothing fails.
CONSTANTS
  Tenants = {t1}
  Keys = {}
  MaxRows = 1
  MaxLog = 1
  InfraErrors = FALSE
  Clients = {c1}
  Schedules <- InTheFuture
  MaxBulk = 0
  Schedulers = {s1}
  BatchSize = 1
  Handlers = {h1}
  MaxAttempts = 1
  MaxHandouts = 1
  MaxDoubts = 0
  DLQEnabled = TRUE
SPECIFICATION CalmSpec
CHECK_DEADLOCK FALSE
PROPERTIES
  ScheduledIsConcluded
