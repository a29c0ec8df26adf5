\* One row from creation to outcome: a request, a scheduler and two handlers, with errors and crashes.
CONSTANTS
  Tenants = {t1}
  Keys = {}
  MaxRows = 1
  MaxLog = 2
  InfraErrors = TRUE
  Clients = {c1}
  Schedules <- NowOrDue
  MaxBulk = 0
  Schedulers = {s1}
  BatchSize = 1
  Handlers = {h1, h2}
  MaxAttempts = 2
  MaxHandouts = 2
  MaxDoubts = 1
  DLQEnabled = TRUE
SPECIFICATION Spec
CHECK_DEADLOCK FALSE
SYMMETRY Symmetry
INVARIANTS
  DeliveredWasSent
  FailedIsDeadLettered
  RetryBounded
  CopiesAreBounded
PROPERTY OutcomeIsKept
