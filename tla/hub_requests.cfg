\* Two tenants, racing requests with and without keys and schedules, in bulk, and two pollers.
CONSTANTS
  Tenants = {t1, t2}
  Keys = {k1, ""}
  MaxRows = 2
  MaxLog = 2
  InfraErrors = TRUE
  Clients = {c1, c2}
  Schedules <- AnySchedule
  MaxBulk = 1
  Schedulers = {s1, s2}
  BatchSize = 1
  Handlers = {}
  MaxAttempts = 1
  MaxHandouts = 1
  MaxDoubts = 0
  DLQEnabled = TRUE
SPECIFICATION Spec
CHECK_DEADLOCK FALSE
SYMMETRY Symmetry
INVARIANTS
  IdempotentAnswers
  RecalledIsNotEnqueued
  AnsweredIsEnqueued
