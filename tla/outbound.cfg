\* One name that two tenants use, two overlapping updates, one worker.
CONSTANTS
  Tenants = {t1, t2}
  Names = {n1}
  Editors = {e1, e2}
  Creations <- TwoTexts
  Updates <- SomeUpdates
  MaxTemplates = 1
  MaxEdits = 3
  InfraErrors = TRUE
  Workers = {w1}
  Payloads <- SomePayloads
  MaxRuns = 1
  MaxAttempts = 2
SPECIFICATION OutboundSpec
CHECK_DEADLOCK FALSE
SYMMETRY Symmetry
INVARIANTS
  VersionCountsUpdates
  SentIsTemplate
  ReasonIsTrue
PROPERTY UpdateLeavesRest
