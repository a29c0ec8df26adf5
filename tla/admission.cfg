\* Two callers, two tenants; a window of two ticks, time stamps that collide, a day of three.
CONSTANTS
  Callers = {g1, g2}
  Window = 2
  Slack = 1
  Caps = {0, 1, 2}
  Quantum = 2
  MaxClock = 4
  MaxCalls = 3
  InfraErrors = TRUE
  Tenants = {t1, t2}
  Day = 3
  Offset <- TwoZones
  Requests <- SomeRequests
  MaxUpserts = 1
SPECIFICATION AdmissionSpec
CHECK_DEADLOCK FALSE
SYMMETRY Symmetry
INVARIANTS
  WindowBound
  DenialIsJustified
PROPERTY PreferenceHonoured
