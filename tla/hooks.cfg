\* Endpoints of two tenants are changed while an event is fanned out and posted; a call fails and the worker crashes.
CONSTANTS
  Tenants = {t1, t2}
  Events = {ev}
  Dispatchers = {p1}
  MaxEndpoints = 2
  MaxUpdates = 1
  MaxDeliveries = 2
  MaxAttempts = 2
  MaxFaults = 1
CHECK_DEADLOCK FALSE
SPECIFICATION HookSpec
INVARIANTS
  RecordMatchesPosts
  PendingIsExplained
  PostedWhereOffered
PROPERTIES
  DeliveredStays
  PublishedIsMarked
