\* Two goroutines send, two clients of one recipient follow, a channel for one
\* message; or one client pages through three messages, some of the same time.
CONSTANTS
  Concurrency = 2
  Clients = {c1, c2}
  MaxMessages = 3
  BufSize = 1
  HistoryLimit = 1
  MaxFaults = 2
  InfraErrors = TRUE
  RowIds = {1, 2, 3}
  Stamps = {1, 2}
  Limits = {1, 2}
CHECK_DEADLOCK FALSE
SPECIFICATION InboxClientSpec
INVARIANTS
  NoSilentGap
  MissedForCause
  RepeatedForCause
PROPERTY PublishedIsDrained
