----------------------------- MODULE MCProcesses -----------------------------
(* Instances of Processes for TLC. *)
EXTENDS Processes

Environment(dlq, webhook, concurrency) ==
  [dlq |-> dlq, webhook |-> webhook, concurrency |-> concurrency]

\* Each optional consumer beside a pool that works, and concurrencies around the
\* edge.
SomeSettings ==
  {Environment(FALSE, TRUE, 1), Environment(TRUE, FALSE, 1), Environment(FALSE, FALSE, 0),
   Environment(FALSE, FALSE, -1)}
=============================================================================
