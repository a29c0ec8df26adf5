---------------------------- MODULE MCNotifyHub ----------------------------
(* Instances of NotifyHub for TLC. *)
EXTENDS NotifyHub, TLC

Immediate == {"null"}
NowOrDue == {"null", "due"}
InTheFuture == {"future"}
AnySchedule == {"null", "future", "due"}

\* The members of these sets are model values that no action tells apart.
Symmetry ==
  Permutations(Handlers) \cup Permutations(Tenants) \cup Permutations(Clients)
    \cup Permutations(Schedulers)
=============================================================================
