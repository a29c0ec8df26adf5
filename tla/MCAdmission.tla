----------------------------- MODULE MCAdmission -----------------------------
(* Instances of Admission for TLC. *)
EXTENDS Admission, TLC

TwoZones == [z \in {"UTC", "East"} |-> IF z = "UTC" THEN 0 ELSE 1]

Body(enabled, start, end, zone) ==
  [enabled |-> enabled, start |-> start, end |-> end, zone |-> zone]

\* Over midnight, within a day, of length 0, half given, and switched off.
SomeRequests ==
  {Body(TRUE, 2, 1, NullZone), Body(TRUE, 1, 2, "East"), Body(TRUE, 2, 0, "Atlantis"),
   Body(TRUE, 1, 1, "East"), Body(TRUE, NullTime, 2, "UTC"), Body(FALSE, 0, 1, "UTC")}

\* The callers, and the tenants, are model values that no action tells apart.
Symmetry == Permutations(Callers) \cup Permutations(Tenants)
=============================================================================
