----------------------------- MODULE MCOutbound -----------------------------
(* Instances of Outbound for TLC. *)
EXTENDS Outbound, TLC

Text(subject, body) == [subject |-> subject, body |-> body]

TwoTexts == {Text(NullText, "A"), Text("S", "A")}

SomeUpdates ==
  {[subject |-> "T"], [body |-> "B"], [body |-> BlankText], [body |-> BadText],
   [active |-> TRUE]}

\* A payload with everything, one without a title, and one with nothing.
SomePayloads ==
  {[title |-> "raw", body |-> "raw", address |-> "to"],
   [title |-> NoText, body |-> "raw", address |-> "to"],
   [title |-> NoText, body |-> NoText, address |-> NoText]}

\* Editors and tenants are model values that no action tells apart.
Symmetry == Permutations(Editors) \cup Permutations(Tenants)
=============================================================================
