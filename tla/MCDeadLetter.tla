---------------------------- MODULE MCDeadLetter ----------------------------
(* Instances of DeadLetter for TLC. *)
EXTENDS DeadLetter

NoneGarbled == {}
SecondGarbled == {2}
=============================================================================
