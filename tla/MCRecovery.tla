----------------------------- MODULE MCRecovery -----------------------------
(* Instances of Recovery for TLC. *)
EXTENDS Recovery

Immediate == {"null"}
NoneGarbled == {}
=============================================================================
