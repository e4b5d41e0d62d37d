-------------------------- MODULE MCSessionRecovery --------------------------
(* Instances of SessionRecovery for TLC. *)
EXTENDS SessionRecovery
=============================================================================
