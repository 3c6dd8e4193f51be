---------------------------- MODULE MCSessionHost ----------------------------
(* An instance of SessionHost for TLC. *)
EXTENDS SessionHost
=============================================================================
