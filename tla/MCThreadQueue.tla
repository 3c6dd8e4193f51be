---------------------------- MODULE MCThreadQueue ----------------------------
(* An instance of ThreadQueue for TLC. *)
EXTENDS ThreadQueue
=============================================================================
