--------------------------- MODULE MCStorePlanes ---------------------------
(***************************************************************************)
(* Instances of StorePlanes.  Five file objects suffice for two managers   *)
(* and the gate: the store, the temporary file and one per open writer.    *)
(***************************************************************************)
EXTENDS StorePlanes

FiveInodes == 1..5
=============================================================================
