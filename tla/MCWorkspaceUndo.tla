-------------------------- MODULE MCWorkspaceUndo --------------------------
(* A workspace with two files, a directory and a file in it. *)
EXTENDS WorkspaceUndo, TLC

CONSTANTS a, d, x, m

Tree4 == (a :> {}) @@ (d :> {}) @@ (x :> {d}) @@ (m :> {})
=============================================================================
