-------------------------- MODULE MCServerLearning --------------------------
(* One experience and its draft. *)
EXTENDS ServerLearning, TLC

CONSTANTS exp, draft

OneDraft == exp :> draft
=============================================================================
