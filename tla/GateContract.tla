----------------------------- MODULE GateContract -----------------------------
(***************************************************************************)
(* What the gate promises its caller (gate.rs, module comment): a call     *)
(* either passes through and has touched nothing, or takes over and then,  *)
(* inside the same call, produces a final result.  A takeover never turns  *)
(* back into a pass-through, and completion with nothing executed is       *)
(* possible (Satisfied).                                                   *)
(***************************************************************************)
VARIABLES
    stage,    \* "idle", "deciding", "takeover" or "returned"
    result,   \* what the call returned
    touched   \* the gate has changed the workspace during this call

vars == <<stage, result, touched>>

Init ==
    /\ stage = "idle"
    /\ result = "none"
    /\ touched = FALSE

Call ==
    /\ stage \in {"idle", "returned"}
    /\ stage' = "deciding"
    /\ result' = "none"
    /\ touched' = FALSE

\* Miss: the original tool runs.  Satisfied: a successful no-op.
Decline ==
    /\ stage = "deciding"
    /\ stage' = "returned"
    /\ result' \in {"miss", "completed"}
    /\ UNCHANGED touched

TakeOver ==
    /\ stage = "deciding"
    /\ stage' = "takeover"
    /\ UNCHANGED <<result, touched>>

Work ==
    /\ stage = "takeover"
    /\ touched' = TRUE
    /\ UNCHANGED <<stage, result>>

Finish ==
    /\ stage = "takeover"
    /\ stage' = "returned"
    /\ result' \in {"completed", "partial", "failed"}
    /\ UNCHANGED touched

Next == Call \/ Decline \/ TakeOver \/ Work \/ Finish

\* Every call returns.
Spec ==
    /\ Init
    /\ [][Next]_vars
    /\ WF_vars(Decline \/ TakeOver)
    /\ WF_vars(Finish)
=============================================================================
