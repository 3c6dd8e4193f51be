----------------------------- MODULE MCGateHost -----------------------------
(***************************************************************************)
(* Instances of GateHost: two turns that race for the fuse and for         *)
(* usage.json through the task seat, beside a management call, and one     *)
(* turn after the other that passes the other seats.                       *)
(***************************************************************************)
EXTENDS GateHost, TLC

CONSTANTS e1, e2, e3

TaskSeat   == [e \in {e1} |-> "task"]
OtherSeats == (e1 :> "prefix") @@ (e2 :> "state") @@ (e3 :> "tool")
=============================================================================
