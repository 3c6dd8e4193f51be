--------------------------- MODULE MCSessionStore ---------------------------
(* Instances of SessionStore: one session of each channel, or one alone. *)
EXTENDS SessionStore

CONSTANTS s1, s2

TwoSessions == {s1, s2}
OneSession  == {s1}
BothKinds   == [s \in {s1, s2} |-> IF s = s1 THEN "exec" ELSE "session"]
ExecOnly    == [s \in {s1} |-> "exec"]
HostOnly    == [s \in {s1} |-> "session"]
=============================================================================
