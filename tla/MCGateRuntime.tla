---------------------------- MODULE MCGateRuntime ----------------------------
(***************************************************************************)
(* Instances of GateRuntime: two files, two contents, candidates whose     *)
(* conditions and changes overlap.                                         *)
(***************************************************************************)
EXTENDS GateRuntime

CONSTANTS f1, f2, c1, c2

Exists(f, b)   == [file |-> f, what |-> "exists", val |-> b]
Contains(f, c) == [file |-> f, what |-> "content", val |-> c]
To(f, s)       == [file |-> f, to |-> s]
Probe(p)       == [kind |-> "probe", pred |-> p]
ReadFile(f, c) == [kind |-> "read", file |-> f, expect |-> c]

\* Writes f2, then a command edits f1; needs f1 as it was.
Edit ==
    [bound  |-> TRUE,
     pre    |-> <<Exists(f1, TRUE), Contains(f1, c1)>>,
     steps  |-> <<{To(f2, c1)}, {To(f1, c2), To(f2, c2)}>>,
     post   |-> <<Contains(f2, c2), Contains(f1, c2)>>,
     verify |-> <<ReadFile(f2, c2), Probe(Contains(f1, c2))>>]

\* Creates f2 when it is missing.
Create ==
    [bound  |-> TRUE,
     pre    |-> <<Exists(f2, FALSE)>>,
     steps  |-> <<{To(f2, c1)}>>,
     post   |-> <<Exists(f2, TRUE), Contains(f2, c1)>>,
     verify |-> <<ReadFile(f2, Absent), Probe(Contains(f2, c1))>>]

\* A template whose parameters the proposal does not carry.
Unbindable == [Create EXCEPT !.bound = FALSE]

\* A bound template: deletes f1.
Delete ==
    [bound  |-> TRUE,
     pre    |-> <<Exists(f1, TRUE)>>,
     steps  |-> <<{To(f1, Absent)}>>,
     post   |-> <<Exists(f1, FALSE)>>,
     verify |-> <<Probe(Exists(f1, FALSE))>>]

TwoFiles         == {f1, f2}
TwoContents      == {c1, c2}
TwoExperiences   == <<Edit, Create>>
TwoTemplates     == <<Unbindable, Delete>>
UnboundTemplates == <<Unbindable>>
=============================================================================
