----------------------------- MODULE GateRuntime -----------------------------
(***************************************************************************)
(* The embedded Experience gate (experience-controller, runtime.rs): one   *)
(* synchronous call that decides whether a known experience covers the     *)
(* proposed action (decide) and, if so, runs its compiled workflow and     *)
(* verifies its postconditions (execute).                                  *)
(*                                                                         *)
(* The gate observes the workspace one key at a time and the workspace is  *)
(* shared: between any two observations or steps another process may       *)
(* change it (Disturb), and another thread may request cancellation.       *)
(***************************************************************************)
EXTENDS Naturals, Sequences

CONSTANTS
    File,         \* the files that the experiences are about
    Content,      \* file contents
    Absent,       \* the file does not exist
    Directory,    \* the path exists and cannot be read as text
    Unobserved,   \* `probe` returned None
    Experiences,  \* the ACTIVE experiences that match the proposal, in order
    Templates     \* the ACTIVE templates that match it, in order

FileState == Content \cup {Absent, Directory}
Workspace == [File -> FileState]

Pred ==
    [file : File, what : {"exists"}, val : BOOLEAN]
        \cup [file : File, what : {"content"}, val : Content]

\* What a probe of the key <<file, what>> observes (LocalProbe::probe).
Observe(w, p) ==
    IF p.what = "exists" THEN w[p.file] # Absent
    ELSE IF w[p.file] \in Content THEN w[p.file] ELSE Unobserved

\* Predicate::probe = True.  An unobserved key is Unknown, never True.
Holds(w, p) == Observe(w, p) = p.val

\* The fact recorded when p's key is observed, whatever its value.
Fact(w, p) == [file |-> p.file, what |-> p.what, val |-> Observe(w, p)]

AllHold(w, list) == \A i \in 1..Len(list) : Holds(w, list[i])

\* A workflow step, of a tool or of a process: the changes it makes.
Change == [file : File, to : FileState]
Step   == SUBSET Change

Write(w, cs) ==
    [f \in File |-> IF \E c \in cs : c.file = f
                    THEN (CHOOSE c \in cs : c.file = f).to
                    ELSE w[f]]

\* A verification step: VerificationStep::Probe, or ReadFile (no expect_content: Absent).
ProbeStep == [kind : {"probe"}, pred : Pred]
ReadStep  == [kind : {"read"}, file : File, expect : Content \cup {Absent}]

\* The facts that a verification step adds.
FactsOf(w, v) ==
    IF v.kind = "probe"
    THEN IF Holds(w, v.pred) THEN <<v.pred>> ELSE <<>>
    ELSE IF w[v.file] \notin Content THEN <<>>
    ELSE IF w[v.file] # v.expect
         THEN <<[file |-> v.file, what |-> "exists", val |-> TRUE]>>
         ELSE <<[file |-> v.file, what |-> "exists", val |-> TRUE],
                [file |-> v.file, what |-> "content", val |-> v.expect]>>

\* An experience, or a template after bind; bound = FALSE: bind fails.
Body ==
    [bound  : BOOLEAN,
     pre    : Seq(Pred),
     steps  : Seq(Step),
     post   : Seq(Pred),
     verify : Seq(ProbeStep \cup ReadStep)]

\* The store admits no empty workflow and no empty postconditions (schema_issues).
Admitted(list) ==
    /\ list \in Seq(Body)
    /\ \A i \in 1..Len(list) : list[i].steps # <<>> /\ list[i].post # <<>>

ASSUME GateAssumption ==
    /\ Unobserved \notin Content \cup BOOLEAN
    /\ Absent \notin Content
    /\ Directory \notin Content \cup {Absent}
    /\ Admitted(Experiences) /\ \A i \in 1..Len(Experiences) : Experiences[i].bound
    /\ Admitted(Templates)

(***************************************************************************)
(* fact_value finds the FIRST fact about a key: a postcondition is         *)
(* satisfied by the facts iff that one has the expected value              *)
(* (Experience::postconditions_satisfied_by).                              *)
(***************************************************************************)
SameKey(p, q) == p.file = q.file /\ p.what = q.what

SatisfiedBy(post, list) ==
    \A i \in 1..Len(post) :
        \E j \in 1..Len(list) :
            /\ list[j] = post[i]
            /\ \A m \in 1..(j - 1) : ~SameKey(list[m], post[i])
-----------------------------------------------------------------------------
VARIABLES
    world,    \* the workspace
    phase,    \* where the call is
    cand,     \* the candidate being looked at: experiences, then templates
    k,        \* the next predicate, workflow step or verification step
    facts,    \* the evidence gathered so far (state_after)
    executed, \* the number of steps the result reports
    effects,  \* the side effects the result reports
    status,   \* the outcome of the call
    cancel,   \* the cancellation flag
    done,     \* history: the changes the workflow has made in this call
    outside   \* history: has anything outside the gate changed the workspace

vars == <<world, phase, cand, k, facts, executed, effects, status, cancel, done, outside>>

Phase  == {"idle", "pre", "post", "run", "observe", "verify", "returned", "panicked"}
Status == {"none", "miss", "completed", "partial", "failed"}

Candidates == Experiences \o Templates
body == Candidates[cand]
IsTemplate(c) == c > Len(Experiences)

Init ==
    /\ world \in Workspace
    /\ phase = "idle"
    /\ cand = 1
    /\ k = 1
    /\ facts = <<>>
    /\ executed = 0
    /\ effects = {}
    /\ status = "none"
    /\ cancel = FALSE
    /\ done = {}
    /\ outside = "never"

\* Begin a new round of observations.
Enter(p) ==
    /\ phase' = p
    /\ k' = 1
    /\ facts' = <<>>
    /\ outside' = IF outside = "now" THEN "earlier" ELSE outside

Return(s) ==
    /\ phase' = "returned"
    /\ status' = s
    /\ UNCHANGED <<cand, k, facts, outside>>

\* gate(proposal, context) is called; a panic ends only the task it occurs in.
Call ==
    /\ phase \in {"idle", "returned", "panicked"}
    /\ phase' = "pre"
    /\ cand' = 1
    /\ k' = 1
    /\ facts' = <<>>
    /\ executed' = 0
    /\ effects' = {}
    /\ status' = "none"
    /\ done' = {}
    /\ outside' = "never"
    /\ UNCHANGED <<world, cancel>>

(***************************************************************************)
(* decide: for each candidate in turn, first its preconditions ...         *)
(***************************************************************************)
NoCandidateLeft ==
    /\ phase = "pre"
    /\ cand > Len(Candidates)
    /\ Return("miss")
    /\ UNCHANGED <<world, executed, effects, cancel, done>>

\* template.bind failed: the template is skipped.
SkipUnbound ==
    /\ phase = "pre"
    /\ cand <= Len(Candidates)
    /\ ~body.bound
    /\ cand' = cand + 1
    /\ Enter("pre")
    /\ UNCHANGED <<world, executed, effects, status, cancel, done>>

\* Mutant of ProbePrecondition: Unknown counts as True.
ProbePreconditionUnknown ==
    /\ phase = "pre" /\ cand <= Len(Candidates) /\ body.bound /\ k <= Len(body.pre)
    /\ IF Observe(world, body.pre[k]) \in {body.pre[k].val, Unobserved}
       THEN k' = k + 1 /\ UNCHANGED <<phase, facts, outside>>
       ELSE Enter("post")
    /\ UNCHANGED <<world, cand, executed, effects, status, cancel, done>>

ProbePrecondition ==
    /\ phase = "pre"
    /\ cand <= Len(Candidates)
    /\ body.bound
    /\ k <= Len(body.pre)
    /\ IF Holds(world, body.pre[k])
       THEN k' = k + 1 /\ UNCHANGED <<phase, facts, outside>>
       ELSE Enter("post")
    /\ UNCHANGED <<world, cand, executed, effects, status, cancel, done>>

\* All preconditions held: Hit or TemplateHit, and the workflow starts.
Hit ==
    /\ phase = "pre"
    /\ cand <= Len(Candidates)
    /\ body.bound
    /\ k > Len(body.pre)
    /\ phase' = "run"
    /\ k' = 1
    /\ UNCHANGED <<world, cand, facts, executed, effects, status, cancel, done, outside>>

(***************************************************************************)
(* ... and if one does not hold, its postconditions.                       *)
(***************************************************************************)
ProbePostcondition ==
    /\ phase = "post"
    /\ k <= Len(body.post)
    /\ IF Holds(world, body.post[k])
       THEN /\ facts' = Append(facts, body.post[k])
            /\ k' = k + 1
            /\ UNCHANGED <<phase, cand, outside>>
       ELSE /\ cand' = cand + 1
            /\ Enter("pre")
    /\ UNCHANGED <<world, executed, effects, status, cancel, done>>

(***************************************************************************)
(* Satisfied: the no-op result carries the facts just probed.  execute     *)
(* looks the decided name up among the experiences only, so a template     *)
(* makes `expect` panic.                                                   *)
(***************************************************************************)
Satisfied ==
    /\ phase = "post"
    /\ k > Len(body.post)
    /\ IF IsTemplate(cand)
       THEN phase' = "panicked" /\ UNCHANGED <<cand, k, facts, outside, status>>
       ELSE Return("completed")
    /\ UNCHANGED <<world, executed, effects, cancel, done>>

(***************************************************************************)
(* execute_experience: the workflow, stopped by the first failure.         *)
(***************************************************************************)
\* The cancellation flag is read before each step.
StepCancelled ==
    /\ phase = "run"
    /\ k <= Len(body.steps)
    /\ cancel
    /\ Enter("observe")
    /\ UNCHANGED <<world, cand, executed, effects, status, cancel, done>>

StepSucceeds ==
    /\ phase = "run"
    /\ k <= Len(body.steps)
    /\ ~cancel
    /\ world' = Write(world, body.steps[k])
    /\ done' = done \cup body.steps[k]
    /\ effects' = effects \cup body.steps[k]
    /\ executed' = executed + 1
    /\ k' = k + 1
    /\ UNCHANGED <<phase, cand, facts, status, cancel, outside>>

\* Mutant of StepRefused: the refused takeover degrades to a pass-through.
StepRefusedPassesThrough ==
    /\ phase = "run" /\ k <= Len(body.steps) /\ ~cancel
    /\ Return("miss")
    /\ UNCHANGED <<world, executed, effects, cancel, done>>

\* The runner returned Err before the step changed anything (policy, path guard, spawn error).
StepRefused ==
    /\ phase = "run"
    /\ k <= Len(body.steps)
    /\ ~cancel
    /\ Enter("observe")
    /\ UNCHANGED <<world, cand, executed, effects, status, cancel, done>>

\* A step broke off: the files that it was to change are in any state.
Breaks(cs) ==
    /\ world' \in Workspace
    /\ \A f \in File : world'[f] # world[f] => \E c \in cs : c.file = f
    /\ done' = done \cup {[file |-> f, to |-> world'[f]] : f \in {g \in File : world'[g] # world[g]}}

\* Mutant of StepBreaksOff: the exit code is ignored and the chain goes on.
StepBreaksOffIgnored ==
    /\ phase = "run" /\ k <= Len(body.steps) /\ ~cancel
    /\ Breaks(body.steps[k])
    /\ executed' = executed + 1 /\ k' = k + 1
    /\ UNCHANGED <<phase, cand, facts, effects, status, cancel, outside>>

(***************************************************************************)
(* A process exited with another code than expected or was killed by its   *)
(* timeout, or a tool returned Err after a part of its work: some of the   *)
(* changes have happened, or a file was cut short.  Neither the step nor   *)
(* its side effects are added to the result.                               *)
(***************************************************************************)
StepBreaksOff ==
    /\ phase = "run"
    /\ k <= Len(body.steps)
    /\ ~cancel
    /\ Breaks(body.steps[k])
    /\ Enter("observe")
    /\ UNCHANGED <<cand, executed, effects, status, cancel>>

\* Mutant of ObserveAfter: a key that could not be observed is reported too.
ObserveAfterUnknown ==
    /\ phase = "observe" /\ k <= Len(body.post)
    /\ facts' = Append(facts, Fact(world, body.post[k]))
    /\ k' = k + 1
    /\ UNCHANGED <<world, phase, cand, executed, effects, status, cancel, done, outside>>

\* observe_after: whatever the postconditions' keys now are is reported.
ObserveAfter ==
    /\ phase = "observe"
    /\ k <= Len(body.post)
    /\ facts' = IF Observe(world, body.post[k]) = Unobserved THEN facts
                ELSE Append(facts, Fact(world, body.post[k]))
    /\ k' = k + 1
    /\ UNCHANGED <<world, phase, cand, executed, effects, status, cancel, done, outside>>

ReturnFailed ==
    /\ phase = "observe"
    /\ k > Len(body.post)
    /\ Return("failed")
    /\ UNCHANGED <<world, executed, effects, cancel, done>>

(***************************************************************************)
(* verify_postconditions, then the verdict.                                *)
(***************************************************************************)
WorkflowDone ==
    /\ phase = "run"
    /\ k > Len(body.steps)
    /\ Enter("verify")
    /\ UNCHANGED <<world, cand, executed, effects, status, cancel, done>>

VerifyStep ==
    /\ phase = "verify"
    /\ k <= Len(body.verify)
    /\ facts' = facts \o FactsOf(world, body.verify[k])
    /\ k' = k + 1
    /\ UNCHANGED <<world, phase, cand, executed, effects, status, cancel, done, outside>>

\* Mutant of Conclude: completion is asserted once any evidence is there.
ConcludeUnverified ==
    /\ phase = "verify" /\ k > Len(body.verify)
    /\ Return(IF facts # <<>> THEN "completed" ELSE "partial")
    /\ UNCHANGED <<world, executed, effects, cancel, done>>

Conclude ==
    /\ phase = "verify"
    /\ k > Len(body.verify)
    /\ Return(IF SatisfiedBy(body.post, facts) THEN "completed" ELSE "partial")
    /\ UNCHANGED <<world, executed, effects, cancel, done>>
-----------------------------------------------------------------------------
(* Other threads and other processes *)

RequestCancel ==
    /\ cancel' = TRUE
    /\ UNCHANGED <<world, phase, cand, k, facts, executed, effects, status, done, outside>>

ResetCancel ==
    /\ cancel' = FALSE
    /\ UNCHANGED <<world, phase, cand, k, facts, executed, effects, status, done, outside>>

Disturb(f, s) ==
    /\ world' = [world EXCEPT ![f] = s]
    /\ outside' = "now"
    /\ UNCHANGED <<phase, cand, k, facts, executed, effects, status, cancel, done>>

GateStep ==
    \/ NoCandidateLeft \/ SkipUnbound \/ ProbePrecondition \/ Hit
    \/ ProbePostcondition \/ Satisfied
    \/ StepCancelled \/ StepSucceeds \/ StepRefused \/ StepBreaksOff
    \/ ObserveAfter \/ ReturnFailed
    \/ WorkflowDone \/ VerifyStep \/ Conclude

Next ==
    \/ Call
    \/ GateStep
    \/ RequestCancel
    \/ ResetCancel
    \/ \E f \in File, s \in FileState : Disturb(f, s)

\* The gate is one synchronous call: once made, its thread runs it to the end.
Spec == Init /\ [][Next]_vars /\ WF_vars(GateStep)
-----------------------------------------------------------------------------
(* Correctness *)

TypeOK ==
    /\ world \in Workspace
    /\ phase \in Phase
    /\ cand \in 1..(Len(Candidates) + 1)
    /\ k \in Nat \ {0}
    /\ facts \in Seq(Pred)
    /\ executed \in Nat
    /\ effects \subseteq Change
    /\ status \in Status
    /\ cancel \in BOOLEAN
    /\ done \subseteq Change
    /\ outside \in {"never", "earlier", "now"}
    /\ phase \in {"post", "run", "observe", "verify"} => cand <= Len(Candidates)

\* Nothing outside has interfered since the current round of observations began.
Quiet == outside # "now"

(***************************************************************************)
(* A report tells the truth: unless somebody changed the workspace after   *)
(* the gate began the observations it reports, every fact of the result    *)
(* still holds when the call returns, and `completed` means that every     *)
(* postcondition of the chosen candidate holds (execute_experience,        *)
(* execute_already_satisfied, observe_after).                              *)
(***************************************************************************)
HonestReport ==
    (phase = "returned" /\ Quiet) =>
        /\ AllHold(world, facts)
        /\ status = "completed" => AllHold(world, body.post)

\* decide passes over c: bind failed, or neither its pre- nor its postconditions hold.
PassedOver(c) ==
    \/ ~Candidates[c].bound
    \/ /\ ~AllHold(world, Candidates[c].pre)
       /\ ~AllHold(world, Candidates[c].post)

(***************************************************************************)
(* decide takes the first applicable candidate, and misses only when there *)
(* is none: in a workspace nobody else touches, when the workflow starts   *)
(* its preconditions hold and every earlier candidate was rightly passed   *)
(* over, and at a Miss every candidate was.                                *)
(***************************************************************************)
FirstApplicable ==
    (outside = "never" /\ done = {}) =>
        /\ phase = "run" =>
              AllHold(world, body.pre) /\ \A c \in 1..(cand - 1) : PassedOver(c)
        /\ status = "miss" => \A c \in 1..Len(Candidates) : PassedOver(c)

(***************************************************************************)
(* The result accounts for the changes made: after a pass-through or a     *)
(* no-op nothing was changed, after a workflow that ran to its end every   *)
(* change is reported and every step is, and a failure reports nothing     *)
(* that did not happen (executed, executed_side_effects).                  *)
(***************************************************************************)
Accounted ==
    phase = "returned" =>
        /\ status = "miss" => done = {}
        /\ status = "completed" => executed \in {0, Len(body.steps)}
        /\ (status = "completed" /\ executed = 0) => done = {}
        /\ status \in {"completed", "partial"} => effects = done
        /\ status = "failed" => effects \subseteq done

(***************************************************************************)
(* The documented promise "side effects (if any) are reported for Agent    *)
(* takeover" (GateHitResult::failed): a failed result reports every change *)
(* that the workflow made.  A step that breaks off refutes it.             *)
(***************************************************************************)
FailureReportsEffects ==
    (phase = "returned" /\ status = "failed") => done \subseteq effects

(***************************************************************************)
(* The contract of gate.rs: once decide has returned a takeover a final    *)
(* GateHitResult is produced inside the same call; the gate never panics.  *)
(* A template that binds and is already satisfied refutes it.              *)
(***************************************************************************)
NeverPanics == phase # "panicked"

Contract ==
    INSTANCE GateContract WITH
        stage   <- IF phase \in {"pre", "post"} THEN "deciding"
                   ELSE IF phase \in {"run", "observe", "verify"} THEN "takeover"
                   ELSE phase,
        result  <- status,
        touched <- done # {}

(***************************************************************************)
(* The runtime implements the gate contract of gate.rs: every call         *)
(* returns, a Miss has touched nothing, and a takeover is never turned     *)
(* back into a Miss.                                                       *)
(***************************************************************************)
KeepsContract == Contract!Spec
=============================================================================
