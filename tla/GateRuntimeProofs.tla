-------------------------- MODULE GateRuntimeProofs --------------------------
(***************************************************************************)
(* Proofs about GateRuntime, for every workspace, every list of            *)
(* experiences and templates, and every interference from outside.         *)
(***************************************************************************)
EXTENDS GateRuntime, SequenceTheorems, TLAPS

\* The facts gathered so far are true unless somebody interfered; the
\* decision and the workflow start from none.
EvidenceInv ==
    /\ phase \in {"idle", "pre", "run"} => facts = <<>>
    /\ Quiet => \A i \in 1..Len(facts) : Holds(world, facts[i])
    /\ (phase = "post" /\ Quiet) => \A i \in 1..(k - 1) : Holds(world, body.post[i])

\* What the call has reported so far against what it has done.
AccountInv ==
    /\ phase \in {"idle", "pre", "post"} => done = {} /\ effects = {} /\ executed = 0
    /\ phase = "run" => effects = done /\ executed = k - 1 /\ k <= Len(body.steps) + 1
    /\ phase = "verify" => effects = done /\ executed = Len(body.steps)
    /\ phase = "observe" => effects \subseteq done
    /\ status # "none" => phase = "returned"

\* How far decide has got.
DecideInv ==
    (outside = "never" /\ done = {} /\ phase \in {"pre", "post", "run"}) =>
          /\ \A c \in 1..(cand - 1) : PassedOver(c)
          /\ phase = "pre" => \A i \in 1..(k - 1) : Holds(world, body.pre[i])
          /\ phase = "post" => body.bound /\ ~AllHold(world, body.pre)

GateInv ==
    /\ TypeOK
    /\ EvidenceInv
    /\ AccountInv
    /\ DecideInv
    /\ HonestReport
    /\ FirstApplicable
    /\ Accounted
-----------------------------------------------------------------------------
(* The operators *)

\* A candidate the store lets through is a body with a workflow and postconditions.
LEMMA CandidateTypes ==
    /\ Len(Candidates) \in Nat
    /\ \A c \in 1..Len(Candidates) :
          /\ Candidates[c] \in Body
          /\ Candidates[c].steps # <<>>
          /\ Candidates[c].post # <<>>
  <1>1. Experiences \in Seq(Body) /\ Templates \in Seq(Body)
    BY GateAssumption DEF Admitted
  <1>2. Candidates \in Seq(Body) /\ Len(Candidates) = Len(Experiences) + Len(Templates)
    BY <1>1 DEF Candidates
  <1>3. ASSUME NEW c \in 1..Len(Candidates)
        PROVE  \/ /\ c \in 1..Len(Experiences)
                  /\ Candidates[c] = Experiences[c]
               \/ /\ c - Len(Experiences) \in 1..Len(Templates)
                  /\ Candidates[c] = Templates[c - Len(Experiences)]
    BY <1>1, <1>2 DEF Candidates
  <1>4. ASSUME NEW c \in 1..Len(Candidates)
        PROVE  Candidates[c].steps # <<>> /\ Candidates[c].post # <<>>
    BY <1>3, GateAssumption DEF Admitted
  <1> QED
    BY <1>2, <1>4

\* A fact recorded from an observed key is well formed and true.
LEMMA FactTrue ==
    ASSUME NEW w \in Workspace, NEW p \in Pred, Observe(w, p) # Unobserved
    PROVE  Fact(w, p) \in Pred /\ Holds(w, Fact(w, p))
  <1>1. CASE p \in [file : File, what : {"exists"}, val : BOOLEAN]
    BY <1>1 DEF Fact, Holds, Observe, Pred
  <1>2. CASE p \in [file : File, what : {"content"}, val : Content]
    BY <1>2 DEF Fact, Holds, Observe, Pred
  <1> QED
    BY <1>1, <1>2 DEF Pred

\* A predicate that holds is the fact that was observed for it.
LEMMA HeldIsObserved ==
    ASSUME NEW w \in Workspace, NEW p \in Pred, Holds(w, p)
    PROVE  Observe(w, p) # Unobserved
  BY GateAssumption DEF Holds, Pred

\* The facts of a verification step are well formed and true.
LEMMA VerifiedFactsTrue ==
    ASSUME NEW w \in Workspace, NEW v \in ProbeStep \cup ReadStep
    PROVE  /\ FactsOf(w, v) \in Seq(Pred)
           /\ \A i \in 1..Len(FactsOf(w, v)) : Holds(w, FactsOf(w, v)[i])
  <1>1. CASE v \in ProbeStep
    BY <1>1 DEF FactsOf, ProbeStep
  <1>2. CASE v \in ReadStep
    <2> DEFINE e == [file |-> v.file, what |-> "exists", val |-> TRUE]
               c == [file |-> v.file, what |-> "content", val |-> v.expect]
    <2>1. v.kind # "probe" /\ v.file \in File
      BY <1>2 DEF ReadStep
    <2>2. ASSUME w[v.file] \in Content PROVE e \in Pred /\ Holds(w, e)
      BY <2>1, <2>2, GateAssumption DEF Pred, Holds, Observe
    <2>3. ASSUME w[v.file] \in Content, w[v.file] = v.expect
          PROVE  c \in Pred /\ Holds(w, c)
      BY <2>1, <2>3 DEF Pred, Holds, Observe
    <2>4. FactsOf(w, v) = IF w[v.file] \notin Content THEN <<>>
                          ELSE IF w[v.file] # v.expect THEN <<e>> ELSE <<e, c>>
      BY <2>1 DEF FactsOf
    <2> HIDE DEF e, c
    <2> QED
      BY <2>2, <2>3, <2>4
  <1> QED
    BY <1>1, <1>2

\* Writing keeps the workspace well formed, and writing nothing changes nothing.
LEMMA WriteType ==
    ASSUME NEW w \in Workspace, NEW cs \in SUBSET Change
    PROVE  Write(w, cs) \in Workspace /\ (cs = {} => Write(w, cs) = w)
  <1>1. ASSUME NEW f \in File, \E c \in cs : c.file = f
        PROVE  (CHOOSE c \in cs : c.file = f).to \in FileState
    BY <1>1 DEF Change
  <1>2. \A f \in File : Write(w, cs)[f] \in FileState
    BY <1>1 DEF Write, Workspace
  <1> QED
    BY <1>2 DEF Write, Workspace
-----------------------------------------------------------------------------
(* The type invariant *)

\* What the body of the candidate under consideration consists of.
LEMMA BodyTypes ==
    ASSUME TypeOK, cand <= Len(Candidates)
    PROVE  /\ body \in Body
           /\ body.steps # <<>> /\ body.post # <<>>
           /\ cand + 1 \in 1..(Len(Candidates) + 1)
           /\ Len(body.pre) \in Nat /\ Len(body.post) \in Nat
           /\ Len(body.steps) \in Nat \ {0} /\ Len(body.verify) \in Nat
           /\ \A i \in 1..Len(body.pre) : body.pre[i] \in Pred
           /\ \A i \in 1..Len(body.post) : body.post[i] \in Pred
           /\ \A i \in 1..Len(body.steps) : body.steps[i] \in SUBSET Change
           /\ \A i \in 1..Len(body.verify) : body.verify[i] \in ProbeStep \cup ReadStep
  <1>1. cand \in 1..Len(Candidates) /\ cand + 1 \in 1..(Len(Candidates) + 1)
    BY CandidateTypes DEF TypeOK
  <1>2. body \in Body /\ body.steps # <<>> /\ body.post # <<>>
    BY <1>1, CandidateTypes DEF body
  <1>3. /\ body.pre \in Seq(Pred) /\ body.post \in Seq(Pred)
        /\ body.steps \in Seq(Step) /\ body.verify \in Seq(ProbeStep \cup ReadStep)
    BY <1>2 DEF Body
  <1>4. \A i \in 1..Len(body.steps) : body.steps[i] \in SUBSET Change
    <2>1. \A s \in Step : s \in SUBSET Change
      BY DEF Step
    <2> QED
      BY <1>3, <2>1
  <1>5. Len(body.steps) \in Nat \ {0}
    BY <1>2, <1>3, EmptySeq
  <1> QED
    BY <1>1, <1>2, <1>3, <1>4, <1>5

\* The type invariant holds initially ...
LEMMA TypeInit == Init => TypeOK
  <1> SUFFICES ASSUME Init PROVE TypeOK
    OBVIOUS
  <1>1. cancel \in BOOLEAN
    BY Zenon DEF Init
  <1>2. cand \in 1..(Len(Candidates) + 1) /\ k \in Nat \ {0} /\ executed \in Nat
    BY CandidateTypes DEF Init
  <1>3. facts \in Seq(Pred)
    BY EmptySeq DEF Init
  <1>4. /\ world \in Workspace /\ phase \in Phase /\ status \in Status
        /\ effects \subseteq Change /\ done \subseteq Change
        /\ outside \in {"never", "earlier", "now"}
        /\ phase \notin {"post", "run", "observe", "verify"}
    BY DEF Init, Phase, Status
  <1> QED
    BY <1>1, <1>2, <1>3, <1>4 DEF TypeOK

\* ... and every step keeps it: one case per action.
LEMMA TypeStep == TypeOK /\ [Next]_vars => TypeOK'
  <1> SUFFICES ASSUME TypeOK, [Next]_vars PROVE TypeOK'
    OBVIOUS
  <1> USE DEF Phase, Status
  <1>0. ASSUME NEW s \in Status, Return(s), UNCHANGED <<world, executed, effects, cancel, done>>
        PROVE  TypeOK'
    BY <1>0 DEF TypeOK, Return, Candidates
  <1>1. CASE Call
    BY <1>1, CandidateTypes DEF Call, TypeOK, Candidates
  <1>2. CASE NoCandidateLeft
    BY <1>2, <1>0 DEF NoCandidateLeft
  <1>3. CASE SkipUnbound
    BY <1>3, BodyTypes, CandidateTypes DEF SkipUnbound, Enter, TypeOK
  <1>4. CASE ProbePrecondition
    <2>1. CASE Holds(world, body.pre[k])
      BY <1>4, <2>1 DEF ProbePrecondition, TypeOK
    <2>2. CASE ~Holds(world, body.pre[k])
      BY <1>4, <2>2, EmptySeq DEF ProbePrecondition, Enter, TypeOK
    <2> QED
      BY <2>1, <2>2
  <1>5. CASE Hit
    BY <1>5, CandidateTypes DEF Hit, TypeOK
  <1>6. CASE ProbePostcondition
    <2>1. cand <= Len(Candidates) /\ phase = "post"
      BY <1>6 DEF ProbePostcondition, TypeOK
    <2>2. cand + 1 \in 1..(Len(Candidates) + 1) /\ body.post[k] \in Pred
      BY <1>6, <2>1, BodyTypes DEF ProbePostcondition, TypeOK
    <2>3. CASE Holds(world, body.post[k])
      <3>1. facts' = Append(facts, body.post[k]) /\ facts' \in Seq(Pred)
        <4>1. facts' = Append(facts, body.post[k])
          BY ONLY <1>6, <2>3 DEF ProbePostcondition
        <4>2. facts \in Seq(Pred)
          BY DEF TypeOK
        <4> QED
          BY ONLY <2>2, <4>1, <4>2
      <3> QED
        BY <1>6, <2>1, <2>3, <3>1 DEF ProbePostcondition, TypeOK
    <2>4. CASE ~Holds(world, body.post[k])
      BY <1>6, <2>2, <2>4, EmptySeq DEF ProbePostcondition, Enter, TypeOK
    <2> QED
      BY <2>3, <2>4
  <1>7. CASE Satisfied
    BY <1>7, <1>0 DEF Satisfied, TypeOK
  <1>8. CASE StepCancelled
    BY <1>8, CandidateTypes DEF StepCancelled, Enter, TypeOK
  <1>9. CASE StepSucceeds
    <2>1. phase = "run" /\ cand <= Len(Candidates)
      BY <1>9 DEF StepSucceeds, TypeOK
    <2>2. body.steps[k] \in SUBSET Change
      BY <1>9, <2>1, BodyTypes DEF StepSucceeds, TypeOK
    <2>3. world' \in Workspace /\ done' \subseteq Change /\ effects' \subseteq Change
      BY ONLY TypeOK, <1>9, <2>2, WriteType DEF StepSucceeds, TypeOK
    <2>4. executed' \in Nat /\ k' \in Nat \ {0}
      BY ONLY TypeOK, <1>9 DEF StepSucceeds, TypeOK
    <2> QED
      BY <1>9, <2>1, <2>3, <2>4 DEF StepSucceeds, TypeOK
  <1>10. CASE StepRefused
    BY <1>10, CandidateTypes DEF StepRefused, Enter, TypeOK
  <1>11. CASE StepBreaksOff
    <2>1. world' \in Workspace /\ \A f \in File : world'[f] \in FileState
      BY <1>11 DEF StepBreaksOff, Breaks, Workspace
    <2>2. done' \subseteq Change
      <3> DEFINE Made == {[file |-> f, to |-> world'[f]] : f \in {g \in File : world'[g] # world[g]}}
      <3>1. Made \subseteq Change
        BY <2>1 DEF Change
      <3>2. done' = done \cup Made
        BY <1>11 DEF StepBreaksOff, Breaks
      <3> QED
        BY <3>1, <3>2 DEF TypeOK
    <2> QED
      BY <1>11, <2>1, <2>2, CandidateTypes DEF StepBreaksOff, Enter, TypeOK
  <1>12. CASE ObserveAfter
    BY <1>12, BodyTypes, CandidateTypes, FactTrue DEF ObserveAfter, TypeOK
  <1>13. CASE ReturnFailed
    BY <1>13, <1>0 DEF ReturnFailed
  <1>14. CASE WorkflowDone
    BY <1>14, CandidateTypes DEF WorkflowDone, Enter, TypeOK
  <1>15. CASE VerifyStep
    <2>1. FactsOf(world, body.verify[k]) \in Seq(Pred)
      BY <1>15, BodyTypes, VerifiedFactsTrue DEF VerifyStep, TypeOK
    <2>2. facts' \in Seq(Pred)
      BY <1>15, <2>1 DEF VerifyStep, TypeOK
    <2> QED
      BY <1>15, <2>2 DEF VerifyStep, TypeOK
  <1>16. CASE Conclude
    BY <1>16, <1>0 DEF Conclude
  <1>17. CASE RequestCancel \/ ResetCancel
    BY <1>17 DEF RequestCancel, ResetCancel, TypeOK
  <1>18. CASE \E f \in File, s \in FileState : Disturb(f, s)
    BY <1>18 DEF Disturb, TypeOK, Workspace
  <1>19. CASE UNCHANGED vars
    BY <1>19 DEF vars, TypeOK
  <1> QED
    BY <1>1, <1>2, <1>3, <1>4, <1>5, <1>6, <1>7, <1>8, <1>9, <1>10, <1>11, <1>12,
       <1>13, <1>14, <1>15, <1>16, <1>17, <1>18, <1>19 DEF Next, GateStep
-----------------------------------------------------------------------------
(* The evidence is true *)

LEMMA EvidenceStep ==
    TypeOK /\ EvidenceInv /\ HonestReport /\ [Next]_vars => EvidenceInv' /\ HonestReport'
  <1> SUFFICES ASSUME TypeOK, EvidenceInv, HonestReport, [Next]_vars
               PROVE  EvidenceInv' /\ HonestReport'
    OBVIOUS
  <1> USE DEF Quiet
  <1>a. ASSUME Return(status'), UNCHANGED world,
               (status' = "completed" /\ Quiet) => AllHold(world, body.post)
        PROVE  EvidenceInv' /\ HonestReport'
    BY <1>a DEF Return, EvidenceInv, HonestReport, AllHold, body
  <1>b. ASSUME NEW p, p # "returned", Enter(p)
        PROVE  EvidenceInv' /\ HonestReport'
    <2>1. facts' = <<>> /\ Len(facts') = 0 /\ k' = 1 /\ phase' # "returned"
      BY <1>b DEF Enter
    <2> QED
      BY <2>1 DEF EvidenceInv, HonestReport
  <1>c. ASSUME facts = <<>>, facts' = facts, phase' \in {"run", "pre"}
        PROVE  EvidenceInv' /\ HonestReport'
    <2>1. facts' = <<>> /\ Len(facts') = 0
      BY <1>c
    <2> QED
      BY <1>c, <2>1 DEF EvidenceInv, HonestReport
  <1>1. CASE Call
    <2>1. facts' = <<>> /\ Len(facts') = 0 /\ phase' = "pre"
      BY <1>1 DEF Call
    <2> QED
      BY <2>1 DEF EvidenceInv, HonestReport
  <1>2. CASE NoCandidateLeft
    <2>1. Return("miss") /\ UNCHANGED world
      BY <1>2 DEF NoCandidateLeft
    <2>2. status' = "miss"
      BY <2>1 DEF Return
    <2> QED
      BY <2>1, <2>2, <1>a
  <1>3. CASE SkipUnbound
    BY <1>3, <1>b DEF SkipUnbound
  <1>4. CASE ProbePrecondition
    <2>1. CASE Holds(world, body.pre[k])
      BY <1>4, <2>1, <1>c DEF ProbePrecondition, EvidenceInv
    <2>2. CASE ~Holds(world, body.pre[k])
      BY <1>4, <2>2, <1>b DEF ProbePrecondition
    <2> QED
      BY <2>1, <2>2
  <1>5. CASE Hit
    BY <1>5, <1>c DEF Hit, EvidenceInv
  <1>6. CASE ProbePostcondition
    <2>1. CASE Holds(world, body.post[k])
      <3>1. /\ facts' = Append(facts, body.post[k]) /\ k' = k + 1
            /\ UNCHANGED <<world, phase, cand, outside>> /\ phase = "post"
        BY <1>6, <2>1 DEF ProbePostcondition
      <3>2. body' = body
        BY <3>1 DEF body
      <3>3. ASSUME Quiet', NEW i \in 1..Len(facts') PROVE Holds(world', facts'[i])
        <4>1. facts \in Seq(Pred) /\ \A j \in 1..Len(facts) : Holds(world, facts[j])
          BY <3>1, <3>3 DEF EvidenceInv, TypeOK
        <4> QED
          BY <3>1, <4>1, <2>1
      <3>4. ASSUME Quiet', NEW i \in 1..(k' - 1) PROVE Holds(world', body'.post[i])
        BY <3>1, <3>2, <3>4, <2>1 DEF EvidenceInv, TypeOK
      <3> QED
        BY <3>1, <3>3, <3>4 DEF EvidenceInv, HonestReport
    <2>2. CASE ~Holds(world, body.post[k])
      BY <1>6, <2>2, <1>b DEF ProbePostcondition
    <2> QED
      BY <2>1, <2>2
  <1>7. CASE Satisfied
    <2>1. CASE IsTemplate(cand)
      BY <1>7, <2>1 DEF Satisfied, EvidenceInv, HonestReport
    <2>2. CASE ~IsTemplate(cand)
      <3>1. Return("completed") /\ UNCHANGED world /\ phase = "post" /\ k > Len(body.post)
        BY <1>7, <2>2 DEF Satisfied
      <3>2. cand <= Len(Candidates)
        BY <3>1 DEF TypeOK
      <3>3. Quiet => AllHold(world, body.post)
        BY <3>1, <3>2, BodyTypes DEF EvidenceInv, AllHold, TypeOK
      <3> QED
        BY <3>1, <3>3, <1>a DEF Return
    <2> QED
      BY <2>1, <2>2
  <1>8. CASE StepCancelled
    BY <1>8, <1>b DEF StepCancelled
  <1>9. CASE StepSucceeds
    BY <1>9, <1>c DEF StepSucceeds, EvidenceInv
  <1>10. CASE StepRefused
    BY <1>10, <1>b DEF StepRefused
  <1>11. CASE StepBreaksOff
    BY <1>11, <1>b DEF StepBreaksOff
  <1>12. CASE ObserveAfter
    <2>1. phase = "observe" /\ k <= Len(body.post)
          /\ UNCHANGED <<world, phase, cand, outside>>
      BY <1>12 DEF ObserveAfter
    <2>2. body.post[k] \in Pred /\ world \in Workspace
      BY <2>1, BodyTypes DEF TypeOK
    <2>3. ASSUME Quiet', NEW i \in 1..Len(facts') PROVE Holds(world', facts'[i])
      <3>1. facts \in Seq(Pred) /\ \A j \in 1..Len(facts) : Holds(world, facts[j])
        BY <2>1, <2>3 DEF EvidenceInv, TypeOK
      <3>2. CASE Observe(world, body.post[k]) = Unobserved
        BY <1>12, <2>1, <3>1, <3>2 DEF ObserveAfter
      <3>3. CASE Observe(world, body.post[k]) # Unobserved
        <4>1. Holds(world, Fact(world, body.post[k])) /\ Fact(world, body.post[k]) \in Pred
          BY <2>2, <3>3, FactTrue
        <4>2. facts' = Append(facts, Fact(world, body.post[k]))
          BY <1>12, <3>3 DEF ObserveAfter
        <4> QED
          BY <2>1, <3>1, <4>1, <4>2
      <3> QED
        BY <3>2, <3>3
    <2> QED
      BY <2>1, <2>3 DEF EvidenceInv, HonestReport
  <1>13. CASE ReturnFailed
    BY <1>13, <1>a DEF ReturnFailed, Return
  <1>14. CASE WorkflowDone
    BY <1>14, <1>b DEF WorkflowDone
  <1>15. CASE VerifyStep
    <2>1. /\ phase = "verify" /\ k <= Len(body.verify)
          /\ UNCHANGED <<world, phase, cand, outside>>
          /\ facts' = facts \o FactsOf(world, body.verify[k])
      BY <1>15 DEF VerifyStep
    <2>2. body.verify[k] \in ProbeStep \cup ReadStep /\ world \in Workspace
      BY <2>1, BodyTypes DEF TypeOK
    <2>3. ASSUME Quiet', NEW i \in 1..Len(facts') PROVE Holds(world', facts'[i])
      <3> DEFINE new == FactsOf(world, body.verify[k])
      <3>1. facts \in Seq(Pred) /\ \A j \in 1..Len(facts) : Holds(world, facts[j])
        BY <2>1, <2>3 DEF EvidenceInv, TypeOK
      <3>2. new \in Seq(Pred) /\ \A j \in 1..Len(new) : Holds(world, new[j])
        BY <2>2, VerifiedFactsTrue
      <3>3. facts' = facts \o new /\ world' = world
        BY <2>1
      <3> HIDE DEF new
      <3> QED
        BY <3>1, <3>2, <3>3
    <2> QED
      BY <2>1, <2>3 DEF EvidenceInv, HonestReport
  <1>16. CASE Conclude
    <2>1. /\ phase = "verify" /\ UNCHANGED world
          /\ Return(IF SatisfiedBy(body.post, facts) THEN "completed" ELSE "partial")
      BY <1>16 DEF Conclude
    <2>2. ASSUME status' = "completed", Quiet PROVE AllHold(world, body.post)
      <3>1. SatisfiedBy(body.post, facts)
        BY <2>1, <2>2 DEF Return
      <3>2. \A j \in 1..Len(facts) : Holds(world, facts[j])
        BY <2>2 DEF EvidenceInv
      <3> QED
        BY <3>1, <3>2 DEF SatisfiedBy, AllHold
    <2> QED
      BY <2>1, <2>2, <1>a DEF Return
  <1>17. CASE RequestCancel \/ ResetCancel \/ UNCHANGED vars
    BY <1>17 DEF RequestCancel, ResetCancel, vars, EvidenceInv, HonestReport, AllHold, body
  <1>18. CASE \E f \in File, s \in FileState : Disturb(f, s)
    BY <1>18 DEF Disturb, EvidenceInv, HonestReport
  <1> QED
    BY <1>1, <1>2, <1>3, <1>4, <1>5, <1>6, <1>7, <1>8, <1>9, <1>10, <1>11, <1>12,
       <1>13, <1>14, <1>15, <1>16, <1>17, <1>18 DEF Next, GateStep
-----------------------------------------------------------------------------
(* The report accounts for the changes *)

LEMMA AccountStep ==
    TypeOK /\ AccountInv /\ Accounted /\ [Next]_vars => AccountInv' /\ Accounted'
  <1> SUFFICES ASSUME TypeOK, AccountInv, Accounted, [Next]_vars
               PROVE  AccountInv' /\ Accounted'
    OBVIOUS
  <1>a. ASSUME phase \notin {"returned"}, phase' \in {"pre", "post"},
               phase \in {"pre", "post"}, UNCHANGED <<executed, effects, status, done>>
        PROVE  AccountInv' /\ Accounted'
    BY <1>a DEF AccountInv, Accounted
  <1>b. ASSUME phase = "run", Enter("observe"), effects \subseteq done',
               UNCHANGED <<cand, executed, effects, status>>
        PROVE  AccountInv' /\ Accounted'
    BY <1>b DEF AccountInv, Accounted, Enter
  <1>1. CASE Call
    BY <1>1 DEF Call, AccountInv, Accounted
  <1>2. CASE NoCandidateLeft
    BY <1>2 DEF NoCandidateLeft, Return, AccountInv, Accounted
  <1>3. CASE SkipUnbound
    BY <1>3, <1>a DEF SkipUnbound, Enter
  <1>4. CASE ProbePrecondition
    BY <1>4, <1>a DEF ProbePrecondition, Enter
  <1>5. CASE Hit
    <2>1. Len(body.steps) \in Nat /\ body' = body
      BY <1>5, BodyTypes DEF Hit, body
    <2>2. /\ phase' = "run" /\ k' = 1 /\ executed' = 0 /\ effects' = done'
          /\ status' = "none"
      BY <1>5 DEF Hit, AccountInv
    <2>3. executed' = k' - 1 /\ k' <= Len(body'.steps) + 1
      BY <2>1, <2>2
    <2> QED
      BY <2>2, <2>3 DEF AccountInv, Accounted
  <1>6. CASE ProbePostcondition
    BY <1>6, <1>a DEF ProbePostcondition, Enter
  <1>7. CASE Satisfied
    BY <1>7 DEF Satisfied, Return, AccountInv, Accounted
  <1>8. CASE StepCancelled
    BY <1>8, <1>b DEF StepCancelled, AccountInv
  <1>9. CASE StepSucceeds
    <2>1. Len(body.steps) \in Nat /\ body' = body
      BY <1>9, BodyTypes DEF StepSucceeds, TypeOK, body
    <2> QED
      BY <1>9, <2>1 DEF StepSucceeds, AccountInv, Accounted, TypeOK
  <1>10. CASE StepRefused
    BY <1>10, <1>b DEF StepRefused, AccountInv
  <1>11. CASE StepBreaksOff
    <2>1. effects \subseteq done'
      BY <1>11 DEF StepBreaksOff, Breaks, AccountInv
    <2> QED
      BY <1>11, <2>1, <1>b DEF StepBreaksOff
  <1>12. CASE ObserveAfter
    BY <1>12 DEF ObserveAfter, AccountInv, Accounted
  <1>13. CASE ReturnFailed
    BY <1>13 DEF ReturnFailed, Return, AccountInv, Accounted
  <1>14. CASE WorkflowDone
    <2>1. Len(body.steps) \in Nat /\ body' = body
      BY <1>14, BodyTypes DEF WorkflowDone, TypeOK, body
    <2>2. executed = Len(body.steps)
      BY <1>14, <2>1 DEF WorkflowDone, AccountInv, TypeOK
    <2> QED
      BY <1>14, <2>1, <2>2 DEF WorkflowDone, Enter, AccountInv, Accounted
  <1>15. CASE VerifyStep
    <2>1. body' = body
      BY <1>15 DEF VerifyStep, body
    <2> QED
      BY <1>15, <2>1 DEF VerifyStep, AccountInv, Accounted
  <1>16. CASE Conclude
    <2>1. /\ phase = "verify" /\ phase' = "returned" /\ status' \in {"completed", "partial"}
          /\ UNCHANGED <<executed, effects, done, cand>>
      BY <1>16 DEF Conclude, Return
    <2>2. body' = body /\ Len(body.steps) # 0
      BY <2>1, BodyTypes DEF TypeOK, body
    <2>3. effects' = done' /\ executed' = Len(body'.steps)
      BY <2>1, <2>2 DEF AccountInv
    <2> QED
      BY <2>1, <2>2, <2>3 DEF AccountInv, Accounted
  <1>17. CASE RequestCancel \/ ResetCancel \/ UNCHANGED vars
    BY <1>17 DEF RequestCancel, ResetCancel, vars, AccountInv, Accounted, body
  <1>18. CASE \E f \in File, s \in FileState : Disturb(f, s)
    BY <1>18 DEF Disturb, AccountInv, Accounted, body
  <1> QED
    BY <1>1, <1>2, <1>3, <1>4, <1>5, <1>6, <1>7, <1>8, <1>9, <1>10, <1>11, <1>12,
       <1>13, <1>14, <1>15, <1>16, <1>17, <1>18 DEF Next, GateStep
-----------------------------------------------------------------------------
(* decide takes the first applicable candidate *)

LEMMA DecideStep ==
    TypeOK /\ AccountInv /\ DecideInv /\ FirstApplicable /\ [Next]_vars
        => DecideInv' /\ FirstApplicable'
  <1> SUFFICES ASSUME TypeOK, AccountInv, DecideInv, FirstApplicable, [Next]_vars,
                      outside' = "never", done' = {}
               PROVE  DecideInv' /\ FirstApplicable'
    BY DEF DecideInv, FirstApplicable
  <1>t. Len(Candidates) \in Nat /\ cand \in 1..(Len(Candidates) + 1) /\ k \in Nat \ {0}
    BY CandidateTypes DEF TypeOK
  <1>a. ASSUME NEW c \in 1..Len(Candidates), PassedOver(c), world' = world
        PROVE  PassedOver(c)'
    BY <1>a DEF PassedOver
  <1>b. ASSUME phase' \in {"observe", "verify", "returned", "panicked"}, status' # "miss"
        PROVE  DecideInv' /\ FirstApplicable'
    BY <1>b DEF DecideInv, FirstApplicable
  <1>c. ASSUME cand <= Len(Candidates), outside = "never", done = {}, phase \in {"pre", "post"},
               PassedOver(cand), cand' = cand + 1, phase' = "pre", k' = 1,
               UNCHANGED <<world, status>>
        PROVE  DecideInv' /\ FirstApplicable'
    <2>1. status' # "miss"
      BY <1>c DEF AccountInv
    <2>2. \A c \in 1..cand : PassedOver(c)
      BY <1>c, <1>t DEF DecideInv
    <2>3. \A c \in 1..(cand' - 1) : PassedOver(c)'
      BY <1>c, <1>t, <1>a, <2>2
    <2> QED
      BY <1>c, <2>1, <2>3 DEF DecideInv, FirstApplicable
  <1>1. CASE Call
    <2>1. phase' = "pre" /\ k' = 1 /\ cand' = 1 /\ status' = "none"
      BY <1>1 DEF Call
    <2> QED
      BY <2>1 DEF DecideInv, FirstApplicable
  <1>2. CASE NoCandidateLeft
    <2>1. /\ phase = "pre" /\ cand > Len(Candidates) /\ phase' = "returned"
          /\ UNCHANGED <<world, cand, outside, done>>
      BY <1>2 DEF NoCandidateLeft, Return
    <2>2. \A c \in 1..Len(Candidates) : PassedOver(c)
      BY <1>t, <2>1 DEF DecideInv
    <2>3. \A c \in 1..Len(Candidates) : PassedOver(c)'
      BY <2>1, <2>2, <1>a
    <2> QED
      BY <2>1, <2>3 DEF DecideInv, FirstApplicable
  <1>3. CASE SkipUnbound
    <2>1. PassedOver(cand)
      BY <1>3 DEF SkipUnbound, PassedOver, body
    <2> QED
      BY <1>3, <2>1, <1>c DEF SkipUnbound, Enter
  <1>4. CASE ProbePrecondition
    <2>1. /\ phase = "pre" /\ cand <= Len(Candidates) /\ body.bound /\ k <= Len(body.pre)
          /\ UNCHANGED <<world, cand, done, status>>
      BY <1>4 DEF ProbePrecondition
    <2>2. status' # "miss" /\ body' = body
      BY <2>1 DEF AccountInv, body
    <2>3. CASE Holds(world, body.pre[k])
      <3>1. k' = k + 1 /\ phase' = "pre" /\ outside = "never"
        BY <1>4, <2>3 DEF ProbePrecondition
      <3>2. \A i \in 1..(k' - 1) : Holds(world', body'.pre[i])
        BY <1>t, <2>1, <2>2, <2>3, <3>1 DEF DecideInv
      <3>3. \A c \in 1..(cand' - 1) : PassedOver(c)'
        BY <1>t, <2>1, <3>1, <1>a DEF DecideInv
      <3> QED
        BY <2>2, <3>1, <3>2, <3>3 DEF DecideInv, FirstApplicable
    <2>4. CASE ~Holds(world, body.pre[k])
      <3>1. k' = 1 /\ phase' = "post" /\ outside = "never"
        BY <1>4, <2>4 DEF ProbePrecondition, Enter
      <3>2. body'.bound /\ ~AllHold(world', body'.pre)
        BY <1>t, <2>1, <2>2, <2>4 DEF AllHold
      <3>3. \A c \in 1..(cand' - 1) : PassedOver(c)'
        BY <1>t, <2>1, <3>1, <1>a DEF DecideInv
      <3> QED
        BY <2>2, <3>1, <3>2, <3>3 DEF DecideInv, FirstApplicable
    <2> QED
      BY <2>3, <2>4
  <1>5. CASE Hit
    <2>1. /\ phase = "pre" /\ phase' = "run" /\ cand <= Len(Candidates) /\ k > Len(body.pre)
          /\ UNCHANGED <<world, cand, done, status, outside>>
      BY <1>5 DEF Hit
    <2>2. status' # "miss" /\ body' = body /\ Len(body.pre) \in Nat
      BY <2>1, BodyTypes DEF AccountInv, body
    <2>3. AllHold(world', body'.pre)
      BY <1>t, <2>1, <2>2 DEF DecideInv, AllHold
    <2>4. \A c \in 1..(cand' - 1) : PassedOver(c)'
      BY <1>t, <2>1, <1>a DEF DecideInv
    <2> QED
      BY <2>1, <2>2, <2>3, <2>4 DEF DecideInv, FirstApplicable
  <1>6. CASE ProbePostcondition
    <2>1. /\ phase = "post" /\ cand <= Len(Candidates) /\ k <= Len(body.post)
          /\ UNCHANGED <<world, done, status>>
      BY <1>6 DEF ProbePostcondition, TypeOK
    <2>2. CASE Holds(world, body.post[k])
      <3>1. phase' = "post" /\ cand' = cand /\ outside = "never" /\ status' # "miss"
        BY <1>6, <2>1, <2>2 DEF ProbePostcondition, AccountInv
      <3>2. body' = body
        BY <3>1 DEF body
      <3>3. \A c \in 1..(cand' - 1) : PassedOver(c)'
        BY <1>t, <2>1, <3>1, <1>a DEF DecideInv
      <3> QED
        BY <2>1, <3>1, <3>2, <3>3 DEF DecideInv, FirstApplicable
    <2>3. CASE ~Holds(world, body.post[k])
      <3>1. cand' = cand + 1 /\ phase' = "pre" /\ k' = 1 /\ outside = "never"
        BY <1>6, <2>3 DEF ProbePostcondition, Enter
      <3>2. PassedOver(cand)
        BY <1>t, <2>1, <2>3, <3>1 DEF DecideInv, PassedOver, body, AllHold
      <3> QED
        BY <2>1, <3>1, <3>2, <1>c
    <2> QED
      BY <2>2, <2>3
  <1>7. CASE Satisfied
    BY <1>7, <1>b DEF Satisfied, Return, AccountInv
  <1>8. CASE StepCancelled
    BY <1>8, <1>b DEF StepCancelled, Enter, AccountInv
  <1>9. CASE StepSucceeds
    <2>1. /\ phase = "run" /\ k <= Len(body.steps) /\ cand <= Len(Candidates)
          /\ world' = Write(world, body.steps[k])
          /\ done' = done \cup body.steps[k]
          /\ UNCHANGED <<phase, cand, outside, status>>
      BY <1>9 DEF StepSucceeds, TypeOK
    <2>2. done = {} /\ body.steps[k] = {}
      BY <2>1
    <2>3. world' = world
      BY <1>t, <2>1, <2>2, BodyTypes, WriteType DEF TypeOK
    <2>4. status' # "miss" /\ body' = body
      BY <2>1 DEF AccountInv, body
    <2>5. \A c \in 1..(cand' - 1) : PassedOver(c)'
      BY <1>t, <2>1, <2>2, <2>3, <1>a DEF DecideInv
    <2>6. AllHold(world', body'.pre)
      BY <2>1, <2>2, <2>3, <2>4 DEF FirstApplicable
    <2> QED
      BY <2>1, <2>4, <2>5, <2>6 DEF DecideInv, FirstApplicable
  <1>10. CASE StepRefused
    BY <1>10, <1>b DEF StepRefused, Enter, AccountInv
  <1>11. CASE StepBreaksOff
    BY <1>11, <1>b DEF StepBreaksOff, Enter, AccountInv
  <1>12. CASE ObserveAfter
    BY <1>12, <1>b DEF ObserveAfter, AccountInv
  <1>13. CASE ReturnFailed
    BY <1>13, <1>b DEF ReturnFailed, Return
  <1>14. CASE WorkflowDone
    BY <1>14, <1>b DEF WorkflowDone, Enter, AccountInv
  <1>15. CASE VerifyStep
    BY <1>15, <1>b DEF VerifyStep, AccountInv
  <1>16. CASE Conclude
    BY <1>16, <1>b DEF Conclude, Return
  <1>17. CASE RequestCancel \/ ResetCancel \/ UNCHANGED vars
    BY <1>17 DEF RequestCancel, ResetCancel, vars, DecideInv, FirstApplicable, PassedOver,
                 AllHold, body
  <1>18. CASE \E f \in File, s \in FileState : Disturb(f, s)
    BY <1>18 DEF Disturb
  <1> QED
    BY <1>1, <1>2, <1>3, <1>4, <1>5, <1>6, <1>7, <1>8, <1>9, <1>10, <1>11, <1>12,
       <1>13, <1>14, <1>15, <1>16, <1>17, <1>18 DEF Next, GateStep
-----------------------------------------------------------------------------
(* Theorems *)

\* GateInv is an inductive invariant of the gate.
THEOREM GateInvariant == Spec => []GateInv
  <1>1. Init => GateInv
    <2> SUFFICES ASSUME Init PROVE GateInv
      OBVIOUS
    <2>1. facts = <<>> /\ Len(facts) = 0 /\ phase = "idle" /\ status = "none"
      BY DEF Init
    <2>2. EvidenceInv /\ HonestReport
      BY <2>1 DEF EvidenceInv, HonestReport
    <2>3. AccountInv /\ Accounted
      BY DEF Init, AccountInv, Accounted
    <2>4. DecideInv /\ FirstApplicable
      BY <2>1 DEF DecideInv, FirstApplicable
    <2> QED
      BY <2>2, <2>3, <2>4, TypeInit DEF GateInv
  <1>2. GateInv /\ [Next]_vars => GateInv'
    BY TypeStep, EvidenceStep, AccountStep, DecideStep DEF GateInv
  <1> QED
    BY <1>1, <1>2, PTL DEF Spec

(***************************************************************************)
(* The state of the gate always has its type.                              *)
(***************************************************************************)
THEOREM GateTypeOK == Spec => []TypeOK
  <1>1. GateInv => TypeOK
    BY DEF GateInv
  <1> QED
    BY <1>1, GateInvariant, PTL

(***************************************************************************)
(* Reports are honest: the facts of a result hold, and `completed` means   *)
(* verified postconditions, for any experiences and any workspace, unless  *)
(* the workspace is changed from outside during the observations           *)
(* (execute_experience, execute_already_satisfied, observe_after).         *)
(***************************************************************************)
THEOREM GateHonestReport == Spec => []HonestReport
  <1>1. GateInv => HonestReport
    BY DEF GateInv
  <1> QED
    BY <1>1, GateInvariant, PTL

(***************************************************************************)
(* decide runs the first applicable candidate and misses only when there   *)
(* is none.                                                                *)
(***************************************************************************)
THEOREM GateFirstApplicable == Spec => []FirstApplicable
  <1>1. GateInv => FirstApplicable
    BY DEF GateInv
  <1> QED
    BY <1>1, GateInvariant, PTL

(***************************************************************************)
(* A Miss or a no-op has changed nothing, a workflow that ran to its end   *)
(* reports every step and every change, and a failure reports nothing that *)
(* did not happen.                                                         *)
(***************************************************************************)
THEOREM GateAccounted == Spec => []Accounted
  <1>1. GateInv => Accounted
    BY DEF GateInv
  <1> QED
    BY <1>1, GateInvariant, PTL

NoTemplates == \A c \in 1..Len(Candidates) : ~IsTemplate(c)

\* Without templates execute finds what was decided, and nothing panics.
THEOREM GateNeverPanics ==
    ASSUME NoTemplates
    PROVE  Spec => []NeverPanics
  <1>1. Init => NeverPanics
    BY DEF Init, NeverPanics
  <1>2. TypeOK /\ NeverPanics /\ [Next]_vars => NeverPanics'
    <2> SUFFICES ASSUME TypeOK, phase # "panicked", [Next]_vars PROVE phase' # "panicked"
      BY DEF NeverPanics
    <2>1. CASE Satisfied
      <3>1. cand \in 1..Len(Candidates)
        BY <2>1, CandidateTypes DEF Satisfied, TypeOK
      <3> QED
        BY <2>1, <3>1 DEF Satisfied, Return, NoTemplates
    <2>2. CASE ~Satisfied
      BY <2>2 DEF Next, GateStep, Call, NoCandidateLeft, SkipUnbound, ProbePrecondition, Hit,
         ProbePostcondition, StepCancelled, StepSucceeds, StepRefused, StepBreaksOff, ObserveAfter,
         ReturnFailed, WorkflowDone, VerifyStep, Conclude, RequestCancel, ResetCancel, Disturb, Enter,
         Return, vars
    <2> QED
      BY <2>1, <2>2
  <1> QED
    BY GateTypeOK, <1>1, <1>2, PTL DEF Spec

\* Every step of the gate is a step of GateContract.
LEMMA GateContractStep ==
    ASSUME TypeOK, NeverPanics, NeverPanics', [Next]_vars
    PROVE  [Contract!Next]_(Contract!vars)
  <1> USE DEF Contract!Next, Contract!vars, Contract!Call, Contract!Decline, Contract!TakeOver,
              Contract!Work, Contract!Finish
  <1> DEFINE Goal == [Contract!Next]_(Contract!vars)
             Deciding == {"pre", "post"}
             Takeover == {"run", "observe", "verify"}
  <1>1. ASSUME \/ phase' = phase
               \/ phase \in Deciding /\ phase' \in Deciding
               \/ phase \in Takeover /\ phase' \in Takeover,
               status' = status, done' = done
        PROVE  Goal
    BY <1>1
  <1>2. CASE Call
    BY <1>2 DEF Call, NeverPanics
  <1>3. CASE NoCandidateLeft
    BY <1>3 DEF NoCandidateLeft, Return
  <1>4. CASE SkipUnbound \/ ProbePrecondition \/ ProbePostcondition
    BY <1>1, <1>4 DEF SkipUnbound, ProbePrecondition, ProbePostcondition, Enter
  <1>5. CASE Hit
    BY <1>5 DEF Hit
  <1>6. CASE Satisfied
    BY <1>6 DEF Satisfied, Return, NeverPanics
  <1>7. CASE StepCancelled \/ StepRefused \/ ObserveAfter \/ WorkflowDone \/ VerifyStep
    BY <1>1, <1>7 DEF StepCancelled, StepRefused, ObserveAfter, WorkflowDone, VerifyStep, Enter
  <1>8. CASE StepSucceeds \/ StepBreaksOff
    <2>1. phase = "run" /\ phase' \in Takeover /\ status' = status /\ (done # {} => done' # {})
      BY <1>8 DEF StepSucceeds, StepBreaksOff, Breaks, Enter
    <2> QED
      BY <2>1
  <1>9. CASE ReturnFailed \/ Conclude
    BY <1>9 DEF ReturnFailed, Conclude, Return
  <1>10. CASE \/ RequestCancel \/ ResetCancel \/ UNCHANGED vars
              \/ \E f \in File, s \in FileState : Disturb(f, s)
    BY <1>1, <1>10 DEF RequestCancel, ResetCancel, Disturb, vars
  <1> HIDE DEF Goal, Contract!Next, Contract!vars
  <1> QED
    BY <1>2, <1>3, <1>4, <1>5, <1>6, <1>7, <1>8, <1>9, <1>10 DEF Next, GateStep, Goal

(***************************************************************************)
(* The safety part of the contract of gate.rs, for any experiences and any *)
(* interference: a Miss has touched nothing and a takeover never turns     *)
(* back into a Miss.  With templates the panic of one that is already      *)
(* satisfied would leave the contract.                                     *)
(***************************************************************************)
THEOREM GateImplementsContract ==
    ASSUME NoTemplates
    PROVE  Spec => Contract!Init /\ [][Contract!Next]_(Contract!vars)
  <1>1. Init => Contract!Init
    BY DEF Init, Contract!Init
  <1>2. TypeOK /\ NeverPanics /\ NeverPanics' /\ [Next]_vars => [Contract!Next]_(Contract!vars)
    BY GateContractStep
  <1> QED
    BY GateTypeOK, GateNeverPanics, <1>1, <1>2, PTL DEF Spec
=============================================================================
