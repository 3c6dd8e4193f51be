--------------------------- MODULE ServerLearning ---------------------------
(***************************************************************************)
(* The learning loop of the server (main.rs): a delegated session executes *)
(* an ACTIVE experience first (l3_entry), its outcome moves the score of   *)
(* that experience in usage.json and may decay it, the turn is delegated,  *)
(* and a successful round is distilled into a candidate (l1_sink_session), *)
(* while the management routes change the same store.  Two mutexes order   *)
(* all this: `store`, and `audit` around each read-modify-write of         *)
(* learning-l1.json and usage.json.                                        *)
(*                                                                         *)
(* A session or a request is a process.  Every process takes one lock at a *)
(* time or `audit` inside `store`.  usage.json is read and written in two  *)
(* steps, and the server may die between any two.                          *)
(***************************************************************************)
EXTENDS Naturals, FiniteSets, ExperienceDomain

CONSTANTS
    Name,            \* names of experiences
    DraftOf,         \* DraftOf[n]: the name n__draft, for the names that have one here
    Session,         \* delegated sessions
    Manager,         \* threads that serve management requests
    None,            \* no owner, no name, nothing read
    Given,           \* bound: statuses that users give to experiences they insert
    GivenNames,      \* bound: names that they give them
    MaxRequests,     \* bound: management requests
    MaxFaults        \* bound: crashes

ASSUME LearningAssumption ==
    /\ DOMAIN DraftOf \subseteq Name /\ \A n \in DOMAIN DraftOf : DraftOf[n] \in Name \ {n}
    /\ None \notin Name \cup Session \cup Manager /\ Session \cap Manager = {}
    /\ Given \subseteq ExperienceStatus /\ GivenNames \subseteq Name
    /\ MaxRequests \in Nat /\ MaxFaults \in Nat

VARIABLES
    store,     \* name -> the experience and its pin, in memory
    disk,      \* store.json
    usage,     \* usage.json: name -> score and evidence
    ledger,    \* learning-l1.json: the number of records, and the last word on each status
    lock,      \* the owners of the two mutexes
    pc,        \* where a process is
    job,       \* what a process works on
    loaded,    \* the usage.json that a process has read and is about to write
    requests,  \* management requests so far
    faults,    \* crashes so far
    checked,   \* history: names whose present body has passed `qualify`
    hand,      \* history: names whose present body a user supplied or adopted
    said,      \* history: names whose last ledger word is about the present experience
    told,      \* history: outcomes and records that were written
    blamed,    \* history: names with an `invalid` outcome
    lost       \* history: a crash hit a process inside a lock, or a store not yet saved

vars == <<store, disk, usage, ledger, lock, pc, job, loaded, requests, faults,
          checked, hand, said, told, blamed, lost>>

history == <<checked, hand, said, told, blamed, lost>>

\* Names that end in __draft: no task's candidate is called so, but users and the
\* LLM compiler may give any name.
Drafts == {DraftOf[n] : n \in DOMAIN DraftOf}

Process == Session \cup Manager

Absent  == [status |-> "absent", sound |-> FALSE, pinned |-> FALSE]
\* An experience that the user trusts from the start.
Supplied == [status |-> "active", sound |-> TRUE, pinned |-> FALSE]
Present(n) == store[n].status # "absent"

\* Scores are hundredths, since usage_record_experience rounds to them.
DefaultScore == 50
DECAY_SCORE_FLOOR == 30

\* misfire and execution_error are counted and leave the score alone.
Outcome == {"success", "invalid", "neutral"}

\* apply_experience_usage and the record_ functions of ConfidenceRecord.
Scored(score, o) ==
    CASE o = "success" -> IF score + 8 > 100 THEN 100 ELSE score + 8
      [] o = "invalid" -> IF score < 20 THEN 0 ELSE score - 20
      [] OTHER         -> score

NoUsage  == [n \in Name |-> [score |-> DefaultScore, total |-> 0]]
NoLedger == [count |-> 0, last |-> [n \in Name |-> "none"]]
NoJob    == [name |-> None, to |-> "none", outcome |-> "none", planned |-> FALSE]

Init ==
    /\ store \in {s \in [Name -> {Absent, Supplied}] : \A n \in Name \ GivenNames : s[n] = Absent}
    /\ disk = store
    /\ usage = NoUsage /\ ledger = NoLedger
    /\ lock = [store |-> None, audit |-> None]
    /\ pc = [p \in Process |-> "idle"]
    /\ job = [p \in Process |-> NoJob]
    /\ loaded = [p \in Process |-> None]
    /\ requests = 0 /\ faults = 0
    /\ checked = {} /\ hand = {n \in Name : Present(n)} /\ said = {}
    /\ told = [usage |-> [n \in Name |-> 0], ledger |-> 0]
    /\ blamed = {} /\ lost = FALSE
-----------------------------------------------------------------------------
(* A change of the store under its lock, and the record of it *)

StoreFree == lock.store = None

\* Mutant of ChangeAndRecord: the record is written after the lock is given back.
ChangeAndRecordUnlocked(p, s, j, next) ==
    /\ StoreFree
    /\ store' = s
    /\ disk' = s
    /\ job' = [job EXCEPT ![p] = j]
    /\ pc' = [pc EXCEPT ![p] = next]
    /\ UNCHANGED <<usage, ledger, lock, loaded, faults, told, blamed, lost>>

\* p changes the store, saves it and goes on to the record, keeping the lock.
ChangeAndRecord(p, s, j, next) ==
    /\ StoreFree
    /\ store' = s
    /\ disk' = s
    /\ lock' = [lock EXCEPT !.store = p]
    /\ job' = [job EXCEPT ![p] = j]
    /\ pc' = [pc EXCEPT ![p] = next]
    /\ UNCHANGED <<usage, ledger, loaded, faults, told, blamed, lost>>

\* The same without a record: the lock is given back at once.
Change(s) ==
    /\ StoreFree
    /\ store' = s
    /\ disk' = s
    /\ UNCHANGED <<usage, ledger, lock, pc, job, loaded, faults, told, blamed, lost>>

Request(p) ==
    /\ p \in Manager /\ pc[p] = "idle"
    /\ requests < MaxRequests /\ requests' = requests + 1

\* The records of a session and of a request, and where the writer goes on; the
\* records of the delegation and of the injection count as one.
Logging == {"log_exec", "log_decay", "log_delegate", "log_sink", "log_end", "log_request"}

After(p) ==
    CASE pc[p] = "log_exec"     -> "usage"
      [] pc[p] = "log_decay"    -> "log_delegate"
      [] pc[p] = "log_delegate" -> "turn"
      [] pc[p] = "log_sink"     -> IF job[p].planned THEN "log_end" ELSE "done"
      [] pc[p] = "log_end"      -> "done"
      [] pc[p] = "log_request"  -> "idle"

\* What a session still needs to know once an experience is dealt with.
Rest(p) == [NoJob EXCEPT !.planned = job[p].planned]

\* Mutant of Released: only the inner guard is dropped.
ReleasedAudit(p) == [lock EXCEPT !.audit = IF @ = p THEN None ELSE @]

\* The locks that p gives back: all it has.
Released(p) == [l \in {"store", "audit"} |-> IF lock[l] = p THEN None ELSE lock[l]]

\* The ledger with the record of p at its end.
Appended(p) ==
    [count |-> ledger.count + 1,
     last  |-> IF job[p].to = "none" THEN ledger.last
               ELSE [ledger.last EXCEPT ![job[p].name] = job[p].to]]

\* append_l1_ledger under the audit lock, and the end of the caller's critical
\* section, if it is in one.
AppendLedger(p) ==
    /\ pc[p] \in Logging /\ lock.audit = None
    /\ ledger' = Appended(p)
    /\ lock' = Released(p)
    /\ pc' = [pc EXCEPT ![p] = After(p)]
    /\ told' = [told EXCEPT !.ledger = @ + 1]
    /\ said' = IF job[p].to = "none" THEN said ELSE said \cup {job[p].name}
    /\ job' = [job EXCEPT ![p] = IF pc[p] = "log_exec" THEN @ ELSE Rest(p)]
    /\ UNCHANGED <<store, disk, usage, loaded, requests, faults, checked, hand, blamed, lost>>
-----------------------------------------------------------------------------
(* A delegated session *)

\* l3_entry wakes the ACTIVE experiences and picks one, or none: the task, the
\* preconditions, the policy and the user's wishes decide.
Select(p) ==
    /\ p \in Session /\ pc[p] = "idle" /\ StoreFree
    /\ LET active == {n \in Name : store[n].status = "active"} IN
       \/ \E n \in active :
            /\ job' = [job EXCEPT ![p] = [NoJob EXCEPT !.name = n, !.planned = TRUE]]
            /\ pc' = [pc EXCEPT ![p] = "run"]
       \/ /\ job' = [job EXCEPT ![p] = [NoJob EXCEPT !.planned = active # {}]]
          /\ pc' = [pc EXCEPT ![p] = IF active = {} THEN "turn" ELSE "log_delegate"]
    /\ UNCHANGED <<store, disk, usage, ledger, lock, loaded, requests, faults, history>>

\* l3_run_workflow, without a lock.
Run(p, o) ==
    /\ pc[p] = "run"
    /\ job' = [job EXCEPT ![p].outcome = o]
    /\ pc' = [pc EXCEPT ![p] = "log_exec"]
    /\ UNCHANGED <<store, disk, usage, ledger, lock, loaded, requests, faults, history>>

\* Mutant of UsageLoads: the file is read without the lock.
UsageLoadsUnlocked(p) ==
    /\ pc[p] = "usage" /\ loaded[p] = None
    /\ loaded' = [loaded EXCEPT ![p] = usage]
    /\ UNCHANGED <<store, disk, usage, ledger, lock, pc, job, requests, faults, history>>

\* usage_record_experience: lock, load.
UsageLoads(p) ==
    /\ pc[p] = "usage" /\ loaded[p] = None /\ lock.audit = None
    /\ lock' = [lock EXCEPT !.audit = p]
    /\ loaded' = [loaded EXCEPT ![p] = usage]
    /\ UNCHANGED <<store, disk, usage, ledger, pc, job, requests, faults, history>>

UsageAfter(p) ==
    LET n == job[p].name IN
    [loaded[p] EXCEPT ![n].score = Scored(@, job[p].outcome), ![n].total = @ + 1]

\* What the save of p does but for the lock.
UsageSaved(p) ==
    LET n == job[p].name IN
    /\ pc[p] = "usage" /\ loaded[p] # None
    /\ usage' = UsageAfter(p)
    /\ told' = [told EXCEPT !.usage[n] = @ + 1]
    /\ blamed' = IF job[p].outcome = "invalid" THEN blamed \cup {n} ELSE blamed
    /\ IF UsageAfter(p)[n].score > DECAY_SCORE_FLOOR
       THEN pc' = [pc EXCEPT ![p] = "log_delegate"] /\ job' = [job EXCEPT ![p] = Rest(p)]
       ELSE pc' = [pc EXCEPT ![p] = "decay"] /\ UNCHANGED job
    /\ loaded' = [loaded EXCEPT ![p] = None]
    /\ UNCHANGED <<store, disk, ledger, requests, faults, checked, hand, said, lost>>

\* Mutant of UsageSaves: the guard lives until maybe_auto_decay has returned.
UsageSavesLocked(p) == UsageSaved(p) /\ UNCHANGED lock

\* The evidence is saved and the lock is given back; the score goes along.
UsageSaves(p) == UsageSaved(p) /\ lock' = Released(p)

\* Mutant of Decays: the pin is not looked at.
DecaysPinned(n) == store[n].status = "active"

\* maybe_auto_decay decays what is ACTIVE and not pinned.
Decays(n) == ~store[n].pinned /\ store[n].status = "active"

\* maybe_auto_decay, under the store's lock.
MaybeAutoDecay(p) ==
    LET n == job[p].name IN
    /\ pc[p] = "decay" /\ StoreFree
    /\ IF Decays(n)
       THEN ChangeAndRecord(p, [store EXCEPT ![n].status = Target("decay")],
                            [job[p] EXCEPT !.to = Target("decay")], "log_decay")
       ELSE /\ pc' = [pc EXCEPT ![p] = "log_delegate"]
            /\ job' = [job EXCEPT ![p] = Rest(p)]
            /\ UNCHANGED <<store, disk, usage, ledger, lock, loaded, faults, told, blamed, lost>>
    /\ UNCHANGED <<requests, checked, hand, said>>

\* The delegated turn: only a round that succeeded is learned from; one whose
\* host could not run leaves no record.
TurnEnds(p) ==
    /\ pc[p] = "turn"
    /\ \E next \in {"sink", "log_end", "done"} :
         /\ next = "log_end" => job[p].planned
         /\ pc' = [pc EXCEPT ![p] = next]
    /\ UNCHANGED <<store, disk, usage, ledger, lock, job, loaded, requests, faults, history>>

\* l1_sink_session writes a candidate, whatever its body is worth.  The record
\* and the origin name the candidate of the task, n, and tell no status; the
\* LLM compiler may have called what it stores differently, d.
SinkWrites(p, n, d, sound) ==
    /\ pc[p] = "sink" /\ ~Present(n) /\ ~Present(d)
    /\ ChangeAndRecord(p, [store EXCEPT ![d] = [status |-> "candidate", sound |-> sound, pinned |-> FALSE]],
                       [job[p] EXCEPT !.name = n], "log_sink")
    /\ checked' = checked \ {d} /\ hand' = hand \ {d} /\ said' = said \ {d}
    /\ UNCHANGED requests

\* The round is rejected: repeated, without actions, unstable or not distilled, or
\* its draft's name is taken.
SinkRejects(p) ==
    /\ pc[p] = "sink" /\ StoreFree
    /\ lock' = [lock EXCEPT !.store = p]
    /\ pc' = [pc EXCEPT ![p] = "log_sink"]
    /\ UNCHANGED <<store, disk, usage, ledger, job, loaded, requests, faults, history>>
-----------------------------------------------------------------------------
(* Management requests *)

\* POST: an experience as it is given, without a record.
Insert(p, n, s, sound) ==
    /\ Request(p) /\ ~Present(n)
    /\ Change([store EXCEPT ![n] = [status |-> s, sound |-> sound, pinned |-> FALSE]])
    /\ hand' = hand \cup {n} /\ checked' = checked \ {n} /\ said' = said \ {n}

\* Import: its record names no experience.  One that fails on a later entry
\* leaves the earlier ones in memory only.
Import(p, n, s, sound) ==
    LET next == [store EXCEPT ![n] = [status |-> s, sound |-> sound, pinned |-> FALSE]] IN
    /\ Request(p) /\ ~Present(n)
    /\ \/ ChangeAndRecord(p, next, NoJob, "log_request")
       \/ /\ StoreFree /\ store' = next
          /\ UNCHANGED <<disk, usage, ledger, lock, pc, job, loaded, faults, told, blamed, lost>>
    /\ hand' = hand \cup {n} /\ checked' = checked \ {n} /\ said' = said \ {n}

\* DELETE: the pin goes too, the score in usage.json stays.
Delete(p, n) ==
    /\ Request(p) /\ Present(n)
    /\ Change([store EXCEPT ![n] = Absent])
    /\ checked' = checked \ {n} /\ said' = said \ {n}
    /\ UNCHANGED hand

Pin(p, n, on) ==
    /\ Request(p) /\ Present(n)
    /\ ChangeAndRecord(p, [store EXCEPT ![n].pinned = on], NoJob, "log_request")
    /\ UNCHANGED <<checked, hand, said>>

\* POST draft: a copy that can be edited.
Draft(p, n) ==
    LET d == DraftOf[n] IN
    /\ Request(p) /\ n \in DOMAIN DraftOf /\ Present(n) /\ ~Present(d)
    /\ ChangeAndRecord(p, [store EXCEPT ![d] = [status |-> "draft", sound |-> store[n].sound, pinned |-> FALSE]],
                       NoJob, "log_request")
    /\ checked' = IF n \in checked THEN checked \cup {d} ELSE checked \ {d}
    /\ hand' = IF n \in hand THEN hand \cup {d} ELSE hand \ {d}
    /\ said' = said \ {d}

\* PUT body.
EditBody(p, n, sound) ==
    /\ Request(p) /\ store[n].status = "draft"
    /\ ChangeAndRecord(p, [store EXCEPT ![n].sound = sound], NoJob, "log_request")
    /\ hand' = hand \cup {n} /\ checked' = checked \ {n}
    /\ UNCHANGED said

\* POST adopt: the draft's body under the original's name and status.
Adopt(p, n) ==
    LET d == DraftOf[n] IN
    /\ Request(p) /\ n \in DOMAIN DraftOf /\ Present(n) /\ store[d].status = "draft"
    /\ ChangeAndRecord(p, [store EXCEPT ![n].sound = store[d].sound, ![d] = Absent], NoJob, "log_request")
    /\ hand' = hand \cup {n}
    /\ checked' = (IF d \in checked THEN checked \cup {n} ELSE checked \ {n}) \ {d}
    /\ said' = said \ {d}

\* Mutant of Qualifies: only the first validation looks at the body.
QualifiesOnce(n, a) == a = "validate" => store[n].sound

\* Validate and Revalidate must pass `qualify`.
Qualifies(n, a) == a \in {"validate", "revalidate"} => store[n].sound

\* Asking for what already is.
NoOp(n, a) ==
    \/ a \in {"activate", "force_activate"} /\ store[n].status = "active"
    \/ a = "disable" /\ store[n].status = "disabled"

\* PATCH status; "decay" is not among its verbs.
PatchStatus(p, n, a) ==
    LET to == IF NoOp(n, a) THEN store[n].status ELSE Target(a) IN
    /\ Request(p) /\ Present(n) /\ a # "decay"
    /\ Qualifies(n, a)
    /\ NoOp(n, a) \/ CanTransition(store[n].status, a)
    /\ ChangeAndRecord(p, [store EXCEPT ![n].status = to], [NoJob EXCEPT !.name = n, !.to = to], "log_request")
    /\ checked' = IF a \in {"validate", "revalidate"} /\ store[n].sound THEN checked \cup {n} ELSE checked
    /\ UNCHANGED <<hand, said>>
-----------------------------------------------------------------------------
\* The server dies and starts again: sessions are gone, the files are as they
\* are, but for the one that was being written.
Crash ==
    /\ faults < MaxFaults /\ faults' = faults + 1
    /\ store' = disk
    /\ \/ UNCHANGED <<usage, ledger>>
       \/ (\E p \in Process : pc[p] = "usage" /\ loaded[p] # None) /\ usage' = NoUsage /\ UNCHANGED ledger
       \/ (\E p \in Process : pc[p] \in Logging) /\ lock.audit = None /\ ledger' = NoLedger /\ UNCHANGED usage
    /\ lock' = [store |-> None, audit |-> None]
    /\ pc' = [p \in Process |-> IF p \in Manager \/ pc[p] = "idle" THEN "idle" ELSE "done"]
    /\ job' = [p \in Process |-> NoJob]
    /\ loaded' = [p \in Process |-> None]
    /\ lost' = (lost \/ lock # [store |-> None, audit |-> None] \/ store # disk \/ ledger' # ledger)
    /\ UNCHANGED <<disk, requests, checked, hand, said, told, blamed>>

SessionStep(p) ==
    \/ AppendLedger(p)
    \/ Select(p) \/ (\E o \in Outcome : Run(p, o))
    \/ UsageLoads(p) \/ UsageSaves(p) \/ MaybeAutoDecay(p)
    \/ TurnEnds(p) \/ SinkRejects(p)
    \/ \E n \in Name \ Drafts, d \in Name, sound \in BOOLEAN : SinkWrites(p, n, d, sound)

ManagerStep(p) ==
    \/ AppendLedger(p)
    \/ \E n \in GivenNames, s \in Given, sound \in BOOLEAN :
         Insert(p, n, s, sound) \/ Import(p, n, s, sound)
    \/ \E n \in Name : Delete(p, n) \/ Draft(p, n) \/ Adopt(p, n)
    \/ \E n \in Name, on \in BOOLEAN : Pin(p, n, on) \/ EditBody(p, n, on)
    \/ \E n \in Name, a \in QualificationAction : PatchStatus(p, n, a)

Next ==
    \/ \E p \in Session : SessionStep(p)
    \/ \E p \in Manager : ManagerStep(p)
    \/ Crash

\* A thread that can go on does, a delegated turn ends, and a request that has
\* begun is finished.
Fairness ==
    /\ \A p \in Session : WF_vars(SessionStep(p))
    /\ \A p \in Manager : WF_vars(AppendLedger(p))

Spec == Init /\ [][Next]_vars /\ Fairness
-----------------------------------------------------------------------------
(* Properties *)

Experience == [status : ExperienceStatus \cup {"absent"}, sound : BOOLEAN, pinned : BOOLEAN]
UsageFile  == [Name -> [score : 0..100, total : Nat]]
LedgerFile == [count : Nat, last : [Name -> ExperienceStatus \cup {"none"}]]
Job        == [name : Name \cup {None}, to : ExperienceStatus \cup {"none"},
               outcome : Outcome \cup {"none"}, planned : BOOLEAN]

\* Every variable has its type, and who holds the store's lock is about to
\* write the record that ends its critical section.
TypeOK ==
    /\ store \in [Name -> Experience] /\ disk \in [Name -> Experience]
    /\ usage \in UsageFile /\ ledger \in LedgerFile
    /\ lock \in [{"store", "audit"} -> Process \cup {None}]
    /\ pc \in [Process -> Logging \cup {"idle", "run", "usage", "decay", "turn", "sink", "done"}]
    /\ job \in [Process -> Job]
    /\ loaded \in [Process -> UsageFile \cup {None}]
    /\ lock.store # None => pc[lock.store] \in Logging
    /\ requests \in 0..MaxRequests /\ faults \in 0..MaxFaults
    /\ checked \subseteq Name /\ hand \subseteq Name /\ said \subseteq Name /\ blamed \subseteq Name
    /\ told \in [usage : [Name -> Nat], ledger : Nat] /\ lost \in BOOLEAN

\* "concurrent session terminals must never drop audit records or usage
\* increments" (main.rs:140): but for a crash or a failed write, each outcome
\* and each record that was written is still in its file.
NothingDropped ==
    lost \/ (ledger.count = told.ledger /\ \A n \in Name : usage[n].total = told.usage[n])

\* The ledger tells how things are: while nobody is changing the store, the last
\* transition (a record whose `to` is a status: PATCH, decay) that was told of an
\* experience led to its status, in whatever order sessions and requests changed
\* it.
LedgerTellsStatus ==
    lock.store = None /\ ~lost => \A n \in said : ledger.last[n] = store[n].status

\* "l1 sink: wrote candidate {name}" (main.rs:2840): the candidate that a
\* `written` record names is in the store when the record is appended.  A draft
\* that the LLM compiler called differently refutes it.
WrittenIsStored ==
    \A p \in Session : pc[p] = "log_sink" /\ job[p].name # None =>
        store[job[p].name].status = "candidate"

\* "the L1 pipeline cannot accidentally persist an executable experience"
\* (learning_l1.rs:246): a body that was learned and not adopted by hand gets to
\* VALIDATED and beyond only through `qualify`, also after it decayed, was
\* disabled, or was deleted and learned again.
LearnedIsQualified ==
    \A n \in Name : store[n].status \in {"validated", "active", "decaying"} => n \in checked \cup hand

Decayed(n) == store[n].status = "active" /\ store'[n].status = "decaying"

\* "pinned ACTIVE never auto-decays. Activity/recency alone never triggers
\* decay" (main.rs:4458): what decays is not pinned at that moment, and an
\* `invalid` outcome was recorded under its name, however late the decay comes.
\* (A restart may bring back an older store.)
DecayNeedsBlame == [][\A n \in Name : Decayed(n) => ~store[n].pinned /\ n \in blamed]_vars

\* "Environmental failure ... must never silently kill a good experience"
\* (qualification.rs:167): when an experience decays, it is on account of an
\* `invalid` outcome that some session has just recorded.  A score that
\* revalidation left at the floor refutes it.
NeutralOutcomesSpare ==
    [][\A n \in Name : Decayed(n) =>
         \E p \in Session : pc[p] = "decay" /\ job[p].name = n /\ job[p].outcome = "invalid"]_vars

\* The two mutexes never block each other: every session gets through its
\* records, its decay and its learning, and every request is answered.
Settles == <>[](\A p \in Process : pc[p] = IF p \in Session THEN "done" ELSE "idle")
=============================================================================
