----------------------------- MODULE SessionStore -----------------------------
(***************************************************************************)
(* Delegated sessions of the experience server (session_manager.rs and the *)
(* session routes of main.rs).  Per session three threads can meet: the    *)
(* request that creates or resumes it (setup), the worker that watches its *)
(* executor, and a request that cancels it.  They share three maps, each   *)
(* behind its own mutex: the sessions, the executor children (exec         *)
(* channel) and the cancellation flags (session channel).                  *)
(*                                                                         *)
(* A critical section is one step.  The one that spans several is the      *)
(* first arm of `cancel`: the guard of `children` is a temporary of the    *)
(* `if let` and lives until the end of its block.                          *)
(***************************************************************************)
EXTENDS Naturals

CONSTANTS
    Session,        \* session ids
    NoSession,      \* nobody holds the lock
    Channel         \* Channel[s]: "exec" or "session", from the agent's config

ASSUME SessionAssumption ==
    /\ NoSession \notin Session
    /\ Channel \in [Session -> {"exec", "session"}]

VARIABLES
    status,      \* the status of each session
    named,       \* the sessions that have a thread_id
    disk,        \* sessions.json: status and thread_id as last persisted
    children,    \* the sessions with a registered executor child
    lock,        \* the session whose cancel holds the mutex of `children`
    flags,       \* cancel_flags: "none", "clear" or "set"
    setup,       \* where the creating or resuming request is
    worker,      \* where the worker is
    outcome,     \* what the worker has to record
    cancelling   \* where the cancelling request is

sessionVars == <<status, named, disk, children, lock, flags, setup, worker, outcome, cancelling>>

Terminal == {"completed", "error"}

\* SessionOutcome with ok, without, or a driver error before a thread exists.
Outcome == {"completed", "failed", "no_thread"}

Finishing == {"finish_child", "finish_flag", "finish"}

SessionInit ==
    /\ status = [s \in Session |-> "absent"]
    /\ named = {}
    /\ disk = [status |-> status, thread |-> {}]
    /\ children = {}
    /\ lock = NoSession
    /\ flags = [s \in Session |-> "none"]
    /\ setup = [s \in Session |-> "none"]
    /\ worker = [s \in Session |-> "none"]
    /\ outcome = [s \in Session |-> "failed"]
    /\ cancelling = [s \in Session |-> "none"]

shared  == <<status, named, disk>>
handles == <<children, lock, flags>>

\* persist_locked, inside the critical section that changed the sessions.
Persist == disk' = [status |-> status', thread |-> named']

SetStatus(s, st) == status' = [status EXCEPT ![s] = st]
Move(s, l)       == setup' = [setup EXCEPT ![s] = l]
Work(s, l)       == worker' = [worker EXCEPT ![s] = l]
Advance(s, l)    == cancelling' = [cancelling EXCEPT ![s] = l]

Unlocked == lock = NoSession
-----------------------------------------------------------------------------
(* The creating and the resuming request *)

Create(s) ==
    /\ status[s] = "absent"
    /\ SetStatus(s, "running")
    /\ Move(s, "created")
    /\ UNCHANGED named
    /\ Persist
    /\ UNCHANGED <<handles, worker, outcome, cancelling>>

\* Mutant of ResumeStart: a running session may be resumed too.
ResumeStartRunning(s) ==
    /\ s \in named /\ setup[s] = "none" /\ status[s] # "absent"
    /\ SetStatus(s, "running") /\ Move(s, "resumed")
    /\ UNCHANGED named /\ Persist
    /\ UNCHANGED <<handles, worker, outcome, cancelling>>

ResumeStart(s) ==
    /\ s \in named
    /\ status[s] \in Terminal
    /\ SetStatus(s, "running")
    /\ Move(s, "resumed")
    /\ UNCHANGED named
    /\ Persist
    /\ UNCHANGED <<handles, worker, outcome, cancelling>>

\* Mutant of SetupFails: the error is answered and the session forgotten.
SetupFailsSilently(s) ==
    /\ setup[s] = "created" /\ Move(s, "none")
    /\ UNCHANGED <<shared, handles, worker, outcome, cancelling>>

\* The executable cannot be resolved, or the executor cannot be spawned.
SetupFails(s) ==
    /\ setup[s] = "created"
    /\ Move(s, "finish_child")
    /\ UNCHANGED <<shared, handles, worker, outcome, cancelling>>

\* codex_home is missing: the request is answered with an error, and that is all.
HomeMissing(s) ==
    /\ Channel[s] = "session"
    /\ setup[s] = "created"
    /\ Move(s, "none")
    /\ UNCHANGED <<shared, handles, worker, outcome, cancelling>>

RegisterCancelFlag(s) ==
    /\ Channel[s] = "session"
    /\ setup[s] \in {"created", "resumed"}
    /\ flags' = [flags EXCEPT ![s] = "clear"]
    /\ Move(s, "spawn")
    /\ UNCHANGED <<shared, children, lock, worker, outcome, cancelling>>

RegisterChild(s) ==
    /\ Channel[s] = "exec"
    /\ setup[s] = "created"
    /\ Unlocked
    /\ children' = children \cup {s}
    /\ Move(s, "spawn")
    /\ UNCHANGED <<shared, lock, flags, worker, outcome, cancelling>>

SpawnWorker(s) ==
    /\ setup[s] = "spawn"
    /\ Move(s, "none")
    /\ Work(s, "run")
    /\ UNCHANGED <<shared, handles, outcome, cancelling>>
-----------------------------------------------------------------------------
(* The worker *)

\* The session host returned.
HostReturns(s, o) ==
    /\ Channel[s] = "session"
    /\ worker[s] = "run"
    /\ outcome' = [outcome EXCEPT ![s] = o]
    /\ Work(s, "finish_child")
    /\ UNCHANGED <<shared, handles, setup, cancelling>>


\* The event loop of the session host polls the flag.
SeesCancel(s) ==
    /\ Channel[s] = "session"
    /\ worker[s] = "run"
    /\ flags[s] = "set"
    /\ outcome' = [outcome EXCEPT ![s] = "failed"]
    /\ Work(s, "finish_child")
    /\ UNCHANGED <<shared, handles, setup, cancelling>>

\* has_child is FALSE: cancelled, and the worker leaves the session alone.
SeesNoChild(s) ==
    /\ Channel[s] = "exec"
    /\ worker[s] = "run"
    /\ Unlocked
    /\ s \notin children
    /\ Work(s, "none")
    /\ UNCHANGED <<shared, handles, setup, outcome, cancelling>>

\* try_wait: the executor has exited (or was killed by its timeout).
ExecutorExits(s, o) ==
    /\ Channel[s] = "exec"
    /\ worker[s] = "run"
    /\ outcome' = [outcome EXCEPT ![s] = o]
    /\ Work(s, "finish_child")
    /\ UNCHANGED <<shared, handles, setup, cancelling>>
-----------------------------------------------------------------------------
(* finish, finish_session_channel: three critical sections, one after the other *)

RemoveChild(s) ==
    /\ Unlocked
    /\ children' = children \ {s}
    /\ UNCHANGED <<shared, lock, flags, outcome>>

RemoveFlag(s) ==
    /\ flags' = [flags EXCEPT ![s] = "none"]
    /\ UNCHANGED <<shared, children, lock, outcome>>

\* Mutant of Record: a cancelled round is given a status of its own.
RecordCancelled(s, o) ==
    /\ SetStatus(s, IF o = "failed" THEN "cancelled" ELSE "completed")
    /\ UNCHANGED named /\ Persist
    /\ UNCHANGED <<handles, outcome>>

\* Status, and the thread_id when the session host has one.  The worker is done
\* with the session; what its thread still does, l1_sink_session and the ledger
\* (module ServerLearning), only reads it.
Record(s, o) ==
    /\ SetStatus(s, IF o = "completed" THEN "completed" ELSE "error")
    /\ named' = IF Channel[s] = "session" /\ o # "no_thread" THEN named \cup {s} ELSE named
    /\ Persist
    /\ UNCHANGED <<handles, outcome>>

(* Setup and worker share finish; each goes through its critical sections. *)

FinishSetup(s) ==
    \/ setup[s] = "finish_child" /\ RemoveChild(s) /\ Move(s, "finish_flag")
       /\ UNCHANGED <<worker, cancelling>>
    \/ setup[s] = "finish_flag" /\ RemoveFlag(s) /\ Move(s, "finish")
       /\ UNCHANGED <<worker, cancelling>>
    \/ setup[s] = "finish" /\ Record(s, "no_thread") /\ Move(s, "none")
       /\ UNCHANGED <<worker, cancelling>>

\* Mutant of FinishWorker: the status first, then the handles.
FinishWorkerStatusFirst(s) ==
    /\ \/ worker[s] = "finish_child" /\ Record(s, outcome[s]) /\ Work(s, "finish_flag")
       \/ worker[s] = "finish_flag" /\ RemoveFlag(s) /\ Work(s, "finish")
       \/ worker[s] = "finish" /\ RemoveChild(s) /\ Work(s, "none")
    /\ UNCHANGED <<setup, cancelling>>

FinishWorker(s) ==
    \/ worker[s] = "finish_child" /\ RemoveChild(s) /\ Work(s, "finish_flag")
       /\ UNCHANGED <<setup, cancelling>>
    \/ worker[s] = "finish_flag" /\ RemoveFlag(s) /\ Work(s, "finish")
       /\ UNCHANGED <<setup, cancelling>>
    \/ worker[s] = "finish" /\ Record(s, outcome[s]) /\ Work(s, "none")
       /\ UNCHANGED <<setup, cancelling>>
-----------------------------------------------------------------------------
(* The cancelling request *)

CancelCalled(s) ==
    /\ status[s] # "absent"
    /\ cancelling[s] = "none"
    /\ Advance(s, "lookup")
    /\ UNCHANGED <<shared, handles, setup, worker, outcome>>

\* `if let Some(child) = children.lock().unwrap().remove(id)`: the guard stays.
TakeChild(s) ==
    /\ cancelling[s] = "lookup"
    /\ Unlocked
    /\ s \in children
    /\ children' = children \ {s}
    /\ lock' = s
    /\ Advance(s, "kill")
    /\ UNCHANGED <<shared, flags, setup, worker, outcome>>

\* kill, and the wait of at most three seconds.
KillChild(s) ==
    /\ cancelling[s] = "kill"
    /\ Advance(s, "finish_child")
    /\ UNCHANGED <<shared, handles, setup, worker, outcome>>

\* finish_impl locks `children` again, which this very request still holds.
CancelFinishes(s) ==
    /\ cancelling[s] = "finish_child"
    /\ RemoveChild(s)
    /\ Advance(s, "finish_flag")
    /\ UNCHANGED <<setup, worker>>

NoChild(s) ==
    /\ cancelling[s] = "lookup"
    /\ Unlocked
    /\ s \notin children
    /\ Advance(s, "flag")
    /\ UNCHANGED <<shared, handles, setup, worker, outcome>>

\* The flag is raised if the session has one; otherwise cancel answers an error.
RaiseFlag(s) ==
    /\ cancelling[s] = "flag"
    /\ flags' = [flags EXCEPT ![s] = IF @ = "none" THEN "none" ELSE "set"]
    /\ Advance(s, "none")
    /\ UNCHANGED <<shared, children, lock, setup, worker, outcome>>
-----------------------------------------------------------------------------
\* The server dies and is started again: load.
Restart ==
    /\ status' = [s \in Session |->
          IF disk.status[s] = "running" THEN "error" ELSE disk.status[s]]
    /\ named' = disk.thread
    /\ children' = {}
    /\ lock' = NoSession
    /\ flags' = [s \in Session |-> "none"]
    /\ setup' = [s \in Session |-> "none"]
    /\ worker' = [s \in Session |-> "none"]
    /\ outcome' = [s \in Session |-> "failed"]
    /\ cancelling' = [s \in Session |-> "none"]
    /\ UNCHANGED disk

Setup(s) ==
    \/ SetupFails(s) \/ RegisterCancelFlag(s) \/ RegisterChild(s)
    \/ SpawnWorker(s) \/ FinishSetup(s)

CancelGoesOn(s) == TakeChild(s) \/ KillChild(s) \/ NoChild(s) \/ RaiseFlag(s)

\* The executor's own end: nothing obliges it to come.
ExecutorEnds(s) ==
    \/ \E o \in Outcome : HostReturns(s, o)
    \/ \E o \in {"completed", "failed"} : ExecutorExits(s, o)

Watch(s) == SeesCancel(s) \/ FinishWorker(s)

\* What is to follow KillChild; the guard that its request holds prevents both.
AfterKill(s) == SeesNoChild(s) \/ CancelFinishes(s)

ConfiguredNext ==
    \/ \E s \in Session :
          \/ Create(s) \/ ResumeStart(s) \/ Setup(s)
          \/ ExecutorEnds(s) \/ Watch(s)
          \/ CancelCalled(s) \/ CancelGoesOn(s)
    \/ Restart

SessionNext ==
    \/ ConfiguredNext
    \/ \E s \in Session : HomeMissing(s) \/ AfterKill(s)

\* Threads run; clients, executors and crashes come when they come.
Fairness ==
    \A s \in Session :
        /\ WF_sessionVars(Setup(s))
        /\ WF_sessionVars(Watch(s) \/ SeesNoChild(s))
        /\ WF_sessionVars(CancelGoesOn(s) \/ CancelFinishes(s))

\* Agents of the session channel have a codex_home; nothing comes after a kill.
ConfiguredSpec == SessionInit /\ [][ConfiguredNext]_sessionVars /\ Fairness

SessionSpec == SessionInit /\ [][SessionNext]_sessionVars /\ Fairness
-----------------------------------------------------------------------------
(* Correctness *)

SessionsTypeOK ==
    /\ status \in [Session -> {"absent", "running"} \cup Terminal]
    /\ named \subseteq Session
    /\ disk \in [status : [Session -> {"absent", "running"} \cup Terminal],
                 thread : SUBSET Session]
    /\ children \subseteq Session
    /\ lock \in Session \cup {NoSession}
    /\ flags \in [Session -> {"none", "clear", "set"}]
    /\ setup \in [Session -> {"none", "created", "resumed", "spawn"} \cup Finishing]
    /\ worker \in [Session -> {"none", "run"} \cup Finishing]
    /\ outcome \in [Session -> Outcome]
    /\ cancelling \in [Session -> {"none", "lookup", "kill", "flag"} \cup Finishing]

(***************************************************************************)
(* No "eternal spinner" (load): a session shown as running is being set    *)
(* up, watched by a worker, or being cancelled.                            *)
(***************************************************************************)
RunningIsAttended ==
    \A s \in Session :
        status[s] = "running" =>
            setup[s] # "none" \/ worker[s] # "none" \/ cancelling[s] \in Finishing \cup {"kill"}

(***************************************************************************)
(* The handles of a round do not outlive it: while a session is terminal   *)
(* it has no executor child and no cancellation flag that a cancel of its  *)
(* next round could find (finish_impl, resume_start).                      *)
(***************************************************************************)
NoStaleHandle ==
    \A s \in Session : status[s] \in Terminal => s \notin children /\ flags[s] = "none"

(***************************************************************************)
(* One worker per session: while a request sets a round up no worker of an *)
(* earlier round is left that will still change the session (resume_start).*)
(***************************************************************************)
OneRoundAtATime ==
    \A s \in Session : setup[s] # "none" => worker[s] = "none"

\* An executor is being killed: its cancel will hold `children` for ever.
Killing == \E s \in Session : cancelling[s] \in {"kill", "finish_child"}


(***************************************************************************)
(* "A stubborn child cannot hang cancel": every cancel request returns.    *)
(***************************************************************************)
CancelReturns ==
    \A s \in Session : (cancelling[s] # "none") ~> (cancelling[s] = "none")
=============================================================================
