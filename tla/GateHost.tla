------------------------------- MODULE GateHost -------------------------------
(***************************************************************************)
(* The execution plane inside codex-core (experience_p1_gate.rs), as the   *)
(* turns of one process use it.  A turn asks the task seat, then the       *)
(* prefix seat, then the state seat, and only then samples the model;      *)
(* every tool call of the model passes the dispatch seat first.  Turns     *)
(* of several threads run at once and share the cached runtime, the fuse   *)
(* and usage.json.                                                         *)
(*                                                                         *)
(* The runtime itself is GateRuntime; here a takeover is its decision      *)
(* (Hit while the preconditions hold, Satisfied when only the              *)
(* postconditions do) and its closed result, for experiences that are not  *)
(* templates.  The store is the default one (no EXPERIENCE_GATE_STORE).    *)
(***************************************************************************)
EXTENDS Naturals, FiniteSets

CONSTANTS
    Turn,               \* turns of the process that may run at once
    Experience,
    Seat,               \* Seat[e]: the seat whose trigger e declares
    NoFile,             \* no canonical store at the resolved path
    NoCache,            \* no runtime loaded yet
    NoTurn,
    MAX_GATE_HITS,
    GATE_WINDOW,
    MAX_STATE_TAKEOVERS,
    MaxTime,            \* bound: the clock
    MaxCalls,           \* bound: tool calls per turn
    MaxManagers         \* bound: copies of usage.json that management calls have read

Seats == {"task", "prefix", "state", "tool"}

ASSUME HostAssumption ==
    /\ Seat \in [Experience -> Seats]
    /\ \A s \in SUBSET Experience : s # NoFile /\ s # NoCache
    /\ NoTurn \notin Turn
    /\ MAX_GATE_HITS \in Nat \ {0}
    /\ GATE_WINDOW \in Nat \ {0}
    /\ MAX_STATE_TAKEOVERS \in Nat \ {0}
    /\ MaxTime \in Nat
    /\ MaxCalls \in Nat
    /\ MaxManagers \in Nat
VARIABLES
    clock,     \* Instant::now
    fuse,      \* GATE_HITS: when its window started, and the hits in it (0: unset)
    granted,   \* history: the hits the fuse let through in the GATE_WINDOW from each instant
    file,      \* the ACTIVE experiences of the canonical store, or NoFile
    runtime,   \* RUNTIME: the ones the cached store holds
    pre,       \* the experiences whose preconditions hold in the world
    done,      \* the ones whose postconditions hold
    pc,        \* where each turn is
    hit,       \* the decision a turn acts on, and its result
    taken,     \* takeovers of the state seat in this turn
    calls,     \* tool calls of this turn
    lock,      \* the turn that holds GATE_USAGE_LOCK
    usage,     \* the hits in usage.json
    loaded,    \* the usage a turn has read
    copies,    \* the usages that management calls have read and may write back
    recorded,  \* history: the takeovers whose save returned, while not spoiled
    spoiled    \* history: a management call wrote an outdated copy, or was read while writing

vars == <<clock, fuse, granted, file, runtime, pre, done, pc, hit, taken, calls,
          lock, usage, loaded, copies, recorded, spoiled>>

time   == <<clock, fuse, granted>>
store  == <<file, runtime>>
world  == <<pre, done>>
counts == <<lock, usage, loaded, copies, recorded, spoiled>>

Zero  == [e \in Experience |-> 0]
NoHit == [seat |-> "none"]

Init ==
    /\ clock = 0
    /\ fuse = [start |-> 0, count |-> 0]
    /\ granted = [i \in 0..MaxTime |-> 0]
    /\ file \in {NoFile} \cup SUBSET Experience
    /\ runtime = NoCache
    /\ pre \in SUBSET Experience
    /\ done \in SUBSET Experience
    /\ pc = [t \in Turn |-> "idle"]
    /\ hit = [t \in Turn |-> NoHit]
    /\ taken = [t \in Turn |-> 0]
    /\ calls = [t \in Turn |-> 0]
    /\ lock = NoTurn
    /\ usage = Zero
    /\ loaded = [t \in Turn |-> Zero]
    /\ copies = {}
    /\ recorded = Zero
    /\ spoiled = FALSE

Goto(t, l) == pc' = [pc EXCEPT ![t] = l]

\* run_turn begins: its flags are fresh.
StartTurn(t) ==
    /\ pc[t] = "idle"
    /\ Goto(t, "task")
    /\ taken' = [taken EXCEPT ![t] = 0]
    /\ calls' = [calls EXCEPT ![t] = 0]
    /\ UNCHANGED <<time, store, world, hit, counts>>
-----------------------------------------------------------------------------
(* Consulting a seat *)

\* The call that asks it; the state seat asks again after each takeover.
SeatOf(l) == IF l = "again" THEN "state" ELSE l

\* Where a turn goes when the seat it is at declines.
Declined(l) ==
    CASE l = "task" -> "prefix"
      [] l = "prefix" -> "state"
      [] l \in {"state", "again"} -> "sample"
      [] l = "tool" -> "dispatch"

\* Where it goes without a runtime, or when the fuse has blown.
Degraded(l) == IF l = "task" THEN "state" ELSE Declined(l)

\* runtime(): the store is loaded once per process, and only if it is there.
NoRuntime(t) ==
    /\ pc[t] \in {"task", "state", "tool"}
    /\ file = NoFile
    /\ Goto(t, Degraded(pc[t]))
    /\ UNCHANGED <<time, store, world, hit, taken, calls, counts>>

\* A seat resolves the runtime when it is entered and keeps it for the whole call.
Resolve(l) ==
    /\ l \in {"task", "state", "tool"} => file # NoFile
    /\ runtime' = IF runtime = NoCache THEN file ELSE runtime

Candidates(l) == {e \in runtime' : Seat[e] = SeatOf(l)}

Miss(t) ==
    /\ pc[t] \in Seats \cup {"again"}
    /\ Resolve(pc[t])
    /\ Candidates(pc[t]) \cap (pre \cup done) = {}
    /\ Goto(t, Declined(pc[t]))
    /\ UNCHANGED <<time, file, world, hit, taken, calls, counts>>

\* For the state seat Satisfied is a reason to stop.
StateSatisfied(t) ==
    /\ pc[t] \in {"state", "again"}
    /\ Resolve(pc[t])
    /\ Candidates(pc[t]) \cap (done \ pre) # {}
    /\ Goto(t, "sample")
    /\ UNCHANGED <<time, file, world, hit, taken, calls, counts>>

\* Every other decision is a takeover; the candidates' order is the store's.
TakeOver(t, e) ==
    /\ pc[t] \in Seats \cup {"again"}
    /\ Resolve(pc[t])
    /\ e \in Candidates(pc[t]) \cap (pre \cup done)
    /\ SeatOf(pc[t]) = "state" => e \in pre
    /\ hit' = [hit EXCEPT ![t] = [seat |-> SeatOf(pc[t]), exp |-> e,
                                  satisfied |-> e \notin pre, result |-> "none"]]
    /\ Goto(t, "fuse")
    /\ UNCHANGED <<time, file, world, taken, calls, counts>>
-----------------------------------------------------------------------------
(* gate_hit_allowed *)

InWindow == fuse.count > 0 /\ clock - fuse.start < GATE_WINDOW

\* Mutant of Blown: one hit more.
BlownLate == InWindow /\ fuse.count > MAX_GATE_HITS

Blown == InWindow /\ fuse.count >= MAX_GATE_HITS

\* Mutant of FuseAfterHit: the window restarts with every hit it lets through.
FuseAfterHitRestarted == [start |-> clock, count |-> 1]

FuseAfterHit ==
    IF InWindow THEN [fuse EXCEPT !.count = @ + 1] ELSE [start |-> clock, count |-> 1]

\* The present instant is in the stretch of GATE_WINDOW that begins at instant i.
Within(i) == i <= clock /\ clock < i + GATE_WINDOW

FuseAllows(t) ==
    /\ pc[t] = "fuse"
    /\ ~Blown
    /\ fuse' = FuseAfterHit
    /\ granted' = [i \in 0..MaxTime |-> granted[i] + (IF Within(i) THEN 1 ELSE 0)]
    /\ Goto(t, "execute")
    /\ UNCHANGED <<clock, store, world, hit, taken, calls, counts>>

FuseBlocks(t) ==
    /\ pc[t] = "fuse"
    /\ Blown
    /\ Goto(t, Degraded(hit[t].seat))
    /\ hit' = [hit EXCEPT ![t] = NoHit]
    /\ UNCHANGED <<time, store, world, taken, calls, counts>>
-----------------------------------------------------------------------------
(* runtime.execute, record_gate_usage, and the seat's answer *)

Result == {"success", "failure"}

(***************************************************************************)
(* A success was verified; a failure is a misfire, which has executed      *)
(* steps, or invalid, which has executed none to its end.  What ran, also  *)
(* a first step that failed half-way, may or may not leave its own         *)
(* preconditions true.                                                     *)
(***************************************************************************)
Execute(t, r) ==
    /\ pc[t] = "execute"
    /\ hit[t].satisfied => r = "success"
    /\ hit' = [hit EXCEPT ![t].result = r]
    /\ IF hit[t].satisfied
       THEN UNCHANGED world
       ELSE /\ pre' \in {pre, pre \ {hit[t].exp}}
            /\ done' = IF r = "success" THEN done \cup {hit[t].exp} ELSE done
    /\ Goto(t, "load")
    /\ UNCHANGED <<time, store, taken, calls, counts>>

\* The store has gone: there is no usage file to write.
NoUsageFile(t) ==
    /\ pc[t] = "load"
    /\ file = NoFile
    /\ Goto(t, "answer")
    /\ UNCHANGED <<time, store, world, hit, taken, calls, counts>>

\* Mutant of LoadUsage: without GATE_USAGE_LOCK.
LoadUsageUnlocked(t) ==
    /\ pc[t] = "load" /\ file # NoFile
    /\ loaded' = [loaded EXCEPT ![t] = usage] /\ Goto(t, "save")
    /\ UNCHANGED <<time, store, world, hit, taken, calls, lock, usage, copies, recorded, spoiled>>

Spoils(b) ==
    /\ spoiled' = (spoiled \/ b)
    /\ recorded' = IF spoiled \/ b THEN Zero ELSE recorded

\* A usage.json that a management call is just writing, in place, reads as empty.
LoadUsage(t) ==
    /\ pc[t] = "load"
    /\ file # NoFile
    /\ lock = NoTurn
    /\ lock' = t
    /\ \/ loaded' = [loaded EXCEPT ![t] = usage] /\ UNCHANGED <<recorded, spoiled>>
       \/ copies # {} /\ loaded' = [loaded EXCEPT ![t] = Zero] /\ Spoils(usage # Zero)
    /\ Goto(t, "save")
    /\ UNCHANGED <<time, store, world, hit, taken, calls, usage, copies>>

Recorded(e) == recorded' = IF spoiled THEN Zero ELSE [recorded EXCEPT ![e] = @ + 1]

\* Mutant of SaveUsage: the lock is not released.
SaveUsageLocked(t) ==
    /\ pc[t] = "save"
    /\ usage' = [loaded[t] EXCEPT ![hit[t].exp] = @ + 1]
    /\ Recorded(hit[t].exp)
    /\ loaded' = [loaded EXCEPT ![t] = Zero] /\ Goto(t, "answer")
    /\ UNCHANGED <<time, store, world, hit, taken, calls, lock, copies, spoiled>>

SaveUsage(t) ==
    /\ pc[t] = "save"
    /\ usage' = [loaded[t] EXCEPT ![hit[t].exp] = @ + 1]
    /\ Recorded(hit[t].exp)
    /\ loaded' = [loaded EXCEPT ![t] = Zero]
    /\ lock' = NoTurn
    /\ Goto(t, "answer")
    /\ UNCHANGED <<time, store, world, hit, taken, calls, copies, spoiled>>

Success(t) == hit[t].result = "success"

\* Completed ends the turn, the model is not sampled.
Completed(t) ==
    /\ pc[t] = "answer"
    /\ hit[t].seat = "task"
    /\ Success(t)
    /\ Goto(t, "idle")
    /\ hit' = [hit EXCEPT ![t] = NoHit]
    /\ UNCHANGED <<time, store, world, taken, calls, counts>>

\* Handoff: the rest of the task goes to the model, after the state seat.
Handoff(t) ==
    /\ pc[t] = "answer"
    /\ \/ hit[t].seat = "prefix"
       \/ hit[t].seat = "task" /\ ~Success(t)
    /\ Goto(t, "state")
    /\ hit' = [hit EXCEPT ![t] = NoHit]
    /\ UNCHANGED <<time, store, world, taken, calls, counts>>

\* Mutant of StateTakeover: the decision is repeated instead of made afresh.
StateTakeoverRepeats(t) ==
    /\ pc[t] = "answer" /\ hit[t].seat = "state"
    /\ taken' = [taken EXCEPT ![t] = @ + 1]
    /\ Goto(t, IF Success(t) /\ taken'[t] < MAX_STATE_TAKEOVERS THEN "fuse" ELSE "sample")
    /\ UNCHANGED <<time, store, world, hit, calls, counts>>

StateTakeover(t) ==
    /\ pc[t] = "answer"
    /\ hit[t].seat = "state"
    /\ taken' = [taken EXCEPT ![t] = @ + 1]
    /\ Goto(t, IF Success(t) /\ taken'[t] < MAX_STATE_TAKEOVERS THEN "again" ELSE "sample")
    /\ hit' = [hit EXCEPT ![t] = NoHit]
    /\ UNCHANGED <<time, store, world, calls, counts>>

\* The payload is injected as the tool's output.
ToolAnswered(t) ==
    /\ pc[t] = "answer"
    /\ hit[t].seat = "tool"
    /\ Goto(t, "sample")
    /\ hit' = [hit EXCEPT ![t] = NoHit]
    /\ UNCHANGED <<time, store, world, taken, calls, counts>>
-----------------------------------------------------------------------------
(* The model, its tools, and the rest of the machine *)

CallTool(t) ==
    /\ pc[t] = "sample"
    /\ calls[t] < MaxCalls
    /\ calls' = [calls EXCEPT ![t] = @ + 1]
    /\ Goto(t, "tool")
    /\ UNCHANGED <<time, store, world, hit, taken, counts>>

EndTurn(t) ==
    /\ pc[t] = "sample"
    /\ Goto(t, "idle")
    /\ UNCHANGED <<time, store, world, hit, taken, calls, counts>>

\* The original tool runs; it may do anything to the world.
Dispatch(t) ==
    /\ pc[t] = "dispatch"
    /\ Goto(t, "sample")
    /\ pre' \in SUBSET Experience
    /\ done' \in SUBSET Experience
    /\ UNCHANGED <<time, store, hit, taken, calls, counts>>

\* reload: a management call, of this process or another, reads both files; a
\* usage.json that a turn is just writing reads as empty.
Reload ==
    /\ Cardinality(copies) < MaxManagers
    /\ \E u \in {usage} \cup (IF lock = NoTurn THEN {} ELSE {Zero}) : copies' = copies \cup {u}
    /\ UNCHANGED <<time, store, world, pc, hit, taken, calls, lock, usage, loaded, recorded, spoiled>>

\* persist, save_canonical: the store, and then usage.json with the counts that
\* were read (and an audit entry), without GATE_USAGE_LOCK.  Another call may
\* have read the same ones.
Persist(u) ==
    /\ file' \in SUBSET Experience
    /\ usage' = u
    /\ Spoils(u # usage)
    /\ copies' \in {copies, copies \ {u}}
    /\ UNCHANGED <<time, runtime, world, pc, hit, taken, calls, lock, loaded>>

\* The call only looked, or was refused.
Forgo(u) ==
    /\ copies' = copies \ {u}
    /\ UNCHANGED <<time, store, world, pc, hit, taken, calls, lock, usage, loaded, recorded, spoiled>>

\* The store file is put there, replaced or taken away by others.
ChangeFile ==
    /\ file' \in {NoFile} \cup SUBSET Experience
    /\ UNCHANGED <<time, runtime, world, pc, hit, taken, calls, counts>>

Tick ==
    /\ clock < MaxTime
    /\ clock' = clock + 1
    /\ UNCHANGED <<fuse, granted, store, world, pc, hit, taken, calls, counts>>

\* The steps of a turn that are the gate's, not the model's.
GateStep(t) ==
    \/ NoRuntime(t) \/ Miss(t) \/ StateSatisfied(t)
    \/ \E e \in Experience : TakeOver(t, e)
    \/ FuseAllows(t) \/ FuseBlocks(t)
    \/ \E r \in Result : Execute(t, r)
    \/ NoUsageFile(t) \/ LoadUsage(t) \/ SaveUsage(t)
    \/ Completed(t) \/ Handoff(t) \/ StateTakeover(t) \/ ToolAnswered(t)

Next ==
    \/ \E t \in Turn :
          StartTurn(t) \/ GateStep(t) \/ CallTool(t) \/ EndTurn(t) \/ Dispatch(t)
    \/ Reload
    \/ \E u \in copies : Persist(u) \/ Forgo(u)
    \/ ChangeFile
    \/ Tick
Spec == Init /\ [][Next]_vars /\ \A t \in Turn : WF_vars(GateStep(t))
-----------------------------------------------------------------------------
(* Correctness *)

Place == Seats \cup {"idle", "again", "fuse", "execute", "load", "save", "answer",
                     "sample", "dispatch"}

Takeover ==
    [seat : Seats, exp : Experience, satisfied : BOOLEAN, result : Result \cup {"none"}]

TypeOK ==
    /\ clock \in 0..MaxTime
    /\ fuse \in [start : 0..MaxTime, count : 0..MAX_GATE_HITS]
    /\ granted \in [0..MaxTime -> Nat]
    /\ file \in {NoFile} \cup SUBSET Experience
    /\ runtime \in {NoCache} \cup SUBSET Experience
    /\ pre \in SUBSET Experience
    /\ done \in SUBSET Experience
    /\ pc \in [Turn -> Place]
    /\ hit \in [Turn -> {NoHit} \cup Takeover]
    /\ taken \in [Turn -> 0..MAX_STATE_TAKEOVERS]
    /\ calls \in [Turn -> 0..MaxCalls]
    /\ lock \in Turn \cup {NoTurn}
    /\ usage \in [Experience -> Nat]
    /\ loaded \in [Turn -> [Experience -> Nat]]
    /\ copies \subseteq [Experience -> Nat]
    /\ recorded \in [Experience -> Nat]
    /\ spoiled \in BOOLEAN
(***************************************************************************)
(* What the fuse guarantees (gate_hit_allowed), however the turns          *)
(* interleave: the window is fixed, not rolling, so a stretch of           *)
(* GATE_WINDOW meets at most two of its windows, and not the hit that      *)
(* opened the earlier one.                                                 *)
(***************************************************************************)
FuseBoundsHits == \A i \in 0..MaxTime : granted[i] <= 2 * MAX_GATE_HITS - 1

(***************************************************************************)
(* usage.json loses no takeover of this process to another turn: as long   *)
(* as no management call writes back a copy that has become outdated, or   *)
(* is read half-way through its write, every count is there                *)
(* (record_gate_usage).                                                    *)
(***************************************************************************)
UsageKeepsRecords == spoiled \/ usage = recorded

(***************************************************************************)
(* Every mutating management call reloads the files in order to "never     *)
(* overwrite a store the running agent just changed"                       *)
(* (experience_management.rs:409): no count is lost at all.  A takeover    *)
(* that is recorded between the reload and the persist of a call refutes   *)
(* it.                                                                     *)
(***************************************************************************)
UsageNeverLost == [][\A e \in Experience : usage[e] <= usage'[e]]_vars

(***************************************************************************)
(* "The gate never blocks the agent loop": a turn that is with the gate    *)
(* comes back to the model, or ends, whatever the store file and the other *)
(* turns do.                                                               *)
(***************************************************************************)
LoopResumes ==
    \A t \in Turn :
        (pc[t] # "idle") ~> (pc[t] \in {"sample", "dispatch", "idle"})

(***************************************************************************)
(* One turn alone acts on what is so: what it executes has its             *)
(* preconditions in the world at that moment, also when the state seat has *)
(* just run it and asks again (try_state_gate), and what it reports as     *)
(* satisfied is so.  The decision, the fuse and the execution are separate *)
(* steps, so turns of other threads can make a decision stale.             *)
(***************************************************************************)
ActsOnFreshDecision ==
    \A t \in Turn : pc[t] \in {"fuse", "execute"} =>
        hit[t].exp \in (IF hit[t].satisfied THEN done ELSE pre)
=============================================================================
