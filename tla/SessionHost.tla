----------------------------- MODULE SessionHost -----------------------------
(***************************************************************************)
(* The session host driver (crates/agent-codex, session_host.rs): one run  *)
(* spawns `codex app-server`, does the handshake (1 initialize, 2 start or *)
(* resume a thread, 3 queue/add, 4 queue/start), follows the events until  *)
(* the run is complete, and stops the host.  The first run makes the       *)
(* thread; later ones resume it on a fresh host, where the thread's queue  *)
(* (module ThreadQueue) is as the earlier hosts left it.  The message of a *)
(* run has the run's number.                                               *)
(*                                                                         *)
(* The host may be slow, silent, noisy, deaf or dead at any step: it has   *)
(* no fairness.  Time is a flag: a deadline has passed, or it has not.  A  *)
(* turn may have one sub-agent, a thread of its own that the app-server    *)
(* subscribes its client to, and that dies with the host.                  *)
(***************************************************************************)
EXTENDS Naturals, Sequences, FiniteSets, Functions

CONSTANTS
    MaxRuns,      \* bound: runs on one thread
    MaxChatter,   \* bound: unread messages that the driver has no use for
    NoTurn, LiveTurn

ASSUME RunAssumption ==
    /\ MaxRuns \in Nat \ {0} /\ MaxChatter \in Nat
    /\ NoTurn \notin Nat /\ LiveTurn \notin Nat /\ NoTurn # LiveTurn

Run == 1..MaxRuns

VARIABLES
    run,        \* the number of the run
    mode,       \* ThreadMode: "New" or "Resume"
    completion, \* Completion: "Verify" or "TurnCompleted"
    at,         \* where the driver is
    step,       \* the handshake step, which is also the id of its request
    expired,    \* the deadline of the wait has passed
    cancel,     \* the operator's flag
    saw,        \* saw_turn_completed
    trace,      \* "already" if AlreadyStarted was recorded, "missed" if a turn/completed was skipped
    result,     \* what the run returned
    child,      \* the host process
    request,    \* the request the host has to answer, 0 if none
    loaded,     \* the host has loaded the thread
    pipe,       \* messages read from the host's stdout
    queue,      \* the rows of the thread's queue
    begun,      \* messages whose turn has begun
    turn,       \* the active turn
    interrupted,\* the last turn was aborted: the queue is paused
    helper,     \* the message for which a sub-agent is at work
    effect,     \* messages whose effect can be seen in the workspace
    finished,   \* history: messages whose turn ended
    helped      \* history: messages with a sub-agent whose turn ended

driver == <<run, mode, completion, at, step, expired, cancel, saw, trace, result>>
agents == <<helper, helped>>
thread == <<queue, begun, turn, interrupted, effect, finished, agents>>
host   == <<child, request, loaded, pipe>>
vars   == <<driver, host, thread>>

\* Err, or an outcome: ok or not, with a thread_id.
Result == {"none", "err", "failed", "ok"}

Reply(k, what) == [type |-> "reply", id |-> k, what |-> what]
TurnCompleted  == [type |-> "turn/completed", id |-> 0, what |-> "ok"]
Other          == [type |-> "other", id |-> 0, what |-> "ok"]

\* Once the row of a queue/add is committed, its answer is what is left to do.
Added == 5

Init ==
    /\ run = 0 /\ mode = "New" /\ completion = "TurnCompleted"
    /\ at = "done" /\ step = 1 /\ expired = FALSE /\ cancel = FALSE
    /\ saw = FALSE /\ trace = {} /\ result = "none"
    /\ child = "none" /\ request = 0 /\ loaded = FALSE /\ pipe = <<>>
    /\ queue = <<>> /\ begun = {} /\ turn = NoTurn /\ interrupted = FALSE
    /\ helper = NoTurn /\ effect = {} /\ finished = {} /\ helped = {}

Alive == child = "alive"
-----------------------------------------------------------------------------
(* The driver *)

\* run_session_task, run_session_task_until_turn, resume_thread: the host is
\* spawned, or cannot be.
Spawn(m, c, ch) ==
    /\ at = "done" /\ run < MaxRuns /\ child # "alive"
    /\ IF run = 0 THEN m = "New"
       ELSE m = "Resume" /\ c = "TurnCompleted" /\ (mode = "Resume" \/ result \in {"failed", "ok"})
    /\ run' = run + 1 /\ mode' = m /\ completion' = c
    /\ at' = IF ch = "alive" THEN "send" ELSE "done"
    /\ result' = IF ch = "alive" THEN "none" ELSE "err"
    /\ child' = ch
    /\ step' = 1 /\ expired' = FALSE /\ cancel' = FALSE /\ saw' = FALSE /\ trace' = {}
    /\ request' = 0 /\ loaded' = FALSE /\ pipe' = <<>>
    /\ UNCHANGED thread

\* protocol_fail and the handshake before a thread is known, `fail` after it: a
\* new thread's run keeps its thread_id, a resumed one's caller has it.
Failure == IF mode = "New" /\ step > 2 THEN "failed" ELSE "err"

Returns(res) ==
    /\ result' = res
    /\ at' = "stop"
    /\ expired' = FALSE

\* The request has been written, or the host is gone and the write fails.
Written ==
    /\ IF Alive
       THEN /\ at' = "reply" /\ expired' = FALSE /\ request' = step
            /\ UNCHANGED result
       ELSE Returns(Failure) /\ UNCHANGED request
    /\ UNCHANGED <<run, mode, completion, step, cancel, saw, trace>>
    /\ UNCHANGED <<child, loaded, pipe, thread>>

\* write_all returns.
Send ==
    /\ at = "send" \/ (at = "blocked" /\ ~Alive)
    /\ Written

\* write_all has no deadline: it waits for a host that does not read its stdin,
\* and goes on when the host reads again.
SendBlocks ==
    /\ at = "send" /\ Alive
    /\ at' = "blocked"
    /\ UNCHANGED <<run, mode, completion, step, expired, cancel, saw, trace, result, host, thread>>

SendUnblocks ==
    /\ at = "blocked" /\ Alive
    /\ Written

\* The reply the driver waits for is the next message.
Replied == at = "reply" /\ pipe # <<>> /\ Head(pipe).type = "reply" /\ Head(pipe).id = step

\* Replies to queue/start that are taken to mean that the turn is starting.
Tolerated == step = 4 /\ Head(pipe).what \in {"busy", "empty"}

\* next_reply drops every message but the reply with the id of the step.
SkipMessage ==
    /\ at = "reply" /\ pipe # <<>> /\ ~Replied
    /\ pipe' = Tail(pipe)
    /\ trace' = IF Head(pipe).type = "turn/completed" THEN trace \cup {"missed"} ELSE trace
    /\ UNCHANGED <<run, mode, completion, at, step, expired, cancel, saw, result>>
    /\ UNCHANGED <<child, request, loaded, thread>>

\* The next step of the handshake, or the event loop.
Proceed ==
    /\ Replied
    /\ Head(pipe).what = "ok" \/ Tolerated
    /\ pipe' = Tail(pipe)
    /\ at' = IF step = 4 THEN "loop" ELSE "send"
    /\ step' = IF step = 4 THEN 4 ELSE step + 1
    /\ trace' = IF Tolerated THEN trace \cup {"already"} ELSE trace
    /\ UNCHANGED <<run, mode, completion, expired, cancel, saw, result>>
    /\ UNCHANGED <<child, request, loaded, thread>>

Refused ==
    /\ Replied
    /\ Head(pipe).what # "ok" /\ ~Tolerated
    /\ pipe' = Tail(pipe)
    /\ Returns(Failure)
    /\ UNCHANGED <<run, mode, completion, step, cancel, saw, trace>>
    /\ UNCHANGED <<child, request, loaded, thread>>

\* Mutant of Complete: a run is complete once its message has been accepted.
CompleteEarly ==
    IF completion = "Verify" THEN run \in effect ELSE saw \/ run \in begun

\* verify() finds the effect in the workspace; or a turn/completed was seen, of
\* whatever turn of whatever thread, and the quiet window may be over.
Complete ==
    IF completion = "Verify" THEN run \in effect ELSE saw

\* Mutant of NoReply: the wait has no deadline of its own.
NoReplyNoDeadline ==
    /\ at = "reply" /\ pipe = <<>> /\ ~Alive /\ Returns(Failure)
    /\ UNCHANGED <<run, mode, completion, step, cancel, saw, trace, host, thread>>

\* recv_timeout: nothing is left to read and the deadline has passed, or the
\* reader has seen the end of the host's output.
NoReply ==
    /\ at = "reply" /\ pipe = <<>>
    /\ expired \/ ~Alive
    /\ Returns(Failure)
    /\ UNCHANGED <<run, mode, completion, step, cancel, saw, trace, host, thread>>

\* The head of the loop, in its order: cancelled, complete, or host exited,
\* which also ends a run that is in its quiet window.
LoopEnds(res) ==
    /\ at = "loop"
    /\ \/ cancel /\ res = "failed"
       \/ ~cancel /\ Complete /\ res = "ok"
       \/ /\ ~cancel /\ (completion = "Verify" => ~Complete) /\ ~Alive
          /\ res = "failed"
    /\ Returns(res)
    /\ UNCHANGED <<run, mode, completion, step, cancel, saw, trace, host, thread>>

\* Mutant of LoopDrains: the flag is that of the last message.
LoopDrainsForgets ==
    /\ at = "loop" /\ ~cancel /\ Alive /\ (completion = "Verify" => ~Complete)
    /\ pipe # <<>> /\ pipe' = Tail(pipe)
    /\ saw' = (Head(pipe).type = "turn/completed")
    /\ UNCHANGED <<run, mode, completion, at, step, expired, cancel, trace, result>>
    /\ UNCHANGED <<child, request, loaded, thread>>

\* drain_event; inside the quiet window the loop goes on reading.
LoopDrains ==
    /\ at = "loop" /\ ~cancel /\ Alive
    /\ completion = "Verify" => ~Complete
    /\ pipe # <<>>
    /\ pipe' = Tail(pipe)
    /\ saw' = (saw \/ Head(pipe).type = "turn/completed")
    /\ UNCHANGED <<run, mode, completion, at, step, expired, cancel, trace, result>>
    /\ UNCHANGED <<child, request, loaded, thread>>

\* try_wait fails in the loop, or in stop() before the host is killed.
WaitFails ==
    \/ /\ at = "loop" /\ ~cancel
       /\ completion = "Verify" => ~Complete
       /\ "wait" \notin trace
       /\ trace' = trace \cup {"wait"}
       /\ Returns(IF mode = "New" THEN "failed" ELSE "err")
       /\ UNCHANGED <<run, mode, completion, step, cancel, saw, host, thread>>
    \/ /\ at = "stop"
       /\ at' = "done"
       /\ trace' = trace \cup {"wait"}
       /\ UNCHANGED <<run, mode, completion, step, expired, cancel, saw, result, host, thread>>

\* What becomes of the active turn when its host dies: it is lost, recorded as
\* aborted, or its row is still in the queue.
LoseTurn ==
    /\ turn' = NoTurn /\ helper' = NoTurn
    /\ \/ UNCHANGED <<queue, begun, interrupted>>
       \/ turn # NoTurn /\ interrupted' = TRUE /\ UNCHANGED <<queue, begun>>
       \/ /\ turn \in begun
          /\ queue' = <<turn>> \o queue
          /\ begun' = begun \ {turn}
          /\ UNCHANGED interrupted
    /\ UNCHANGED <<effect, finished, helped>>

\* Mutant of Stop: a host that ignores its closed stdin is left alone.
StopGently ==
    /\ at = "stop" /\ (~Alive \/ expired) /\ at' = "done"
    /\ child' = IF Alive THEN "alive" ELSE "reaped"
    /\ UNCHANGED <<run, mode, completion, step, expired, cancel, saw, trace, result>>
    /\ UNCHANGED <<request, loaded, pipe, thread>>

\* stop: the host has gone, or its time is up and it is killed and waited for.
Stop ==
    /\ at = "stop"
    /\ ~Alive \/ expired
    /\ at' = "done"
    /\ child' = "reaped"
    /\ LoseTurn
    /\ UNCHANGED <<run, mode, completion, step, expired, cancel, saw, trace, result>>
    /\ UNCHANGED <<request, loaded, pipe>>

Cancel ==
    /\ at # "done" /\ ~cancel
    /\ cancel' = TRUE
    /\ UNCHANGED <<run, mode, completion, at, step, expired, saw, trace, result, host, thread>>

\* PROTOCOL_TIMEOUT, or the five seconds of stop().
Deadline ==
    /\ at \in {"reply", "stop"} /\ ~expired
    /\ expired' = TRUE
    /\ UNCHANGED <<run, mode, completion, at, step, cancel, saw, trace, result, host, thread>>
-----------------------------------------------------------------------------
(* The host *)

Says(msg) == pipe' = Append(pipe, msg)

\* Why queue/start may refuse, besides failing.
Refusal == IF queue = <<>> THEN "empty" ELSE IF turn # NoTurn THEN "busy" ELSE "error"

\* A request fails, or the handshake goes on; a thread/start reply without a
\* thread id is an error too.
Answer(what) ==
    /\ Alive /\ request \in 1..4
    /\ what \in CASE request < 3 -> {"ok", "error"}
                  [] request = 3 -> {"error"}
                  [] request = 4 -> {"error", Refusal}
    /\ Says(Reply(request, what))
    /\ request' = 0
    /\ loaded' = (loaded \/ (request = 2 /\ what = "ok"))
    /\ UNCHANGED <<child, driver, thread>>

\* enqueue: the row is committed; the thread is woken before the answer.
HostAdd ==
    /\ Alive /\ request = 3
    /\ queue' = Append(queue, run)
    /\ request' = Added
    /\ UNCHANGED <<child, loaded, pipe, driver>>
    /\ UNCHANGED <<begun, turn, interrupted, effect, finished, agents>>

HostAdded ==
    /\ Alive /\ request = Added
    /\ Says(Reply(3, "ok"))
    /\ request' = 0
    /\ UNCHANGED <<child, loaded, driver, thread>>

\* Mutant of BeginHead: the head starts and its row stays.
BeginHeadKeepsRow ==
    /\ turn = NoTurn /\ queue # <<>> /\ turn' = Head(queue)
    /\ begun' = begun \cup {Head(queue)} /\ interrupted' = FALSE
    /\ UNCHANGED <<queue, effect, finished, agents>>

BeginHead ==
    /\ turn = NoTurn /\ queue # <<>>
    /\ turn' = Head(queue)
    /\ begun' = begun \cup {Head(queue)}
    /\ queue' = Tail(queue)
    /\ interrupted' = FALSE
    /\ UNCHANGED <<effect, finished, agents>>

\* start: an idle thread starts the head of its queue, also a paused one.
HostStart ==
    /\ Alive /\ request = 4
    /\ BeginHead
    /\ Says(Reply(4, "ok"))
    /\ request' = 0
    /\ UNCHANGED <<child, loaded, driver>>

\* Idle dispatch of the thread.
HostDispatch ==
    /\ Alive /\ loaded /\ ~interrupted
    /\ BeginHead
    /\ UNCHANGED <<driver, host>>

\* A turn, or its sub-agent, has its effect.
HostActs ==
    /\ Alive
    /\ \E m \in Run \ effect : m \in {turn, helper} /\ effect' = effect \cup {m}
    /\ UNCHANGED <<driver, host, queue, begun, turn, interrupted, finished, agents>>

\* A turn ends, whichever way, and the client is told.
HostTurnEnds ==
    /\ Alive /\ turn # NoTurn
    /\ turn' = NoTurn
    /\ finished' = finished \cup {turn}
    /\ Says(TurnCompleted)
    /\ UNCHANGED <<child, request, loaded, driver, queue, begun, interrupted, effect, agents>>

\* A turn spawns a sub-agent, whose thread the client is subscribed to as well.
HostSpawnsAgent ==
    /\ Alive /\ turn \in Run \ helped /\ helper = NoTurn
    /\ helper' = turn
    /\ UNCHANGED <<driver, host, queue, begun, turn, interrupted, effect, finished, helped>>

\* The sub-agent's turn ends, before or after the turn that spawned it.
HostAgentEnds ==
    /\ Alive /\ helper # NoTurn
    /\ helper' = NoTurn
    /\ helped' = helped \cup {helper}
    /\ Says(TurnCompleted)
    /\ UNCHANGED <<child, request, loaded, driver, queue, begun, turn, interrupted, effect, finished>>

\* Notifications without a meaning here, and requests of the host's own.
HostChatters ==
    /\ Alive
    /\ Cardinality({k \in DOMAIN pipe : pipe[k] = Other}) < MaxChatter
    /\ Says(Other)
    /\ UNCHANGED <<child, request, loaded, driver, thread>>

HostExits ==
    /\ Alive
    /\ child' = "exited"
    /\ LoseTurn
    /\ UNCHANGED <<request, loaded, pipe, driver>>
-----------------------------------------------------------------------------
Driver ==
    \/ Send \/ SkipMessage \/ Proceed \/ Refused \/ NoReply \/ LoopDrains \/ Stop
    \/ \E res \in Result : LoopEnds(res)

Host ==
    \/ \E what \in {"ok", "error", "busy", "empty"} : Answer(what)
    \/ HostAdd \/ HostAdded \/ HostStart \/ HostDispatch \/ HostActs \/ HostTurnEnds
    \/ HostSpawnsAgent \/ HostAgentEnds \/ HostChatters \/ HostExits

Next ==
    \/ \E m \in {"New", "Resume"}, c \in {"Verify", "TurnCompleted"}, ch \in {"alive", "none"} :
          Spawn(m, c, ch)
    \/ Driver \/ SendBlocks \/ SendUnblocks \/ WaitFails \/ Cancel \/ Deadline
    \/ Host

\* The driver's thread runs and clocks go on; each round of the loop looks at its
\* head first, and a quiet window ends, since turns are finitely many.  Nothing
\* is assumed of the host.
HostFairness ==
    /\ WF_vars(Driver)
    /\ WF_vars(Deadline)
    /\ WF_vars(\E res \in Result : LoopEnds(res))

Spec == Init /\ [][Next]_vars /\ HostFairness
-----------------------------------------------------------------------------
(* Properties *)

\* Every variable has its type.
TypeOK ==
    /\ run \in 0..MaxRuns /\ mode \in {"New", "Resume"}
    /\ completion \in {"Verify", "TurnCompleted"}
    /\ at \in {"send", "blocked", "reply", "loop", "stop", "done"} /\ step \in 1..4
    /\ expired \in BOOLEAN /\ cancel \in BOOLEAN /\ saw \in BOOLEAN
    /\ trace \subseteq {"already", "missed", "wait"} /\ result \in Result
    /\ child \in {"none", "alive", "exited", "reaped"}
    /\ request \in 0..Added /\ loaded \in BOOLEAN
    /\ queue \in Seq(Run) /\ IsInjective(queue)
    /\ begun \subseteq Run /\ effect \subseteq Run /\ finished \subseteq Run /\ helped \subseteq Run
    /\ turn \in Run \cup {NoTurn} /\ helper \in Run \cup {NoTurn} /\ interrupted \in BOOLEAN

\* "no orphaned app-server": whichever way a run ends, its host has been waited
\* for, unless the operating system refused to tell how the host is doing.
NoOrphan == at = "done" /\ "wait" \notin trace => child \in {"none", "reaped"}

\* A run that made a thread and returns without its thread_id has submitted
\* nothing to it: no work exists that the caller has no name for.
NothingUnnamed ==
    at = "done" /\ mode = "New" /\ result = "err" => queue = <<>> /\ begun = {}

\* A run that is over leaves nothing behind that nobody looks after: neither a
\* host process nor a thread with work in it (stop, fail_after_thread_start).
NothingLeftBehind == TypeOK /\ NoOrphan /\ NothingUnnamed

\* A run that made its thread succeeds only on work done for its own message:
\* the effect is there, or the turn of the message or of a sub-agent that it
\* spawned has ended, although any turn/completed of any thread is taken for it.
SuccessIsOwnWork ==
    result = "ok" /\ mode = "New" =>
        run \in (IF completion = "Verify" THEN effect ELSE finished \cup helped)

\* A run that waits for turn/completed succeeds only when its own turn has ended.
\* The end of a sub-agent's turn refutes it: classify_event does not look at the
\* thread of a turn/completed.
SuccessIsOwnTurn ==
    result = "ok" /\ mode = "New" /\ completion = "TurnCompleted" => run \in finished

\* queue/start answers that the queue is empty or a turn is active: the comment
\* at session_host.rs:263 takes both to mean that the run's own turn is starting.
\* A message that an earlier run left in the queue refutes it.
AlreadyStartedIsOwnTurn ==
    [][Alive /\ "already" \in trace' \ trace => run \notin Range(queue)]_vars

\* A cancelled run ends, even if its host is silent, dies, or hangs in teardown:
\* every wait of the handshake, of the loop and of the teardown is bounded.  Two
\* hosts can hold it for ever: one that lives and does not read its stdin, and
\* one that never stops talking while the driver waits for a reply, since
\* recv_timeout hands out what is there also after the deadline.
CancelEndsRun ==
    \/ cancel ~> at = "done"
    \/ <>[](at = "blocked")
    \/ []<><<at = "reply" /\ HostChatters>>_vars

\* The end of the awaited turn ends the run, unless turn/completed came while
\* the driver still waited for a reply, which drops it.
TurnEndEndsRun ==
    (at = "loop" /\ completion = "TurnCompleted" /\ run \in finished) ~>
        (at = "done" \/ "missed" \in trace)

\* Over all its hosts the thread's queue keeps the contract of ThreadQueue.
Contract == INSTANCE QueueContract WITH
    Item <- Run, waiting <- Range(queue), withdrawn <- {}, running <- turn

KeepsContract == Contract!Spec
=============================================================================
