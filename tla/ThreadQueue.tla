----------------------------- MODULE ThreadQueue -----------------------------
(***************************************************************************)
(* The durable queue of user messages of one thread (ext/queue) and its    *)
(* idle dispatch.  The rows are in SQLite; the tasks of one app-server     *)
(* (requests, the end of a turn, the watcher) share them under the         *)
(* thread's dispatch guard, an in-memory lock.  A request that edits the   *)
(* queue does so in one critical section and is one step; a dispatch holds *)
(* the guard over three: it reads a row, asks the core to start a turn,    *)
(* and deletes the row.                                                    *)
(*                                                                         *)
(* The app-server may die at any step and be resumed: the rows and the     *)
(* interruption (in the rollout) survive, the guard and the turn do not.   *)
(***************************************************************************)
EXTENDS Naturals, Sequences, SequencesExt

CONSTANTS
    Item,              \* messages, named by their submission id
    Invalid,           \* rows whose payload cannot be read back
    Task,              \* the tasks of the app-server that may run at once
    NoTask, NoRow, NoTurn, LiveTurn,
    MAX_QUEUE_ITEMS,   \* rows per thread
    MaxEdits,          \* bound: edits of a message
    MaxFaults          \* bound: failed starts, failed deletions and crashes

ASSUME QueueAssumption ==
    /\ Invalid \subseteq Item
    /\ NoTask \notin Task /\ NoRow \notin [item : Item, payload : Nat, asked : BOOLEAN]
    /\ NoTurn \notin Item /\ LiveTurn \notin Item /\ NoTurn # LiveTurn
    /\ MAX_QUEUE_ITEMS \in Nat \ {0} /\ MaxEdits \in Nat /\ MaxFaults \in Nat

VARIABLES
    queue,        \* the rows, by queue_order
    payload,      \* the version of each message that its row holds
    interrupted,  \* the last turn was interrupted: the queue is paused
    up,           \* an app-server has the thread loaded
    turn,         \* active_turn
    guard,        \* the task that holds the dispatch guard
    at,           \* where each task is
    held,         \* the row a dispatching task has read, NoRow elsewhere
    dirty,        \* a commit the watcher has not looked at
    begun,        \* history: messages that were started and taken out
    withdrawn,    \* history: messages that were deleted or discarded
    faults        \* faults so far

vars == <<queue, payload, interrupted, up, turn, guard, at, held, dirty,
          begun, withdrawn, faults>>

rows    == <<queue, payload>>
history == <<begun, withdrawn>>

Queued == Range(queue)

\* The rows once the one of i, if there is one, has been deleted.
Without(i) ==
    IF i \in Queued
    THEN RemoveAt(queue, CHOOSE k \in DOMAIN queue : queue[k] = i)
    ELSE queue

\* A row as a dispatch reads it, and whether it was asked for by a request.
Row == [item : Item, payload : 0..MaxEdits, asked : BOOLEAN]

RowOf(i, asked) == [item |-> i, payload |-> payload[i], asked |-> asked]

Goto(t, l) == at' = [at EXCEPT ![t] = l]
Fault      == faults < MaxFaults /\ faults' = faults + 1

\* A task that is not busy may enter a critical section.
Enters(t)  == up /\ at[t] = "free" /\ guard = NoTask

\* The guard is dropped and the task is over.
Leave(t)   ==
    /\ guard' = NoTask
    /\ held' = [held EXCEPT ![t] = NoRow]
    /\ Goto(t, "free")

Init ==
    /\ queue = <<>>
    /\ payload = [i \in Item |-> 0]
    /\ interrupted = FALSE
    /\ up = TRUE
    /\ turn = NoTurn
    /\ guard = NoTask
    /\ at = [t \in Task |-> "free"]
    /\ held = [t \in Task |-> NoRow]
    /\ dirty = TRUE
    /\ begun = {} /\ withdrawn = {}
    /\ faults = 0
-----------------------------------------------------------------------------
(* Requests *)

\* Mutant of Insert: the limit is compared after the row has been counted in.
InsertOneMore(i) ==
    /\ i \notin Queued \cup begun \cup withdrawn /\ Len(queue) <= MAX_QUEUE_ITEMS
    /\ queue' = Append(queue, i) /\ dirty' = TRUE
    /\ UNCHANGED <<payload, interrupted, up, turn, held, history, faults>>

\* The insertion and the comparison with the limit are one SQL statement.
Insert(i) ==
    /\ i \notin Queued \cup begun \cup withdrawn
    /\ Len(queue) < MAX_QUEUE_ITEMS
    /\ queue' = Append(queue, i)
    /\ dirty' = TRUE
    /\ UNCHANGED <<payload, interrupted, up, turn, held, history, faults>>

\* enqueue: the row is committed under the guard, the thread is woken after it.
Enqueue(t, i) ==
    /\ Enters(t)
    /\ i \notin Invalid
    /\ Insert(i)
    /\ Goto(t, "wake")
    /\ UNCHANGED guard

\* Another process adds a row: it cannot wake this one.
ExternalEnqueue(i) == Insert(i) /\ UNCHANGED <<guard, at>>

\* Mutant of Update: the row is changed without the dispatch guard.
UpdateUnguarded(t, i) ==
    /\ up /\ at[t] = "free" /\ i \in Queued /\ payload[i] < MaxEdits /\ Queued \cap Invalid = {}
    /\ payload' = [payload EXCEPT ![i] = @ + 1] /\ dirty' = TRUE
    /\ UNCHANGED <<queue, interrupted, up, turn, guard, at, held, history, faults>>

\* update looks for the row in the listing, which one unreadable row fails.
Update(t, i) ==
    /\ Enters(t)
    /\ i \in Queued /\ payload[i] < MaxEdits
    /\ Queued \cap Invalid = {}
    /\ payload' = [payload EXCEPT ![i] = @ + 1]
    /\ dirty' = TRUE
    /\ UNCHANGED <<queue, interrupted, up, turn, guard, at, held, history, faults>>

Delete(t, i) ==
    /\ Enters(t)
    /\ i \in Queued
    /\ queue' = Without(i)
    /\ withdrawn' = withdrawn \cup {i}
    /\ dirty' = TRUE
    /\ UNCHANGED <<payload, interrupted, up, turn, guard, at, held, begun, faults>>

\* The new order names every row exactly once, or the transaction is rolled back.
Reorder(t, order) ==
    /\ Enters(t)
    /\ Len(order) = Len(queue) /\ Range(order) = Queued
    /\ queue' = order
    /\ dirty' = TRUE
    /\ UNCHANGED <<payload, interrupted, up, turn, guard, at, held, history, faults>>

\* Mutant of StartRequest: the row is read before the guard is taken.
StartUnguarded(t, i) ==
    /\ up /\ at[t] = "free" /\ i \in Queued /\ Queued \cap Invalid = {}
    /\ guard' = t /\ held' = [held EXCEPT ![t] = RowOf(i, TRUE)] /\ Goto(t, "read")
    /\ UNCHANGED <<rows, interrupted, up, turn, dirty, history, faults>>

\* start: the head or a selected row of the listing.
StartRequest(t, i) ==
    /\ Enters(t)
    /\ i \in Queued
    /\ Queued \cap Invalid = {}
    /\ guard' = t
    /\ held' = [held EXCEPT ![t] = RowOf(i, TRUE)]
    /\ Goto(t, "read")
    /\ UNCHANGED <<rows, interrupted, up, turn, dirty, history, faults>>
-----------------------------------------------------------------------------
(* Waking and dispatching *)

\* wake_if_loaded and emit_thread_idle_lifecycle_if_idle: an active turn or an
\* interruption ends it; else on_thread_idle waits for the guard.
Wake(t) ==
    /\ at[t] = "wake"
    /\ Goto(t, IF turn = NoTurn /\ ~interrupted THEN "idle" ELSE "free")
    /\ UNCHANGED <<rows, interrupted, up, turn, guard, held, dirty, history, faults>>

\* dispatch_if_idle reads the head.
DispatchHead(t) ==
    /\ at[t] = "idle" /\ guard = NoTask
    /\ IF queue = <<>>
       THEN Leave(t)
       ELSE /\ guard' = t
            /\ held' = [held EXCEPT ![t] = RowOf(Head(queue), FALSE)]
            /\ Goto(t, "read")
    /\ UNCHANGED <<rows, interrupted, up, turn, dirty, history, faults>>

\* An unreadable head is deleted and the next row read under the same guard.
DiscardInvalid(t) ==
    /\ at[t] = "read" /\ held[t].item \in Invalid
    /\ queue' = Without(held[t].item)
    /\ withdrawn' = withdrawn \cup {held[t].item}
    /\ dirty' = TRUE
    /\ IF queue' = <<>>
       THEN Leave(t)
       ELSE /\ held' = [held EXCEPT ![t] = RowOf(Head(queue'), FALSE)]
            /\ UNCHANGED <<guard, at>>
    /\ UNCHANGED <<payload, interrupted, up, turn, begun, faults>>

\* start_turn_if_idle answers Started.
StartAccepted(t) ==
    /\ at[t] = "read" /\ held[t].item \notin Invalid
    /\ turn = NoTurn
    /\ turn' = held[t].item
    /\ interrupted' = FALSE
    /\ begun' = begun \cup {held[t].item}
    /\ Goto(t, "started")
    /\ UNCHANGED <<rows, up, guard, held, dirty, withdrawn, faults>>

\* It answers NotSubmitted: the row stays.  (It also does when another agent's
\* message is about to start a turn of its own: that turn is a StartLive here,
\* which comes before the answer instead of after it.)
StartDeclined(t) ==
    /\ at[t] = "read" /\ held[t].item \notin Invalid
    /\ turn # NoTurn
    /\ Leave(t)
    /\ UNCHANGED <<rows, interrupted, up, turn, dirty, history, faults>>

\* It fails, or a row cannot be discarded: it stays until the thread is woken
\* again, by a request, the end of a turn or the watcher's interval.
StartFails(t) ==
    /\ at[t] = "read"
    /\ Fault
    /\ Leave(t)
    /\ UNCHANGED <<rows, interrupted, up, turn, dirty, history>>

\* delete_locked after Started.
RemoveStarted(t) ==
    /\ at[t] = "started"
    /\ queue' = Without(held[t].item)
    /\ dirty' = TRUE
    /\ Leave(t)
    /\ UNCHANGED <<payload, interrupted, up, turn, history, faults>>

\* The deletion fails: the turn runs and its row stays.
RemoveFails(t) ==
    /\ at[t] = "started"
    /\ Fault
    /\ begun' = begun \ {held[t].item}
    /\ Leave(t)
    /\ UNCHANGED <<rows, interrupted, up, turn, dirty, withdrawn>>

\* watch_external_messages: as long as the thread is idle and has rows it is
\* woken again and again; a running or an interrupted thread ends the retries.
Watch(t) ==
    /\ up /\ dirty /\ at[t] = "free"
    /\ IF turn = NoTurn /\ ~interrupted /\ queue # <<>>
       THEN Goto(t, "wake") /\ UNCHANGED dirty
       ELSE dirty' = FALSE /\ UNCHANGED at
    /\ UNCHANGED <<rows, interrupted, up, turn, guard, held, history, faults>>
-----------------------------------------------------------------------------
(* Turns, crashes and resumption *)

\* A turn that the user or the message of another agent starts: it does not touch
\* the queue.
StartLive ==
    /\ up /\ turn = NoTurn
    /\ turn' = LiveTurn
    /\ interrupted' = FALSE
    /\ UNCHANGED <<rows, up, guard, at, held, dirty, history, faults>>

\* Mutant of TurnEnds: the end of a failed turn does not wake the thread.
TurnEndsSilently(t, how) ==
    /\ up /\ turn # NoTurn /\ at[t] = "free" /\ turn' = NoTurn
    /\ interrupted' = (how = "interrupted")
    /\ Goto(t, IF how = "failed" THEN "free" ELSE "wake")
    /\ UNCHANGED <<rows, up, guard, held, dirty, history, faults>>

\* The active turn is cleared; then the thread is woken.
TurnEnds(t, how) ==
    /\ up /\ turn # NoTurn /\ at[t] = "free"
    /\ turn' = NoTurn
    /\ interrupted' = (how = "interrupted")
    /\ Goto(t, "wake")
    /\ UNCHANGED <<rows, up, guard, held, dirty, history, faults>>

Crash ==
    /\ up
    /\ Fault
    /\ up' = FALSE
    /\ turn' = NoTurn
    /\ guard' = NoTask
    /\ at' = [t \in Task |-> "free"]
    /\ held' = [t \in Task |-> NoRow]
    /\ begun' = begun \ {held[t].item : t \in {u \in Task : at[u] = "started"}}
    /\ UNCHANGED <<rows, interrupted, dirty, withdrawn>>

\* thread/resume: the idle thread is announced once it has been answered, and
\* the watcher takes the thread for a newly loaded one.
Resume(t) ==
    /\ ~up
    /\ up' = TRUE
    /\ dirty' = TRUE
    /\ Goto(t, "wake")
    /\ UNCHANGED <<rows, interrupted, turn, guard, held, history, faults>>
-----------------------------------------------------------------------------
Step(t) ==
    \/ Wake(t) \/ DispatchHead(t) \/ DiscardInvalid(t)
    \/ StartAccepted(t) \/ StartDeclined(t) \/ RemoveStarted(t)

Next ==
    \/ \E t \in Task, i \in Item :
          Enqueue(t, i) \/ Update(t, i) \/ Delete(t, i) \/ StartRequest(t, i)
    \/ \E t \in Task : \E order \in [1..Len(queue) -> Queued] : Reorder(t, order)
    \/ \E i \in Item : ExternalEnqueue(i)
    \/ \E t \in Task : Step(t) \/ StartFails(t) \/ RemoveFails(t) \/ Watch(t) \/ Resume(t)
    \/ \E t \in Task, how \in {"completed", "failed", "interrupted"} : TurnEnds(t, how)
    \/ StartLive
    \/ Crash

\* A task that can go on does, and gets the guard if it waits for it (tokio's
\* mutex is first come, first served); the watcher's interval ticks; turns end.
Fairness ==
    /\ \A t \in Task : SF_vars(Step(t))
    /\ SF_vars(\E t \in Task : Watch(t))
    /\ SF_vars(\E t \in Task, how \in {"completed", "failed"} : TurnEnds(t, how))

Spec == Init /\ [][Next]_vars /\ Fairness
-----------------------------------------------------------------------------
(* Properties *)

\* Every variable has its type; no row is listed twice, and however many tasks
\* and processes insert, there are never more rows than the limit.
TypeOK ==
    /\ queue \in Seq(Item) /\ IsInjective(queue) /\ Len(queue) <= MAX_QUEUE_ITEMS
    /\ payload \in [Item -> 0..MaxEdits]
    /\ interrupted \in BOOLEAN /\ up \in BOOLEAN /\ dirty \in BOOLEAN
    /\ turn \in Item \cup {NoTurn, LiveTurn}
    /\ guard \in Task \cup {NoTask}
    /\ at \in [Task -> {"free", "wake", "idle", "read", "started"}]
    /\ held \in [Task -> Row \cup {NoRow}]
    /\ begun \subseteq Item /\ withdrawn \subseteq Item
    /\ faults \in 0..MaxFaults

\* The text of a queued message is read, then the core is asked to start it:
\* whatever requests of this process came in between, what starts is a row that is still
\* queued, with its last acknowledged edit, and an automatic dispatch starts
\* the first readable row (service.rs start, dispatch_if_idle).
StartsWhatIsQueued ==
    [][\A t \in Task : at[t] = "read" /\ at'[t] = "started" =>
          LET row == held[t] IN
          /\ row.item \in Queued
          /\ row.payload = payload[row.item]
          /\ ~row.asked => row.item = Head(queue)]_vars

\* The rows with the one a dispatch has started taken out are a queue that
\* keeps the contract: no message is lost, starts while another runs, or starts
\* again unless its deletion failed or its host died before it.
Contract == INSTANCE QueueContract WITH
    waiting <- Queued \ {held[t].item : t \in {u \in Task : at[u] = "started"}},
    running <- turn

KeepsContract == Contract!Spec

\* A message in the queue of a loaded thread is eventually taken out, unless the
\* user or another agent starts a turn, an interruption pauses the queue, or the core
\* fails to start the message or to forget it: no wake-up is lost between a
\* commit, the end of a turn and the watcher (service.rs, lifecycle.rs).
QueuedMessageLeaves ==
    \A i \in Item : i \in Queued ~>
        (i \notin Queued \/ turn = LiveTurn \/ interrupted \/ ~up \/ faults > 0)
=============================================================================
