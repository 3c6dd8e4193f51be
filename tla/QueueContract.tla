---------------------------- MODULE QueueContract ----------------------------
(***************************************************************************)
(* What a thread's message queue promises to those who put messages in it  *)
(* (ext/queue): a message waits until it is withdrawn or a turn of its own *)
(* begins, one turn runs at a time, and a message that has begun begins    *)
(* again only if the host failed to take it out of the queue.              *)
(***************************************************************************)
CONSTANTS
    Item,      \* the messages
    NoTurn,    \* no turn is active
    LiveTurn   \* a turn that did not come from the queue

VARIABLES
    waiting,    \* the messages that wait
    begun,      \* those whose turn has begun
    withdrawn,  \* those that were deleted or discarded
    running     \* what the active turn is about

vars == <<waiting, begun, withdrawn, running>>

Init ==
    /\ waiting = {}
    /\ begun = {}
    /\ withdrawn = {}
    /\ running = NoTurn

Submit(i) ==
    /\ i \notin waiting \cup begun \cup withdrawn
    /\ waiting' = waiting \cup {i}
    /\ UNCHANGED <<begun, withdrawn, running>>

Withdraw(i) ==
    /\ i \in waiting
    /\ waiting' = waiting \ {i}
    /\ withdrawn' = withdrawn \cup {i}
    /\ UNCHANGED <<begun, running>>

Begin(i) ==
    /\ i \in waiting
    /\ running = NoTurn
    /\ waiting' = waiting \ {i}
    /\ begun' = begun \cup {i}
    /\ running' = i
    /\ UNCHANGED withdrawn

BeginLive ==
    /\ running = NoTurn
    /\ running' = LiveTurn
    /\ UNCHANGED <<waiting, begun, withdrawn>>

\* The turn is over, or its host is.
End ==
    /\ running' = NoTurn
    /\ UNCHANGED <<waiting, begun, withdrawn>>

\* The host could not take out of the queue a message that had begun; when it
\* died of it, its turn did too.
Redo(i) ==
    /\ i \in begun
    /\ begun' = begun \ {i}
    /\ waiting' = waiting \cup {i}
    /\ running' \in {running, NoTurn}
    /\ UNCHANGED withdrawn

Next ==
    \/ \E i \in Item : Submit(i) \/ Withdraw(i) \/ Begin(i) \/ Redo(i)
    \/ BeginLive
    \/ End

Spec == Init /\ [][Next]_vars
=============================================================================
