---------------------------- MODULE SessionProofs ----------------------------
(***************************************************************************)
(* The two ends of a delegated session: the driver that runs it on a host  *)
(* (module SessionHost) and the server that keeps it (SessionStore, the    *)
(* last part of this module).                                              *)
(*                                                                         *)
(* What the driver guarantees for any number of runs on a thread, however  *)
(* its hosts behave: a run that is over leaves nothing behind, its success *)
(* is work done for its own message, and over all its hosts the thread     *)
(* keeps the contract of its queue.                                        *)
(*                                                                         *)
(* The argument is about what a thread has been given: a run submits its   *)
(* message once, after it knows the thread (HandshakeInv), so before that  *)
(* a new thread has nothing in it, and all that a new thread ever runs is  *)
(* the message of the run that made it (ThreadInv, NewInv).                *)
(***************************************************************************)
EXTENDS SessionHost, SessionStore, SequenceTheorems, TLAPS

Message ==
    [type : {"reply", "turn/completed", "other"}, id : 0..Added,
     what : {"ok", "error", "busy", "empty"}]

\* The messages that the thread has been given.
Submitted == Range(queue) \cup begun

\* A message waits or has begun, and comes from a run so far.
ThreadInv ==
    /\ \A r \in begun : r \notin Range(queue)
    /\ turn # NoTurn => turn \in begun
    /\ helper # NoTurn => helper \in Submitted
    /\ \A r \in Submitted : r <= run

\* A run that has not sent its queue/add has given the thread nothing.
HandshakeInv ==
    /\ run = 0 => at = "done" /\ child = "none"
    /\ at \in {"send", "blocked", "reply", "loop"} => result = "none"
    /\ request \in {3, Added} => step >= 3 /\ (step = 3 => at \notin {"send", "blocked"})
    /\ step < 3 \/ (step = 3 /\ at \in {"send", "blocked"}) \/ request = 3 => run \notin Submitted

\* A turn/completed has been seen or can be.
Ended == saw \/ \E k \in 1..Len(pipe) : pipe[k].type = "turn/completed"

\* The run that makes the thread is the first one.
NewInv ==
    mode = "New" =>
        /\ run <= 1
        /\ result = "err" => step <= 2
        /\ Ended => run \in finished \cup helped

HostInv ==
    /\ TypeOK /\ pipe \in Seq(Message)
    /\ ThreadInv /\ HandshakeInv /\ NewInv
    /\ NoOrphan /\ SuccessIsOwnWork
-----------------------------------------------------------------------------
(* The queue *)

\* A queue of messages, none of them twice.
Listing(q) == q \in Seq(Run) /\ IsInjective(q)

LEMMA Appended ==
    ASSUME NEW q, Listing(q), NEW i \in Run, i \notin Range(q)
    PROVE  Listing(Append(q, i)) /\ Range(Append(q, i)) = Range(q) \cup {i}
  <1> DEFINE n == Append(q, i)
  <1>1. q \in Seq(Run) /\ Len(q) \in Nat /\ DOMAIN q = 1..Len(q)
    BY DEF Listing
  <1>2. /\ n \in Seq(Run) /\ DOMAIN n = 1..(Len(q) + 1)
        /\ \A j \in DOMAIN q : n[j] = q[j]
        /\ n[Len(q) + 1] = i
    BY <1>1, AppendProperties
  <1> HIDE DEF n
  <1>3. \A j \in DOMAIN n : j \in DOMAIN q \/ j = Len(q) + 1
    BY <1>1, <1>2
  <1>4. DOMAIN q \subseteq DOMAIN n /\ Len(q) + 1 \in DOMAIN n
    BY <1>1, <1>2
  <1>5. IsInjective(n)
    BY <1>2, <1>3 DEF Listing, IsInjective, Range
  <1>6. Range(n) = Range(q) \cup {i}
    BY <1>2, <1>3, <1>4 DEF Range
  <1> QED
    BY <1>2, <1>5, <1>6 DEF Listing, n

LEMMA Shortened ==
    ASSUME NEW q, Listing(q), q # <<>>
    PROVE  /\ Head(q) \in Range(q) /\ Head(q) \in Run
           /\ Listing(Tail(q)) /\ Range(Tail(q)) = Range(q) \ {Head(q)}
  <1> DEFINE t == Tail(q)
  <1>1. q \in Seq(Run) /\ Len(q) \in Nat /\ Len(q) > 0 /\ DOMAIN q = 1..Len(q)
    BY EmptySeq DEF Listing
  <1>2. /\ t \in Seq(Run) /\ DOMAIN t = 1..(Len(q) - 1)
        /\ \A j \in DOMAIN t : t[j] = q[j + 1]
    BY <1>1, HeadTailProperties
  <1>3. Head(q) = q[1] /\ 1 \in DOMAIN q /\ q[1] \in Run
    BY <1>1
  <1> HIDE DEF t
  <1>4. \A j \in DOMAIN t : j + 1 \in DOMAIN q /\ j + 1 # 1
    BY <1>1, <1>2
  <1>5. \A j \in DOMAIN q : j # 1 => j - 1 \in DOMAIN t /\ (j - 1) + 1 = j
    BY <1>1, <1>2
  <1>6. \A x, y \in DOMAIN q : q[x] = q[y] => x = y
    BY DEF Listing, IsInjective
  <1>7. IsInjective(t)
    <2> SUFFICES ASSUME NEW x \in DOMAIN t, NEW y \in DOMAIN t, t[x] = t[y] PROVE x = y
      BY DEF IsInjective
    <2>1. x + 1 = y + 1
      BY <1>2, <1>4, <1>6
    <2> QED
      BY <1>1, <1>2, <2>1
  <1>8. Range(t) \subseteq Range(q) \ {q[1]}
    BY <1>2, <1>3, <1>4, <1>6 DEF Range
  <1>9. Range(q) \ {q[1]} \subseteq Range(t)
    BY <1>2, <1>5 DEF Range
  <1>10. q[1] \in Range(q)
    BY <1>3 DEF Range
  <1> QED
    BY <1>2, <1>3, <1>7, <1>8, <1>9, <1>10 DEF Listing, t

LEMMA Prepended ==
    ASSUME NEW q, Listing(q), NEW i \in Run, i \notin Range(q)
    PROVE  Listing(<<i>> \o q) /\ Range(<<i>> \o q) = Range(q) \cup {i}
  <1> DEFINE n == <<i>> \o q
  <1>1. q \in Seq(Run) /\ Len(q) \in Nat /\ DOMAIN q = 1..Len(q)
    BY DEF Listing
  <1>2. /\ n \in Seq(Run) /\ DOMAIN n = 1..(Len(q) + 1)
        /\ n[1] = i /\ \A j \in DOMAIN q : n[j + 1] = q[j]
    <2>1. <<i>> \in Seq(Run) /\ Len(<<i>>) = 1 /\ <<i>>[1] = i
      OBVIOUS
    <2>2. /\ n \in Seq(Run) /\ Len(n) = 1 + Len(q)
          /\ \A j \in 1..(1 + Len(q)) : n[j] = IF j <= 1 THEN <<i>>[j] ELSE q[j - 1]
      BY <1>1, <2>1, ConcatProperties
    <2> HIDE DEF n
    <2>3. DOMAIN n = 1..(Len(q) + 1)
      BY <1>1, <2>2
    <2>4. ASSUME NEW j \in DOMAIN q PROVE n[j + 1] = q[j]
      <3>1. j + 1 \in 1..(1 + Len(q)) /\ ~(j + 1 <= 1) /\ (j + 1) - 1 = j
        BY <1>1
      <3> QED
        BY <2>2, <3>1
    <2>5. n[1] = i
      BY <1>1, <2>1, <2>2
    <2> QED
      BY <2>2, <2>3, <2>4, <2>5
  <1> HIDE DEF n
  <1>3. \A j \in DOMAIN n : j = 1 \/ (j - 1 \in DOMAIN q /\ (j - 1) + 1 = j)
    BY <1>1, <1>2
  <1>4. 1 \in DOMAIN n /\ \A j \in DOMAIN q : j + 1 \in DOMAIN n
    BY <1>1, <1>2
  <1>5. \A j \in DOMAIN n : j = 1 \/ (j - 1 \in DOMAIN q /\ n[j] = q[j - 1])
    BY <1>2, <1>3
  <1>6. \A x, y \in DOMAIN q : q[x] = q[y] => x = y
    BY DEF Listing, IsInjective
  <1>7. IsInjective(n)
    <2> SUFFICES ASSUME NEW x \in DOMAIN n, NEW y \in DOMAIN n, n[x] = n[y] PROVE x = y
      BY DEF IsInjective
    <2>1. CASE x = 1 \/ y = 1
      BY <1>2, <1>5, <2>1 DEF Range
    <2>2. CASE x # 1 /\ y # 1
      <3>1. x - 1 = y - 1
        BY <1>5, <1>6, <2>2
      <3> QED
        BY <1>1, <1>2, <3>1
    <2> QED
      BY <2>1, <2>2
  <1>8. Range(n) = Range(q) \cup {i}
    BY <1>2, <1>4, <1>5 DEF Range
  <1> QED
    BY <1>2, <1>7, <1>8 DEF Listing, n
-----------------------------------------------------------------------------
(* The thread *)

\* What a step may do to the thread: nothing, give it a message, begin one, end a
\* turn, or put the message of the turn that died back.
Moves ==
    \/ UNCHANGED <<queue, begun, turn>>
    \/ HostAdd
    \/ BeginHead
    \/ turn' = NoTurn /\ UNCHANGED <<queue, begun>>
    \/ /\ turn \in begun /\ turn' = NoTurn
       /\ queue' = <<turn>> \o queue /\ begun' = begun \ {turn}

LEMMA StepMoves ==
    ASSUME [Next]_vars
    PROVE  Moves
  <1> USE DEF Moves, thread
  <1>1. CASE \E m \in {"New", "Resume"}, c \in {"Verify", "TurnCompleted"}, ch \in {"alive", "none"} :
                Spawn(m, c, ch)
    BY <1>1 DEF Spawn
  <1>2. CASE Driver
    BY <1>2 DEF Driver, Send, Written, SkipMessage, Proceed, Refused, NoReply, LoopEnds, LoopDrains, Stop,
                LoseTurn
  <1>3. CASE SendBlocks \/ SendUnblocks \/ WaitFails \/ Cancel \/ Deadline
    BY <1>3 DEF SendBlocks, SendUnblocks, Written, WaitFails, Cancel, Deadline
  <1>4. CASE Host
    BY <1>4 DEF Host, Answer, HostAdded, HostStart, HostDispatch, HostActs, HostTurnEnds,
                HostSpawnsAgent, HostAgentEnds, HostChatters, HostExits, LoseTurn
  <1>5. CASE UNCHANGED vars
    BY <1>5 DEF vars
  <1> QED
    BY <1>1, <1>2, <1>3, <1>4, <1>5 DEF Next

\* What queue/add gives to the thread is new to it.
LEMMA AddedIsNew ==
    ASSUME TypeOK, HandshakeInv, HostAdd
    PROVE  run \in Run /\ run \notin Range(queue) /\ run \notin begun
  <1>1. run \in Nat /\ run <= MaxRuns /\ MaxRuns \in Nat
    BY RunAssumption DEF TypeOK
  <1>2. run # 0
    BY DEF HandshakeInv, HostAdd, Alive
  <1>3. run \notin Submitted
    BY DEF HandshakeInv, HostAdd
  <1> QED
    BY <1>1, <1>2, <1>3 DEF Run, Submitted

\* The queue and the begun messages stay apart; a message comes from queue/add.
LEMMA ThreadMoves ==
    ASSUME TypeOK, ThreadInv, HandshakeInv, Moves
    PROVE  /\ Listing(queue') /\ begun' \subseteq Run /\ turn' \in Run \cup {NoTurn}
           /\ \A r \in begun' : r \notin Range(queue')
           /\ turn' # NoTurn => turn' \in begun'
           /\ Submitted' = Submitted \/ (HostAdd /\ Submitted' = Submitted \cup {run})
  <1>1. Listing(queue) /\ begun \subseteq Run /\ turn \in Run \cup {NoTurn}
    BY DEF TypeOK, Listing
  <1>2. /\ \A r \in begun : r \notin Range(queue)
        /\ turn # NoTurn => turn \in begun
    BY DEF ThreadInv
  <1>3. CASE HostAdd
    <2>1. queue' = Append(queue, run) /\ UNCHANGED <<begun, turn>>
      BY <1>3 DEF HostAdd
    <2>2. run \notin Range(queue) /\ run \notin begun /\ run \in Run
      BY <1>3, AddedIsNew
    <2>4. Listing(queue') /\ Range(queue') = Range(queue) \cup {run}
      BY <1>1, <2>1, <2>2, Appended
    <2> QED
      BY <1>1, <1>2, <1>3, <2>1, <2>2, <2>4 DEF Submitted
  <1>4. CASE BeginHead
    <2>1. /\ queue # <<>> /\ turn' = Head(queue) /\ begun' = begun \cup {Head(queue)}
          /\ queue' = Tail(queue)
      BY <1>4 DEF BeginHead
    <2>2. /\ Head(queue) \in Range(queue) /\ Head(queue) \in Run
          /\ Listing(queue') /\ Range(queue') = Range(queue) \ {Head(queue)}
      BY <1>1, <2>1, Shortened
    <2> QED
      BY <1>1, <1>2, <2>1, <2>2 DEF Submitted
  <1>5. CASE turn \in begun /\ turn' = NoTurn /\ queue' = <<turn>> \o queue /\ begun' = begun \ {turn}
    <2>1. Listing(queue') /\ Range(queue') = Range(queue) \cup {turn}
      BY <1>1, <1>2, <1>5, Prepended
    <2> QED
      BY <1>1, <1>2, <1>5, <2>1 DEF Submitted
  <1>6. CASE UNCHANGED <<queue, begun, turn>> \/ (turn' = NoTurn /\ UNCHANGED <<queue, begun>>)
    BY <1>1, <1>2, <1>6 DEF Submitted
  <1> QED
    BY <1>3, <1>4, <1>5, <1>6 DEF Moves
-----------------------------------------------------------------------------
(* The steps *)

\* Taking the next message from the pipe, and putting one into it.
LEMMA PipeTail ==
    ASSUME pipe \in Seq(Message), pipe # <<>>
    PROVE  /\ Tail(pipe) \in Seq(Message) /\ Head(pipe) = pipe[1] /\ 1 \in 1..Len(pipe)
           /\ Head(pipe) \in Message
           /\ \A k \in 1..Len(Tail(pipe)) : \E j \in 1..Len(pipe) : Tail(pipe)[k] = pipe[j]
  <1>1. Len(pipe) \in Nat /\ Len(pipe) > 0
    BY EmptySeq
  <1>2. /\ Tail(pipe) \in Seq(Message) /\ Len(Tail(pipe)) = Len(pipe) - 1
        /\ \A k \in 1..Len(Tail(pipe)) : Tail(pipe)[k] = pipe[k + 1]
    BY HeadTailProperties
  <1>3. \A k \in 1..Len(Tail(pipe)) : k + 1 \in 1..Len(pipe)
    BY <1>1, <1>2
  <1>4. Head(pipe) = pipe[1] /\ 1 \in 1..Len(pipe) /\ pipe[1] \in Message
    BY <1>1
  <1> QED
    BY <1>2, <1>3, <1>4

LEMMA PipeAppend ==
    ASSUME pipe \in Seq(Message), NEW m \in Message
    PROVE  /\ Append(pipe, m) \in Seq(Message)
           /\ \A k \in 1..Len(Append(pipe, m)) :
                 Append(pipe, m)[k] = m \/ \E j \in 1..Len(pipe) : Append(pipe, m)[k] = pipe[j]
  <1>1. Len(pipe) \in Nat
    OBVIOUS
  <1>2. /\ Append(pipe, m) \in Seq(Message) /\ Len(Append(pipe, m)) = Len(pipe) + 1
        /\ \A k \in 1..Len(pipe) : Append(pipe, m)[k] = pipe[k]
        /\ Append(pipe, m)[Len(pipe) + 1] = m
    BY AppendProperties
  <1>3. \A k \in 1..Len(Append(pipe, m)) : k \in 1..Len(pipe) \/ k = Len(pipe) + 1
    BY <1>1, <1>2
  <1> QED
    BY <1>2, <1>3

LEMMA Messages ==
    /\ TurnCompleted \in Message /\ Other \in Message
    /\ TurnCompleted.type = "turn/completed" /\ Other.type = "other"
    /\ \A k \in 0..Added, what \in {"ok", "error", "busy", "empty"} :
          Reply(k, what) \in Message /\ Reply(k, what).type = "reply"
  BY DEF Message, TurnCompleted, Other, Reply, Added

\* What every step does to the pipe and to the flag: a turn/completed in it was
\* there before, or a turn of the thread or of a sub-agent has just ended.
LEMMA PipeStep ==
    ASSUME TypeOK, pipe \in Seq(Message), [Next]_vars
    PROVE  /\ pipe' \in Seq(Message)
           /\ Ended' => \/ Ended
                        \/ HostTurnEnds /\ turn \in finished'
                        \/ HostAgentEnds /\ helper \in helped'
  <1> DEFINE Kept == pipe' = pipe /\ saw' = saw
             Taken == pipe # <<>> /\ pipe' = Tail(pipe) /\ saw' = saw
             Said(m) == pipe' = Append(pipe, m) /\ saw' = saw
             Goal == pipe' \in Seq(Message) /\ (Ended' => Ended)
  <1>1. Kept => Goal
    BY DEF Ended
  <1>2. Taken => Goal
    BY PipeTail DEF Ended
  <1>3. \A m \in Message : Said(m) /\ m.type # "turn/completed" => Goal
    BY PipeAppend DEF Ended
  <1>4. pipe' = <<>> /\ ~saw' => Goal
    BY DEF Ended
  <1>5. ASSUME LoopDrains PROVE Goal
    <2>1. /\ pipe # <<>> /\ pipe' = Tail(pipe)
          /\ saw' = (saw \/ Head(pipe).type = "turn/completed")
      BY <1>5 DEF LoopDrains
    <2>2. saw' => Ended
      BY <2>1, PipeTail DEF Ended
    <2> QED
      BY <2>1, <2>2, PipeTail DEF Ended
  <1>6. ASSUME NEW what \in {"ok", "error", "busy", "empty"}, Answer(what) PROVE Goal
    <2>1. request \in 0..Added /\ pipe' = Append(pipe, Reply(request, what)) /\ saw' = saw
      BY <1>6 DEF Answer, Says, driver, TypeOK
    <2> QED
      BY <2>1, <1>3, Messages
  <1>7. ASSUME HostAdded \/ HostStart PROVE Goal
    <2>1. \E k \in 0..Added : pipe' = Append(pipe, Reply(k, "ok")) /\ saw' = saw
      BY <1>7 DEF HostAdded, HostStart, Says, driver, Added
    <2> QED
      BY <2>1, <1>3, Messages
  <1>8. ASSUME HostChatters PROVE Goal
    BY <1>3, <1>8, Messages DEF HostChatters, Says, driver
  <1>9. ASSUME HostTurnEnds PROVE pipe' \in Seq(Message) /\ turn \in finished'
    BY <1>9, Messages, PipeAppend DEF HostTurnEnds, Says
  <1>14. ASSUME HostAgentEnds PROVE pipe' \in Seq(Message) /\ helper \in helped'
    BY <1>14, Messages, PipeAppend DEF HostAgentEnds, Says
  <1>10. ASSUME HostAdd \/ HostDispatch \/ HostActs \/ HostSpawnsAgent \/ HostExits PROVE Kept
    BY <1>10 DEF HostAdd, HostDispatch, HostActs, HostSpawnsAgent, HostExits, driver, host
  <1>11. ASSUME \/ Send \/ SendBlocks \/ SendUnblocks \/ NoReply \/ Stop
                \/ WaitFails \/ Cancel \/ Deadline \/ UNCHANGED vars
                \/ \E res \in Result : LoopEnds(res)
         PROVE  Kept
    BY <1>11 DEF Send, SendBlocks, SendUnblocks, Written, NoReply, Stop, WaitFails, Cancel,
                 Deadline, vars, LoopEnds, driver, host
  <1>12. ASSUME SkipMessage \/ Proceed \/ Refused PROVE Taken
    BY <1>12 DEF SkipMessage, Proceed, Refused, Replied
  <1>13. ASSUME NEW m, NEW c, NEW ch, Spawn(m, c, ch) PROVE pipe' = <<>> /\ ~saw'
    BY <1>13 DEF Spawn
  <1> HIDE DEF Kept, Taken, Said, Goal
  <1>15. CASE HostTurnEnds \/ HostAgentEnds
    BY <1>9, <1>14, <1>15
  <1>16. CASE ~HostTurnEnds /\ ~HostAgentEnds
    <2>1. Goal
      BY <1>1, <1>2, <1>4, <1>5, <1>6, <1>7, <1>8, <1>10, <1>11, <1>12, <1>13, <1>16
      DEF Next, Driver, Host
    <2> QED
      BY <2>1 DEF Goal
  <1> QED
    BY <1>15, <1>16

\* What TypeOK says of the driver and of its host.
ControlOK ==
    /\ run \in 0..MaxRuns /\ mode \in {"New", "Resume"}
    /\ completion \in {"Verify", "TurnCompleted"}
    /\ at \in {"send", "blocked", "reply", "loop", "stop", "done"} /\ step \in 1..4
    /\ expired \in BOOLEAN /\ cancel \in BOOLEAN /\ saw \in BOOLEAN
    /\ trace \subseteq {"already", "missed", "wait"} /\ result \in Result
    /\ child \in {"none", "alive", "exited", "reaped"}
    /\ request \in 0..Added /\ loaded \in BOOLEAN

LEMMA ControlStep ==
    ASSUME TypeOK, [Next]_vars
    PROVE  ControlOK'
  <1> USE RunAssumption DEF ControlOK, TypeOK, driver, host, thread, Returns, Result, Failure, Added
  <1>1. ASSUME NEW m \in {"New", "Resume"}, NEW c \in {"Verify", "TurnCompleted"},
               NEW ch \in {"alive", "none"}, Spawn(m, c, ch)
        PROVE  ControlOK'
    <2>1. run' \in 0..MaxRuns /\ at' \in {"send", "done"} /\ result' \in {"none", "err"}
      BY <1>1 DEF Spawn
    <2>2. /\ mode' = m /\ completion' = c /\ child' = ch /\ step' = 1 /\ request' = 0
          /\ ~expired' /\ ~cancel' /\ ~saw' /\ trace' = {} /\ ~loaded'
      BY <1>1 DEF Spawn
    <2>3. expired' \in BOOLEAN /\ cancel' \in BOOLEAN /\ saw' \in BOOLEAN /\ loaded' \in BOOLEAN
      BY <1>1 DEF Spawn
    <2> QED
      BY <2>1, <2>2, <2>3
  <1>2. CASE Send \/ SendUnblocks
    <2>1. /\ at' \in {"reply", "stop"} /\ result' \in Result /\ request' \in 0..Added
          /\ UNCHANGED <<run, mode, completion, step, cancel, saw, trace, child, loaded>>
      BY <1>2 DEF Send, SendUnblocks, Written
    <2>2. expired' = FALSE
      BY <1>2 DEF Send, SendUnblocks, Written
    <2> QED
      BY <2>1, <2>2
  <1>3. CASE SkipMessage
    BY <1>3 DEF SkipMessage
  <1>10. CASE Refused \/ NoReply
    <2>1. /\ at' = "stop" /\ result' \in Result
          /\ UNCHANGED <<run, mode, completion, step, cancel, saw, trace>>
          /\ UNCHANGED <<child, request, loaded>>
      BY <1>10 DEF Refused, NoReply
    <2>2. expired' = FALSE
      BY <1>10 DEF Refused, NoReply
    <2> QED
      BY <2>1, <2>2
  <1>4. CASE Proceed
    BY <1>4 DEF Proceed
  <1>5. CASE LoopDrains \/ Stop
    BY <1>5 DEF LoopDrains, Stop
  <1>6. CASE \E res \in Result : LoopEnds(res)
    BY <1>6 DEF LoopEnds
  <1>7. CASE SendBlocks \/ WaitFails \/ Cancel \/ Deadline
    <2>1. CASE Cancel
      BY <2>1 DEF Cancel
    <2>4. CASE SendBlocks
      <3>1. /\ at' = "blocked"
            /\ UNCHANGED <<run, mode, completion, step, expired, cancel, saw, trace, result>>
            /\ UNCHANGED <<child, request, loaded>>
        BY <2>4 DEF SendBlocks
      <3> QED
        BY <3>1
    <2>3. CASE Deadline
      BY <2>3 DEF Deadline
    <2>2. CASE WaitFails
      <3>1. /\ at' \in {"stop", "done"} /\ result' \in Result /\ trace' = trace \cup {"wait"}
            /\ UNCHANGED <<run, mode, completion, step, cancel, saw, child, request, loaded>>
        BY <2>2 DEF WaitFails
      <3>2. expired' = FALSE \/ expired' = expired
        BY <2>2 DEF WaitFails
      <3> QED
        BY <3>1, <3>2
    <2> QED
      BY <1>7, <2>1, <2>2, <2>3, <2>4
  <1>8. CASE Host
    <2>1. UNCHANGED driver
      BY <1>8 DEF Host, Answer, HostAdd, HostAdded, HostStart, HostDispatch, HostActs,
                  HostTurnEnds,
                  HostSpawnsAgent, HostAgentEnds, HostChatters, HostExits
    <2>2. child' \in {child, "exited"} /\ request' \in {request, 0, Added}
      BY <1>8 DEF Host, Answer, HostAdd, HostAdded, HostStart, HostDispatch, HostActs,
                  HostTurnEnds,
                  HostSpawnsAgent, HostAgentEnds, HostChatters, HostExits
    <2>3. loaded' \in BOOLEAN
      BY <1>8 DEF Host, Answer, HostAdd, HostAdded, HostStart, HostDispatch, HostActs,
                  HostTurnEnds,
                  HostSpawnsAgent, HostAgentEnds, HostChatters, HostExits
    <2> QED
      BY <2>1, <2>2, <2>3
  <1>9. CASE UNCHANGED vars
    BY <1>9 DEF vars
  <1> QED
    BY <1>1, <1>2, <1>3, <1>4, <1>5, <1>6, <1>7, <1>8, <1>9, <1>10 DEF Next, Driver

\* The turns that have ended or acted are turns of the thread.
LEMMA EffectStep ==
    ASSUME TypeOK, [Next]_vars
    PROVE  /\ effect' \subseteq Run /\ finished' \subseteq Run /\ helped' \subseteq Run
           /\ helper' \in Run \cup {NoTurn} /\ interrupted' \in BOOLEAN
           /\ effect \subseteq effect' /\ finished \subseteq finished' /\ helped \subseteq helped'
  <1> USE DEF TypeOK, thread, agents, LoseTurn, BeginHead
  <1>1. ASSUME NEW m, NEW c, NEW ch, Spawn(m, c, ch)
        PROVE  UNCHANGED <<effect, finished, helped, helper, interrupted>>
    BY <1>1 DEF Spawn
  <1>2. CASE Driver
    BY <1>2 DEF Driver, Send, Written, SkipMessage, Proceed, Refused, NoReply, LoopEnds, LoopDrains, Stop
  <1>3. CASE SendBlocks \/ SendUnblocks \/ WaitFails \/ Cancel \/ Deadline \/ UNCHANGED vars
    BY <1>3 DEF SendBlocks, SendUnblocks, Written, WaitFails, Cancel, Deadline, vars
  <1>4. CASE Host
    BY <1>4 DEF Host, Answer, HostAdd, HostAdded, HostStart, HostDispatch, HostActs, HostTurnEnds,
                HostSpawnsAgent, HostAgentEnds, HostChatters, HostExits
  <1> QED
    BY <1>1, <1>2, <1>3, <1>4 DEF Next

LEMMA TypeStep ==
    ASSUME TypeOK, ThreadInv, HandshakeInv, [Next]_vars
    PROVE  TypeOK'
  <1>1. Listing(queue') /\ begun' \subseteq Run /\ turn' \in Run \cup {NoTurn}
    BY StepMoves, ThreadMoves
  <1>2. ControlOK'
    BY ControlStep
  <1>3. /\ effect' \subseteq Run /\ finished' \subseteq Run /\ helped' \subseteq Run
        /\ helper' \in Run \cup {NoTurn} /\ interrupted' \in BOOLEAN
    BY EffectStep
  <1> QED
    BY <1>1, <1>2, <1>3 DEF TypeOK, ControlOK, Listing

\* Only a spawn changes which run it is, and it goes on from the last one.
LEMMA RunStep ==
    ASSUME [Next]_vars
    PROVE  \/ UNCHANGED <<run, mode, completion>>
           \/ \E m \in {"New", "Resume"}, c \in {"Verify", "TurnCompleted"}, ch \in {"alive", "none"} :
                 Spawn(m, c, ch)
  <1> USE DEF driver
  <1>1. CASE Driver
    BY <1>1 DEF Driver, Send, Written, SkipMessage, Proceed, Refused, NoReply, LoopEnds, LoopDrains, Stop
  <1>2. CASE SendBlocks \/ SendUnblocks \/ WaitFails \/ Cancel \/ Deadline \/ UNCHANGED vars
    BY <1>2 DEF SendBlocks, SendUnblocks, Written, WaitFails, Cancel, Deadline, vars
  <1>3. CASE Host
    BY <1>3 DEF Host, Answer, HostAdd, HostAdded, HostStart, HostDispatch, HostActs, HostTurnEnds,
                HostSpawnsAgent, HostAgentEnds, HostChatters, HostExits
  <1> QED
    BY <1>1, <1>2, <1>3 DEF Next

\* A sub-agent is one of a turn that has begun.
LEMMA HelperStep ==
    ASSUME [Next]_vars
    PROVE  helper' \in {NoTurn, helper} \/ (turn # NoTurn /\ helper' = turn)
  <1> USE DEF thread, agents, LoseTurn, BeginHead
  <1>1. ASSUME NEW m, NEW c, NEW ch, Spawn(m, c, ch)
        PROVE  helper' = helper
    BY <1>1 DEF Spawn
  <1>2. CASE Driver
    BY <1>2 DEF Driver, Send, Written, SkipMessage, Proceed, Refused, NoReply, LoopEnds, LoopDrains,
                Stop
  <1>3. CASE SendBlocks \/ SendUnblocks \/ WaitFails \/ Cancel \/ Deadline \/ UNCHANGED vars
    BY <1>3 DEF SendBlocks, SendUnblocks, Written, WaitFails, Cancel, Deadline, vars
  <1>4. CASE HostSpawnsAgent
    BY <1>4, RunAssumption DEF HostSpawnsAgent, Run
  <1>5. CASE Host /\ ~HostSpawnsAgent
    BY <1>5 DEF Host, Answer, HostAdd, HostAdded, HostStart, HostDispatch, HostActs, HostTurnEnds,
                HostAgentEnds, HostChatters, HostExits
  <1> QED
    BY <1>1, <1>2, <1>3, <1>4, <1>5 DEF Next

LEMMA ThreadStep ==
    ASSUME TypeOK, ThreadInv, HandshakeInv, [Next]_vars
    PROVE  ThreadInv'
  <1>1. /\ \A r \in begun' : r \notin Range(queue')
        /\ turn' # NoTurn => turn' \in begun'
        /\ Submitted' = Submitted \/ (HostAdd /\ Submitted' = Submitted \cup {run})
    BY StepMoves, ThreadMoves
  <1>2. run \in Nat /\ (run' = run \/ run' = run + 1)
    <2>1. run \in Nat
      BY RunAssumption DEF TypeOK
    <2> QED
      BY <2>1, RunStep DEF Spawn
  <1>3. HostAdd => run' = run
    BY DEF HostAdd, driver
  <1>4. \A r \in Submitted : r \in Nat /\ r <= run
    <2>1. \A r \in Submitted : r \in Run
      BY DEF TypeOK, Submitted, Range
    <2> QED
      BY <2>1, RunAssumption DEF ThreadInv, Run
  <1>5. \A r \in Submitted' : r <= run'
    BY <1>1, <1>2, <1>3, <1>4
  <1>6. helper' # NoTurn => helper' \in Submitted'
    <2>1. turn # NoTurn => turn \in Submitted
      BY DEF ThreadInv, Submitted
    <2>2. helper # NoTurn => helper \in Submitted
      BY DEF ThreadInv
    <2> QED
      BY <1>1, <2>1, <2>2, HelperStep
  <1> QED
    BY <1>1, <1>5, <1>6 DEF ThreadInv

\* The host's steps, seen by the driver: nothing but the request and the process.
LEMMA HostStep ==
    ASSUME Host
    PROVE  /\ UNCHANGED driver /\ Alive
           /\ child' = child \/ child' = "exited"
           /\ request' = request \/ request' = 0 \/ (HostAdd /\ request' = Added)
  BY DEF Host, Answer, HostAdd, HostAdded, HostStart, HostDispatch, HostActs, HostTurnEnds,
         HostSpawnsAgent, HostAgentEnds, HostChatters, HostExits, host, driver

\* A run gives its message to the thread once, between the request that adds it
\* and the answer.
LEMMA HandshakeStep ==
    ASSUME TypeOK, ThreadInv, HandshakeInv, [Next]_vars
    PROVE  HandshakeInv'
  <1>1. Submitted' = Submitted \/ (HostAdd /\ Submitted' = Submitted \cup {run})
    BY StepMoves, ThreadMoves
  <1>t. /\ run \in Nat /\ step \in 1..4 /\ request \in 0..5
        /\ \A r \in Submitted : r \in Nat /\ r <= run
    <2>1. \A r \in Submitted : r \in Run
      BY DEF TypeOK, Submitted, Range
    <2> QED
      BY <2>1, RunAssumption DEF ThreadInv, Run, TypeOK, Added
  <1> DEFINE Early == step < 3 \/ (step = 3 /\ at \in {"send", "blocked"}) \/ request = 3
  <1>h. /\ run = 0 => at = "done" /\ child = "none"
        /\ at \in {"send", "blocked", "reply", "loop"} => result = "none"
        /\ request \in {3, 5} => step >= 3 /\ (step = 3 => at \notin {"send", "blocked"})
        /\ Early => run \notin Submitted
    BY DEF HandshakeInv, Added
  <1>2. ASSUME NEW m \in {"New", "Resume"}, NEW c \in {"Verify", "TurnCompleted"},
               NEW ch \in {"alive", "none"}, Spawn(m, c, ch)
        PROVE  HandshakeInv'
    <2>1. /\ run' = run + 1 /\ step' = 1 /\ request' = 0
          /\ at' \in {"send", "blocked", "reply", "loop"} => result' = "none"
          /\ UNCHANGED <<queue, begun>>
      BY <1>2 DEF Spawn, thread
    <2>2. Submitted' = Submitted
      BY <2>1 DEF Submitted
    <2>3. run' \notin Submitted /\ run' # 0
      BY <2>1, <1>t
    <2> QED
      BY <2>1, <2>2, <2>3 DEF HandshakeInv, Added
  <1>3. ASSUME \/ Driver \/ SendBlocks \/ SendUnblocks
               \/ WaitFails \/ Cancel \/ Deadline \/ UNCHANGED vars
        PROVE  Submitted' = Submitted
    <2>1. CASE Stop
      BY <1>1, <2>1 DEF Stop, HostAdd, driver
    <2>2. CASE ~Stop
      <3>1. UNCHANGED <<queue, begun>>
        BY <1>3, <2>2 DEF Driver, Send, Written, SkipMessage, Proceed, Refused, NoReply, LoopEnds,
          LoopDrains, SendBlocks, SendUnblocks,
                          WaitFails, Cancel, Deadline, vars, thread
      <3> QED
        BY <3>1 DEF Submitted
    <2> QED
      BY <2>1, <2>2
  <1>4. CASE Send \/ SendUnblocks
    <2>1. /\ at \in {"send", "blocked"} /\ run' = run /\ step' = step /\ child' = child
          /\ \/ at' = "reply" /\ request' = step /\ result' = result
             \/ at' = "stop" /\ request' = request
      BY <1>4 DEF Send, SendUnblocks, Written, Returns
    <2>2. Submitted' = Submitted
      BY <1>3, <1>4 DEF Driver
    <2> QED
      BY <1>h, <1>t, <2>1, <2>2 DEF HandshakeInv, Added
  <1>5. CASE Proceed
    <2>1. /\ at = "reply" /\ UNCHANGED <<run, request, result, child>>
          /\ \/ step = 4 /\ step' = 4 /\ at' = "loop"
             \/ step # 4 /\ step' = step + 1 /\ at' = "send"
      BY <1>5 DEF Proceed, Replied
    <2>2. Submitted' = Submitted
      BY <1>3, <1>5 DEF Driver
    <2> QED
      BY <1>h, <1>t, <2>1, <2>2 DEF HandshakeInv, Added
  <1>6. CASE Refused \/ NoReply \/ (\E res \in Result : LoopEnds(res)) \/ WaitFails \/ Stop
    <2>1. /\ at # "done" /\ at' \in {"stop", "done"} /\ UNCHANGED <<run, step, request>>
      BY <1>6 DEF Refused, NoReply, LoopEnds, WaitFails, Stop, Returns, Replied, host
    <2>2. Submitted' = Submitted
      BY <1>3, <1>6 DEF Driver
    <2> QED
      BY <1>h, <1>t, <2>1, <2>2 DEF HandshakeInv, Added
  <1>9. CASE SendBlocks
    <2>1. at = "send" /\ at' = "blocked" /\ UNCHANGED <<run, step, request, result, child>>
      BY <1>9 DEF SendBlocks, host
    <2>2. Submitted' = Submitted
      BY <1>3, <1>9
    <2> QED
      BY <1>h, <1>t, <2>1, <2>2 DEF HandshakeInv, Added
  <1>7. CASE SkipMessage \/ LoopDrains \/ Cancel \/ Deadline \/ UNCHANGED vars
    <2>1. UNCHANGED <<run, at, step, request, result, child>>
      BY <1>7 DEF SkipMessage, LoopDrains, Cancel, Deadline, vars, driver, host
    <2>2. Submitted' = Submitted
      BY <1>3, <1>7 DEF Driver
    <2> QED
      BY <1>h, <1>t, <2>1, <2>2 DEF HandshakeInv, Added
  <1>8. CASE Host
    <2>1. /\ UNCHANGED <<run, at, step, result>> /\ run # 0
          /\ request' = request \/ request' = 0 \/ (HostAdd /\ request' = Added)
      BY <1>8, <1>h, HostStep DEF driver, Alive
    <2>2. CASE HostAdd
      BY <1>h, <1>t, <2>1, <2>2 DEF HostAdd, HandshakeInv, Added
    <2>3. CASE ~HostAdd
      BY <1>1, <1>h, <1>t, <2>1, <2>3 DEF HandshakeInv, Added
    <2> QED
      BY <2>2, <2>3
  <1> QED
    BY <1>2, <1>4, <1>5, <1>6, <1>7, <1>8, <1>9 DEF Next, Driver

\* Of a thread that the run has made, all is the run's own.
LEMMA OwnThread ==
    ASSUME TypeOK, ThreadInv, NewInv, mode = "New"
    PROVE  \A r \in Submitted : r = run
  <1>1. \A r \in Submitted : r \in Run /\ r <= run
    BY DEF TypeOK, Submitted, Range, ThreadInv
  <1>2. run \in Nat /\ run <= 1
    BY RunAssumption DEF TypeOK, NewInv
  <1> QED
    BY <1>1, <1>2, RunAssumption DEF Run

LEMMA NewStep ==
    ASSUME TypeOK, pipe \in Seq(Message), ThreadInv, HandshakeInv, NewInv, [Next]_vars
    PROVE  NewInv'
  <1>1. Ended' => \/ Ended
                  \/ HostTurnEnds /\ turn \in finished'
                  \/ HostAgentEnds /\ helper \in helped'
    BY PipeStep
  <1>2. finished \subseteq finished' /\ helped \subseteq helped'
    BY EffectStep
  <1>3. ASSUME NEW m \in {"New", "Resume"}, NEW c \in {"Verify", "TurnCompleted"},
               NEW ch \in {"alive", "none"}, Spawn(m, c, ch)
        PROVE  NewInv'
    <2>1. /\ mode' = m /\ (m = "New" => run = 0) /\ run' = run + 1 /\ step' = 1
          /\ pipe' = <<>> /\ ~saw'
      BY <1>3 DEF Spawn
    <2>2. ~Ended'
      BY <2>1 DEF Ended
    <2> QED
      BY <2>1, <2>2 DEF NewInv
  <1>4. CASE UNCHANGED <<run, mode, completion>>
    <2> SUFFICES ASSUME mode = "New"
                 PROVE  /\ run' <= 1
                        /\ result' = "err" => step' <= 2
                        /\ Ended' => run' \in finished' \cup helped'
      BY <1>4 DEF NewInv
    <2>1. run' <= 1 /\ (Ended => run \in finished \cup helped) /\ (result = "err" => step <= 2)
      BY <1>4 DEF NewInv
    <2>2. Ended' => run' \in finished' \cup helped'
      <3>1. CASE HostTurnEnds /\ turn \in finished'
        <4>1. turn \in begun
          BY <3>1 DEF HostTurnEnds, ThreadInv
        <4>2. turn = run
          BY <4>1, OwnThread DEF Submitted
        <4> QED
          BY <1>4, <3>1, <4>2
      <3>2. CASE HostAgentEnds /\ helper \in helped'
        <4>1. helper \in Submitted
          BY <3>2 DEF HostAgentEnds, ThreadInv
        <4>2. helper = run
          BY <4>1, OwnThread
        <4> QED
          BY <1>4, <3>2, <4>2
      <3>3. CASE Ended
        BY <1>2, <1>4, <2>1, <3>3
      <3> QED
        BY <1>1, <3>1, <3>2, <3>3
    <2>3. result' = "err" => step' <= 2
      <3>0. step \in 1..4 /\ (at \in {"send", "blocked", "reply", "loop"} => result = "none")
        BY DEF TypeOK, HandshakeInv
      <3>1. CASE Send \/ SendUnblocks \/ Refused \/ NoReply
        <4>1. step' = step /\ (result' = result \/ result' = Failure)
          BY <3>1 DEF Send, SendUnblocks, Written, Refused, NoReply, Returns
        <4> QED
          BY <2>1, <3>0, <4>1 DEF Failure
      <3>2. CASE Proceed
        BY <3>0, <3>2 DEF Proceed, Replied
      <3>3. CASE (\E res \in Result : LoopEnds(res)) \/ WaitFails
        BY <2>1, <3>3 DEF LoopEnds, WaitFails, Returns
      <3>4. CASE \/ SendBlocks \/ SkipMessage \/ LoopDrains \/ Stop
                 \/ Cancel \/ Deadline \/ UNCHANGED vars
        BY <2>1, <3>4 DEF SendBlocks, SkipMessage, LoopDrains, Stop, Cancel, Deadline, vars, driver
      <3>5. CASE Host
        BY <2>1, <3>5, HostStep DEF driver
      <3>6. ASSUME NEW m, NEW c, NEW ch, Spawn(m, c, ch) PROVE step' <= 2
        BY <3>6 DEF Spawn
      <3> QED
        BY <3>1, <3>2, <3>3, <3>4, <3>5, <3>6 DEF Next, Driver
    <2> QED
      BY <2>1, <2>2, <2>3
  <1> QED
    BY <1>3, <1>4, RunStep

\* The host of a run that is over has been waited for.
LEMMA OrphanStep ==
    ASSUME TypeOK, NoOrphan, [Next]_vars
    PROVE  NoOrphan'
  <1>1. ASSUME NEW m \in {"New", "Resume"}, NEW c \in {"Verify", "TurnCompleted"},
               NEW ch \in {"alive", "none"}, Spawn(m, c, ch)
        PROVE  NoOrphan'
    BY <1>1 DEF Spawn, NoOrphan
  <1>2. CASE Driver
    BY <1>2 DEF Driver, Send, Written, SkipMessage, Proceed, Refused, NoReply, LoopEnds, LoopDrains, Stop,
                Returns, NoOrphan
  <1>3. CASE SendBlocks \/ SendUnblocks \/ WaitFails \/ Cancel \/ Deadline \/ UNCHANGED vars
    BY <1>3 DEF SendBlocks, SendUnblocks, Written, WaitFails, Cancel, Deadline, vars, Returns, NoOrphan, driver, host
  <1>4. CASE Host
    <2>1. child = "alive" /\ at' = at /\ trace' = trace
      BY <1>4, HostStep DEF driver, Alive
    <2> QED
      BY <2>1 DEF NoOrphan
  <1> QED
    BY <1>1, <1>2, <1>3, <1>4 DEF Next

\* A run that made its thread has seen the end of its own turn, or of a sub-agent's.
LEMMA SuccessStep ==
    ASSUME TypeOK, NewInv, SuccessIsOwnWork, [Next]_vars
    PROVE  SuccessIsOwnWork'
  <1> DEFINE Own == run \in (IF completion = "Verify" THEN effect ELSE finished \cup helped)
  <1>1. effect \subseteq effect' /\ finished \subseteq finished' /\ helped \subseteq helped'
    BY EffectStep
  <1>2. ASSUME NEW m, NEW c, NEW ch, Spawn(m, c, ch) PROVE result' # "ok"
    BY <1>2 DEF Spawn
  <1>3. CASE UNCHANGED <<run, mode, completion>>
    <2>1. Own => Own'
      BY <1>1, <1>3
    <2>2. ASSUME LoopEnds("ok"), mode = "New" PROVE Own
      BY <2>2 DEF LoopEnds, Complete, NewInv, Ended
    <2>3. result' = "ok" => result = "ok" \/ LoopEnds("ok")
      <3>1. CASE Driver
        BY <3>1 DEF Driver, Send, Written, SkipMessage, Proceed, Refused, NoReply, LoopEnds, LoopDrains,
                    Stop,
                    Returns, Failure
      <3>2. CASE SendBlocks \/ SendUnblocks \/ WaitFails \/ Cancel \/ Deadline \/ UNCHANGED vars
        BY <3>2 DEF SendBlocks, SendUnblocks, Written, WaitFails, Cancel, Deadline, vars, Returns,
                    Failure, driver
      <3>3. CASE Host
        BY <3>3, HostStep DEF driver
      <3> QED
        BY <1>2, <3>1, <3>2, <3>3 DEF Next
    <2> HIDE DEF Own
    <2>4. SuccessIsOwnWork = (result = "ok" /\ mode = "New" => Own)
      BY DEF SuccessIsOwnWork, Own
    <2>5. SuccessIsOwnWork' = (result' = "ok" /\ mode' = "New" => Own')
      BY DEF SuccessIsOwnWork, Own
    <2> QED
      BY <1>3, <2>1, <2>2, <2>3, <2>4, <2>5
  <1> QED
    BY <1>2, <1>3, RunStep DEF SuccessIsOwnWork
-----------------------------------------------------------------------------
(* Theorems about the driver *)

LEMMA HostInit == Init => HostInv
  <1> SUFFICES ASSUME Init PROVE HostInv
    OBVIOUS
  <1>1. queue = <<>> /\ pipe = <<>> /\ begun = {} /\ Len(pipe) = 0 /\ Range(queue) = {}
    BY DEF Init, Range
  <1>2. TypeOK
    <2>1. queue \in Seq(Run) /\ IsInjective(queue)
      BY <1>1 DEF IsInjective
    <2>2. /\ run \in 0..MaxRuns /\ step \in 1..4
          /\ request \in 0..Added
      BY RunAssumption DEF Init, Added
    <2>3. /\ expired \in BOOLEAN /\ cancel \in BOOLEAN /\ saw \in BOOLEAN
          /\ loaded \in BOOLEAN /\ interrupted \in BOOLEAN
      BY DEF Init
    <2> QED
      BY <2>1, <2>2, <2>3 DEF Init, TypeOK, Result
  <1>3. pipe \in Seq(Message)
    BY <1>1
  <1>4. ~Ended
    BY <1>1 DEF Init, Ended
  <1>5. ThreadInv /\ HandshakeInv /\ NewInv
    BY <1>1, <1>4 DEF Init, ThreadInv, HandshakeInv, NewInv, Submitted, Added
  <1> QED
    BY <1>2, <1>3, <1>5 DEF Init, HostInv, NoOrphan, SuccessIsOwnWork

\* HostInv is an inductive invariant of the driver and its hosts.
THEOREM HostInvariant == Spec => []HostInv
  <1>1. HostInv /\ [Next]_vars => HostInv'
    BY TypeStep, PipeStep, ThreadStep, HandshakeStep, NewStep, OrphanStep, SuccessStep DEF HostInv
  <1> QED
    BY HostInit, <1>1, PTL DEF Spec

(***************************************************************************)
(* A run that is over leaves neither a host process that nobody has waited *)
(* for nor work in a thread that nobody has the name of, whatever became   *)
(* of its host and wherever it was cancelled (stop, protocol_fail, fail).  *)
(***************************************************************************)
THEOREM HostNothingLeftBehind == Spec => []NothingLeftBehind
  <1>1. HostInv => NothingLeftBehind
    <2> SUFFICES ASSUME HostInv, mode = "New", result = "err" PROVE queue = <<>> /\ begun = {}
      BY DEF HostInv, NothingLeftBehind, NothingUnnamed
    <2>1. TypeOK /\ ThreadInv /\ HandshakeInv /\ NewInv
      BY DEF HostInv
    <2>2. step \in 1..4 /\ step <= 2
      BY <2>1 DEF TypeOK, NewInv
    <2>3. run \notin Submitted
      BY <2>1, <2>2 DEF HandshakeInv
    <2>4. Range(queue) = {} /\ begun = {}
      BY <2>1, <2>3, OwnThread DEF Submitted
    <2>5. queue = <<>>
      <3>1. queue \in Seq(Run) /\ (queue # <<>> => 1 \in DOMAIN queue)
        BY <2>1, EmptySeq DEF TypeOK
      <3> QED
        BY <2>4, <3>1 DEF Range
    <2> QED
      BY <2>4, <2>5
  <1> QED
    BY HostInvariant, <1>1, PTL

(***************************************************************************)
(* A run that made its thread reports success only on work done for its    *)
(* own message: its effect is there, or its turn or a sub-agent's of it    *)
(* has ended, although any turn/completed ends the run (drain_event).      *)
(***************************************************************************)
THEOREM HostSuccessIsOwnWork == Spec => []SuccessIsOwnWork
  <1>1. HostInv => SuccessIsOwnWork
    BY DEF HostInv
  <1> QED
    BY HostInvariant, <1>1, PTL

\* What a step does to the thread is a step of QueueContract.
LEMMA HostContractStep ==
    ASSUME TypeOK, ThreadInv, HandshakeInv, Moves
    PROVE  [Contract!Next]_(Contract!vars)
  <1> USE DEF Contract!Next, Contract!vars, Contract!Submit, Contract!Withdraw, Contract!Begin,
              Contract!BeginLive, Contract!End, Contract!Redo
  <1>1. Listing(queue) /\ begun \subseteq Run /\ turn \in Run \cup {NoTurn}
    BY DEF TypeOK, Listing
  <1>2. \A r \in begun : r \notin Range(queue)
    BY DEF ThreadInv
  <1>3. CASE HostAdd
    <2>1. queue' = Append(queue, run) /\ UNCHANGED <<begun, turn>>
      BY <1>3 DEF HostAdd
    <2>2. run \notin Range(queue) /\ run \notin begun /\ run \in Run
      BY <1>3, AddedIsNew
    <2>4. Range(queue') = Range(queue) \cup {run}
      BY <1>1, <2>1, <2>2, Appended
    <2> QED
      BY <2>1, <2>2, <2>4
  <1>4. CASE BeginHead
    <2>1. /\ queue # <<>> /\ turn = NoTurn /\ turn' = Head(queue)
          /\ begun' = begun \cup {Head(queue)} /\ queue' = Tail(queue)
      BY <1>4 DEF BeginHead
    <2>2. /\ Head(queue) \in Range(queue) /\ Head(queue) \in Run
          /\ Range(queue') = Range(queue) \ {Head(queue)}
      BY <1>1, <2>1, Shortened
    <2> QED
      BY <2>1, <2>2
  <1>5. CASE turn \in begun /\ turn' = NoTurn /\ queue' = <<turn>> \o queue /\ begun' = begun \ {turn}
    <2>1. Range(queue') = Range(queue) \cup {turn} /\ turn \in Run
      BY <1>1, <1>2, <1>5, Prepended
    <2> QED
      BY <1>5, <2>1
  <1>6. CASE UNCHANGED <<queue, begun, turn>> \/ (turn' = NoTurn /\ UNCHANGED <<queue, begun>>)
    BY <1>6 DEF Range
  <1> QED
    BY <1>3, <1>4, <1>5, <1>6 DEF Moves

(***************************************************************************)
(* Over all its hosts, the ones that died or were killed included, the     *)
(* thread's queue as the driver's runs use it implements QueueContract: a  *)
(* message begins once, unless its host died before it took it out.        *)
(***************************************************************************)
THEOREM HostKeepsContract == Spec => KeepsContract
  <1>1. Init => Contract!Init
    BY DEF Init, Contract!Init, Range
  <1>2. HostInv /\ [Next]_vars => [Contract!Next]_(Contract!vars)
    BY StepMoves, HostContractStep DEF HostInv
  <1> QED
    BY HostInvariant, <1>1, <1>2, PTL DEF Spec, KeepsContract, Contract!Spec
-----------------------------------------------------------------------------
(***************************************************************************)
(* The sessions of the server (module SessionStore), whose workers wait    *)
(* for what the driver returns: the rounds of a session do not mix, the    *)
(* handles of a round do not outlive it, and (with every codex_home        *)
(* configured) a running session is attended.                              *)
(*                                                                         *)
(* None of the three is inductive alone.  A handle is gone when the status *)
(* becomes terminal only because finish removed it in an earlier critical  *)
(* section and nobody registered another one since; nobody did because the *)
(* one round that may register handles is the one that is finishing.       *)
(***************************************************************************)
\* A round is set up and watched while its session is running, by one at a time.
RoundInv ==
    \A s \in Session :
        /\ setup[s] # "none" => worker[s] = "none"
        /\ status[s] # "running" => setup[s] = "none" /\ worker[s] = "none"

\* Which handles are left, by where finish is.
HandleInv ==
    \A s \in Session :
        /\ status[s] # "running" => s \notin children /\ flags[s] = "none"
        /\ setup[s] \in {"finish_flag", "finish"} => s \notin children
        /\ worker[s] \in {"finish_flag", "finish"} => s \notin children
        /\ setup[s] = "finish" => flags[s] = "none"
        /\ worker[s] = "finish" => flags[s] = "none"

\* A cancel that kills an executor still has the guard of `children`, and a round
\* of the exec channel loses its child to such a cancel only.
GuardInv ==
    \A s \in Session :
        /\ cancelling[s] \in {"kill", "finish_child"} => lock = s
        /\ Channel[s] = "exec" /\ (setup[s] = "spawn" \/ worker[s] = "run") =>
              s \in children \/ lock # NoSession

StoreInv == SessionsTypeOK /\ RoundInv /\ HandleInv

\* Somebody works on a running session: setup or its worker.
AttendedInv ==
    \A s \in Session : status[s] = "running" => setup[s] # "none" \/ worker[s] # "none"
-----------------------------------------------------------------------------
\* A new server has no session, hence no round and no handle.
LEMMA StoreInit == SessionInit => StoreInv /\ AttendedInv
  BY DEF SessionInit, StoreInv, SessionsTypeOK, RoundInv, HandleInv, AttendedInv, Terminal,
         Outcome, Finishing

\* Every step keeps the type invariant, whoever takes it.
LEMMA StoreTypeStep ==
    ASSUME SessionsTypeOK, [SessionNext]_sessionVars
    PROVE  SessionsTypeOK'
  <1> USE SessionAssumption DEF SessionsTypeOK, shared, handles, SetStatus, Move,
              Work, Advance, Persist, Terminal, Outcome,
              Finishing
  <1>1. ASSUME NEW s \in Session, Create(s) PROVE SessionsTypeOK'
    BY <1>1 DEF Create
  <1>2. ASSUME NEW s \in Session, ResumeStart(s) PROVE SessionsTypeOK'
    BY <1>2 DEF ResumeStart
  <1>3. ASSUME NEW s \in Session, Setup(s) PROVE SessionsTypeOK'
    <2>1. CASE SetupFails(s)
      BY <2>1 DEF SetupFails
    <2>2. CASE RegisterCancelFlag(s)
      BY <2>2 DEF RegisterCancelFlag
    <2>3. CASE RegisterChild(s)
      BY <2>3 DEF RegisterChild
    <2>4. CASE SpawnWorker(s)
      BY <2>4 DEF SpawnWorker
    <2>5. CASE FinishSetup(s)
      BY <2>5 DEF FinishSetup, RemoveChild, RemoveFlag, Record
    <2> QED
      BY <1>3, <2>1, <2>2, <2>3, <2>4, <2>5 DEF Setup
  <1>4. ASSUME NEW s \in Session, ExecutorEnds(s) PROVE SessionsTypeOK'
    BY <1>4 DEF ExecutorEnds, HostReturns, ExecutorExits
  <1>5. ASSUME NEW s \in Session, Watch(s) PROVE SessionsTypeOK'
    BY <1>5 DEF Watch, SeesCancel, FinishWorker, RemoveChild,
                RemoveFlag, Record
  <1>6. ASSUME NEW s \in Session, CancelCalled(s) \/ CancelGoesOn(s) PROVE SessionsTypeOK'
    BY <1>6 DEF CancelCalled, CancelGoesOn, TakeChild, KillChild, NoChild,
                RaiseFlag
  <1>7. ASSUME NEW s \in Session, HomeMissing(s) \/ AfterKill(s) PROVE SessionsTypeOK'
    BY <1>7 DEF HomeMissing, AfterKill, SeesNoChild, CancelFinishes,
                RemoveChild
  <1>8. CASE Restart
    BY <1>8 DEF Restart
  <1>9. CASE UNCHANGED sessionVars
    BY <1>9 DEF sessionVars
  <1> QED
    BY <1>1, <1>2, <1>3, <1>4, <1>5, <1>6, <1>7, <1>8, <1>9 DEF SessionNext, ConfiguredNext

\* No step starts a round beside another one, or leaves one behind in a session
\* that is not running.
LEMMA RoundStep ==
    ASSUME SessionsTypeOK, RoundInv, [SessionNext]_sessionVars
    PROVE  RoundInv'
  <1> USE SessionAssumption DEF SessionsTypeOK, RoundInv, shared, handles, SetStatus,
              Move, Work, Advance, Persist, Terminal, Outcome,
              Finishing
  <1>1. ASSUME NEW s \in Session, Create(s) PROVE RoundInv'
    BY <1>1 DEF Create
  <1>2. ASSUME NEW s \in Session, ResumeStart(s) PROVE RoundInv'
    BY <1>2 DEF ResumeStart
  <1>3. ASSUME NEW s \in Session, Setup(s) PROVE RoundInv'
    <2>1. CASE SetupFails(s)
      BY <2>1 DEF SetupFails
    <2>2. CASE RegisterCancelFlag(s)
      BY <2>2 DEF RegisterCancelFlag
    <2>3. CASE RegisterChild(s)
      BY <2>3 DEF RegisterChild
    <2>4. CASE SpawnWorker(s)
      BY <2>4 DEF SpawnWorker
    <2>5. CASE FinishSetup(s)
      BY <2>5 DEF FinishSetup, RemoveChild, RemoveFlag, Record
    <2> QED
      BY <1>3, <2>1, <2>2, <2>3, <2>4, <2>5 DEF Setup
  <1>4. ASSUME NEW s \in Session, ExecutorEnds(s) PROVE RoundInv'
    BY <1>4 DEF ExecutorEnds, HostReturns, ExecutorExits
  <1>5. ASSUME NEW s \in Session, Watch(s) PROVE RoundInv'
    BY <1>5 DEF Watch, SeesCancel, FinishWorker, RemoveChild,
                RemoveFlag, Record
  <1>6. ASSUME NEW s \in Session, CancelCalled(s) \/ CancelGoesOn(s) PROVE RoundInv'
    BY <1>6 DEF CancelCalled, CancelGoesOn, TakeChild, KillChild, NoChild,
                RaiseFlag
  <1>7. ASSUME NEW s \in Session, HomeMissing(s) \/ AfterKill(s) PROVE RoundInv'
    BY <1>7 DEF HomeMissing, AfterKill, SeesNoChild, CancelFinishes,
                RemoveChild
  <1>8. CASE Restart
    BY <1>8 DEF Restart
  <1>9. CASE UNCHANGED sessionVars
    BY <1>9 DEF sessionVars
  <1> QED
    BY <1>1, <1>2, <1>3, <1>4, <1>5, <1>6, <1>7, <1>8, <1>9 DEF SessionNext, ConfiguredNext

\* Handles are registered by the round that is being set up and removed by finish
\* before it records the end.
LEMMA HandleStep ==
    ASSUME SessionsTypeOK, RoundInv, HandleInv, [SessionNext]_sessionVars
    PROVE  HandleInv'
  <1> USE SessionAssumption DEF SessionsTypeOK, RoundInv, HandleInv, shared, handles,
              SetStatus, Move, Work, Advance, Persist, Terminal,
              Outcome, Finishing
  <1>1. ASSUME NEW s \in Session, Create(s) PROVE HandleInv'
    BY <1>1 DEF Create
  <1>2. ASSUME NEW s \in Session, ResumeStart(s) PROVE HandleInv'
    BY <1>2 DEF ResumeStart
  <1>3. ASSUME NEW s \in Session, Setup(s) PROVE HandleInv'
    <2>1. CASE SetupFails(s)
      BY <2>1 DEF SetupFails
    <2>2. CASE RegisterCancelFlag(s)
      BY <2>2 DEF RegisterCancelFlag
    <2>3. CASE RegisterChild(s)
      BY <2>3 DEF RegisterChild
    <2>4. CASE SpawnWorker(s)
      BY <2>4 DEF SpawnWorker
    <2>5. CASE FinishSetup(s)
      BY <2>5 DEF FinishSetup, RemoveChild, RemoveFlag, Record
    <2> QED
      BY <1>3, <2>1, <2>2, <2>3, <2>4, <2>5 DEF Setup
  <1>4. ASSUME NEW s \in Session, ExecutorEnds(s) PROVE HandleInv'
    BY <1>4 DEF ExecutorEnds, HostReturns, ExecutorExits
  <1>5. ASSUME NEW s \in Session, Watch(s) PROVE HandleInv'
    BY <1>5 DEF Watch, SeesCancel, FinishWorker, RemoveChild,
                RemoveFlag, Record
  <1>6. ASSUME NEW s \in Session, CancelCalled(s) \/ CancelGoesOn(s) PROVE HandleInv'
    BY <1>6 DEF CancelCalled, CancelGoesOn, TakeChild, KillChild, NoChild,
                RaiseFlag
  <1>7. ASSUME NEW s \in Session, HomeMissing(s) \/ AfterKill(s) PROVE HandleInv'
    BY <1>7 DEF HomeMissing, AfterKill, SeesNoChild, CancelFinishes,
                RemoveChild
  <1>8. CASE Restart
    BY <1>8 DEF Restart
  <1>9. CASE UNCHANGED sessionVars
    BY <1>9 DEF sessionVars
  <1> QED
    BY <1>1, <1>2, <1>3, <1>4, <1>5, <1>6, <1>7, <1>8, <1>9 DEF SessionNext, ConfiguredNext

\* A guard that a cancel took is let go by a restart only, and while nobody has
\* it a round of the exec channel that has its child registered keeps it.
LEMMA GuardStep ==
    ASSUME SessionsTypeOK, RoundInv, GuardInv, [SessionNext]_sessionVars
    PROVE  GuardInv'
  <1> USE SessionAssumption DEF SessionsTypeOK, RoundInv, GuardInv, shared, handles,
              SetStatus, Move, Work, Advance, Persist, Terminal,
              Outcome, Finishing
  <1>1. ASSUME NEW s \in Session, Create(s) PROVE GuardInv'
    BY <1>1 DEF Create
  <1>2. ASSUME NEW s \in Session, ResumeStart(s) PROVE GuardInv'
    BY <1>2 DEF ResumeStart
  <1>3. ASSUME NEW s \in Session, Setup(s) PROVE GuardInv'
    <2>1. CASE SetupFails(s)
      BY <2>1 DEF SetupFails
    <2>2. CASE RegisterCancelFlag(s)
      BY <2>2 DEF RegisterCancelFlag
    <2>3. CASE RegisterChild(s)
      BY <2>3 DEF RegisterChild
    <2>4. CASE SpawnWorker(s)
      BY <2>4 DEF SpawnWorker
    <2>5. CASE FinishSetup(s)
      BY <2>5 DEF FinishSetup, RemoveChild, RemoveFlag, Record
    <2> QED
      BY <1>3, <2>1, <2>2, <2>3, <2>4, <2>5 DEF Setup
  <1>4. ASSUME NEW s \in Session, ExecutorEnds(s) PROVE GuardInv'
    BY <1>4 DEF ExecutorEnds, HostReturns, ExecutorExits
  <1>5. ASSUME NEW s \in Session, Watch(s) PROVE GuardInv'
    BY <1>5 DEF Watch, SeesCancel, FinishWorker, RemoveChild,
                RemoveFlag, Record
  <1>6. ASSUME NEW s \in Session, CancelCalled(s) \/ CancelGoesOn(s) PROVE GuardInv'
    BY <1>6 DEF CancelCalled, CancelGoesOn, TakeChild, KillChild, NoChild,
                RaiseFlag, Unlocked
  <1>7. ASSUME NEW s \in Session, HomeMissing(s) \/ AfterKill(s) PROVE GuardInv'
    BY <1>7 DEF HomeMissing, AfterKill, SeesNoChild, CancelFinishes,
                RemoveChild
  <1>8. CASE Restart
    BY <1>8 DEF Restart
  <1>9. CASE UNCHANGED sessionVars
    BY <1>9 DEF sessionVars
  <1> QED
    BY <1>1, <1>2, <1>3, <1>4, <1>5, <1>6, <1>7, <1>8, <1>9 DEF SessionNext, ConfiguredNext

\* With codex_home configured, setup is followed by a worker and a worker by a record.
LEMMA AttendedStep ==
    ASSUME SessionsTypeOK, RoundInv, AttendedInv, [ConfiguredNext]_sessionVars
    PROVE  AttendedInv'
  <1> USE SessionAssumption DEF SessionsTypeOK, RoundInv, AttendedInv, shared, handles,
              SetStatus, Move, Work, Advance, Persist, Terminal,
              Outcome, Finishing
  <1>1. ASSUME NEW s \in Session, Create(s) PROVE AttendedInv'
    BY <1>1 DEF Create
  <1>2. ASSUME NEW s \in Session, ResumeStart(s) PROVE AttendedInv'
    BY <1>2 DEF ResumeStart
  <1>3. ASSUME NEW s \in Session, Setup(s) PROVE AttendedInv'
    <2>1. CASE SetupFails(s)
      BY <2>1 DEF SetupFails
    <2>2. CASE RegisterCancelFlag(s)
      BY <2>2 DEF RegisterCancelFlag
    <2>3. CASE RegisterChild(s)
      BY <2>3 DEF RegisterChild
    <2>4. CASE SpawnWorker(s)
      BY <2>4 DEF SpawnWorker
    <2>5. CASE FinishSetup(s)
      BY <2>5 DEF FinishSetup, RemoveChild, RemoveFlag, Record
    <2> QED
      BY <1>3, <2>1, <2>2, <2>3, <2>4, <2>5 DEF Setup
  <1>4. ASSUME NEW s \in Session, ExecutorEnds(s) PROVE AttendedInv'
    BY <1>4 DEF ExecutorEnds, HostReturns, ExecutorExits
  <1>5. ASSUME NEW s \in Session, Watch(s) PROVE AttendedInv'
    BY <1>5 DEF Watch, SeesCancel, FinishWorker, RemoveChild,
                RemoveFlag, Record
  <1>6. ASSUME NEW s \in Session, CancelCalled(s) \/ CancelGoesOn(s) PROVE AttendedInv'
    BY <1>6 DEF CancelCalled, CancelGoesOn, TakeChild, KillChild, NoChild,
                RaiseFlag
  <1>8. CASE Restart
    BY <1>8 DEF Restart
  <1>9. CASE UNCHANGED sessionVars
    BY <1>9 DEF sessionVars
  <1> QED
    BY <1>1, <1>2, <1>3, <1>4, <1>5, <1>6, <1>8, <1>9 DEF ConfiguredNext
-----------------------------------------------------------------------------
\* The inductive invariant holds of every behaviour of the code.
THEOREM SessionInvariant == SessionSpec => []StoreInv
  <1>1. StoreInv /\ [SessionNext]_sessionVars => StoreInv'
    BY StoreTypeStep, RoundStep, HandleStep DEF StoreInv
  <1> QED
    BY StoreInit, <1>1, PTL DEF SessionSpec

(***************************************************************************)
(* Statuses, handles and threads always have their types (SessionStore).   *)
(***************************************************************************)
THEOREM SessionTypeOK == SessionSpec => []SessionsTypeOK
  <1>1. StoreInv => SessionsTypeOK
    BY DEF StoreInv
  <1> QED
    BY SessionInvariant, <1>1, PTL

(***************************************************************************)
(* No executor child and no cancellation flag is left of a round that has  *)
(* ended, for a cancel of the next round to find (finish_impl).            *)
(***************************************************************************)
THEOREM SessionNoStaleHandle == SessionSpec => []NoStaleHandle
  <1>1. StoreInv => NoStaleHandle
    BY DEF StoreInv, HandleInv, NoStaleHandle, Terminal
  <1> QED
    BY SessionInvariant, <1>1, PTL

(***************************************************************************)
(* While a request sets a round up, no worker of an earlier round is left  *)
(* that will still change the session (resume_start).                      *)
(***************************************************************************)
THEOREM SessionOneRound == SessionSpec => []OneRoundAtATime
  <1>1. StoreInv => OneRoundAtATime
    BY DEF StoreInv, RoundInv, OneRoundAtATime
  <1> QED
    BY SessionInvariant, <1>1, PTL

(***************************************************************************)
(* Where every agent has its codex_home, a session shown as running is     *)
(* always attended, also across restarts of the server (create, load).     *)
(***************************************************************************)
THEOREM SessionAttended == ConfiguredSpec => []RunningIsAttended
  <1>1. [ConfiguredNext]_sessionVars => [SessionNext]_sessionVars
    BY DEF SessionNext
  <1>2. StoreInv /\ AttendedInv /\ [ConfiguredNext]_sessionVars => (StoreInv /\ AttendedInv)'
    BY <1>1, StoreTypeStep, RoundStep, HandleStep, AttendedStep DEF StoreInv
  <1>3. AttendedInv => RunningIsAttended
    BY DEF AttendedInv, RunningIsAttended
  <1> QED
    BY StoreInit, <1>2, <1>3, PTL DEF ConfiguredSpec

(***************************************************************************)
(* Once a cancel has killed an executor, its request never gets to finish  *)
(* and the worker never gets to see that the child has gone: both want the *)
(* guard that the request itself still holds (cancel, finish_impl).  It is *)
(* why ConfiguredNext may leave AfterKill out.                             *)
(***************************************************************************)
THEOREM SessionKillHangs ==
    SessionSpec => [][\A s \in Session : ~AfterKill(s)]_sessionVars
  <1>1. SessionInit => GuardInv
    BY DEF SessionInit, GuardInv
  <1>2. StoreInv /\ GuardInv /\ [SessionNext]_sessionVars => GuardInv'
    BY GuardStep DEF StoreInv
  <1>3. ASSUME StoreInv, GuardInv, NEW s \in Session PROVE ~AfterKill(s)
    <2>1. ~SeesNoChild(s)
      BY <1>3 DEF GuardInv, SeesNoChild, Unlocked
    <2>2. ~CancelFinishes(s)
      BY <1>3, SessionAssumption DEF GuardInv, CancelFinishes, RemoveChild, Unlocked
    <2> QED
      BY <2>1, <2>2 DEF AfterKill
  <1>4. StoreInv /\ GuardInv => [\A s \in Session : ~AfterKill(s)]_sessionVars
    BY <1>3
  <1> QED
    BY SessionInvariant, <1>1, <1>2, <1>4, PTL DEF SessionSpec
=============================================================================
