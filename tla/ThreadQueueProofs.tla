-------------------------- MODULE ThreadQueueProofs --------------------------
(***************************************************************************)
(* What ThreadQueue guarantees for any messages, tasks, limit and number   *)
(* of faults: its rows are well formed, a dispatch starts the row as it is *)
(* queued, and the queue implements QueueContract.                         *)
(*                                                                         *)
(* The argument is about the dispatch guard: the task that holds it is the *)
(* one that has read a row (QueueInv), so no request comes between reading *)
(* a row and deleting it, and at most one started row is still listed.     *)
(***************************************************************************)
EXTENDS ThreadQueue, FiniteSetTheorems, SequenceTheorems, TLAPS

(* The rows *)

\* A list of rows, none of them twice.
Listing(q) == q \in Seq(Item) /\ IsInjective(q)

\* What is left when the element at position k is taken out.
LEMMA RemoveAtProperties ==
    ASSUME NEW S, NEW q \in Seq(S), NEW k \in 1..Len(q)
    PROVE  /\ RemoveAt(q, k) \in Seq(S)
           /\ Len(RemoveAt(q, k)) = Len(q) - 1
           /\ \A j \in 1..(Len(q) - 1) :
                 RemoveAt(q, k)[j] = IF j < k THEN q[j] ELSE q[j + 1]
  <1> DEFINE a == SubSeq(q, 1, k - 1)
             b == SubSeq(q, k + 1, Len(q))
  <1>1. Len(q) \in Nat /\ k \in Nat
    OBVIOUS
  <1>2. /\ a \in Seq(S) /\ Len(a) = k - 1
        /\ \A j \in 1..(k - 1) : a[j] = q[j]
    BY <1>1, SubSeqProperties
  <1>3. /\ b \in Seq(S) /\ Len(b) = Len(q) - k
        /\ \A j \in 1..(Len(q) - k) : b[j] = q[k + j]
    BY <1>1, SubSeqProperties
  <1> HIDE DEF a, b
  <1>4. /\ a \o b \in Seq(S)
        /\ Len(a \o b) = Len(q) - 1
        /\ \A j \in 1..(Len(q) - 1) :
              (a \o b)[j] = IF j < k THEN q[j] ELSE q[j + 1]
    <2>1. /\ a \o b \in Seq(S)
          /\ Len(a \o b) = Len(a) + Len(b)
          /\ \A j \in 1..(Len(a) + Len(b)) :
                (a \o b)[j] = IF j <= Len(a) THEN a[j] ELSE b[j - Len(a)]
      BY <1>2, <1>3, ConcatProperties
    <2>2. Len(a) + Len(b) = Len(q) - 1
      BY <1>1, <1>2, <1>3
    <2>3. ASSUME NEW j \in 1..(Len(q) - 1)
          PROVE  (a \o b)[j] = IF j < k THEN q[j] ELSE q[j + 1]
      <3>1. CASE j < k
        BY <1>1, <1>2, <2>1, <2>2, <3>1
      <3>2. CASE ~(j < k)
        <4>1. j - (k - 1) \in 1..(Len(q) - k) /\ k + (j - (k - 1)) = j + 1 /\ ~(j <= k - 1)
          BY <1>1, <3>2
        <4>2. (a \o b)[j] = b[j - (k - 1)]
          BY <1>2, <2>1, <2>2, <4>1
        <4> QED
          BY <1>3, <3>2, <4>1, <4>2
      <3> QED
        BY <3>1, <3>2
    <2> QED
      BY <2>1, <2>2, <2>3
  <1> QED
    BY <1>4 DEF RemoveAt, a, b

\* Deleting a row takes out that row and no other, and keeps the others' order.
LEMMA WithoutOK ==
    ASSUME Listing(queue), NEW i \in Queued
    PROVE  /\ Listing(Without(i))
           /\ Range(Without(i)) = Queued \ {i}
           /\ Len(Without(i)) = Len(queue) - 1
  <1> DEFINE k == CHOOSE j \in DOMAIN queue : queue[j] = i
             q == RemoveAt(queue, k)
  <1>1. k \in DOMAIN queue /\ queue[k] = i
    BY DEF Queued, Range
  <1>2. Without(i) = q
    BY DEF Without
  <1> HIDE DEF k
  <1>3. /\ queue \in Seq(Item) /\ Len(queue) \in Nat /\ DOMAIN queue = 1..Len(queue)
        /\ k \in 1..Len(queue)
    BY <1>1 DEF Listing
  <1>4. /\ q \in Seq(Item) /\ Len(q) = Len(queue) - 1 /\ DOMAIN q = 1..(Len(queue) - 1)
        /\ \A j \in 1..(Len(queue) - 1) : q[j] = IF j < k THEN queue[j] ELSE queue[j + 1]
    <2>1. /\ q \in Seq(Item) /\ Len(q) = Len(queue) - 1
          /\ \A j \in 1..(Len(queue) - 1) : q[j] = IF j < k THEN queue[j] ELSE queue[j + 1]
      BY <1>3, RemoveAtProperties
    <2> QED
      BY <2>1
  <1> HIDE DEF q
  <1> DEFINE was(j) == IF j < k THEN j ELSE j + 1
  <1>5. \A j \in DOMAIN q : was(j) \in DOMAIN queue \ {k} /\ q[j] = queue[was(j)]
    BY <1>3, <1>4
  <1>6. \A x, y \in DOMAIN queue : queue[x] = queue[y] => x = y
    BY DEF Listing, IsInjective
  <1>7. IsInjective(q)
    <2> SUFFICES ASSUME NEW x \in DOMAIN q, NEW y \in DOMAIN q, q[x] = q[y] PROVE x = y
      BY DEF IsInjective
    <2>1. was(x) = was(y)
      BY <1>5, <1>6
    <2> QED
      BY <2>1, <1>3, <1>4
  <1>8. Range(q) \subseteq Queued \ {i}
    BY <1>1, <1>5, <1>6 DEF Range, Queued
  <1>9. ASSUME NEW x \in DOMAIN queue, x # k PROVE queue[x] \in Range(q)
    <2> DEFINE y == IF x < k THEN x ELSE x - 1
    <2>1. y \in DOMAIN q /\ was(y) = x
      BY <1>3, <1>4, <1>9
    <2> QED
      BY <2>1, <1>5 DEF Range
  <1>10. Queued \ {i} \subseteq Range(q)
    BY <1>1, <1>9 DEF Range, Queued
  <1> QED
    BY <1>2, <1>4, <1>7, <1>8, <1>10 DEF Listing

\* A new row comes last.
LEMMA AppendOK ==
    ASSUME Listing(queue), NEW i \in Item, i \notin Queued
    PROVE  /\ Listing(Append(queue, i))
           /\ Range(Append(queue, i)) = Queued \cup {i}
           /\ Len(Append(queue, i)) = Len(queue) + 1
           /\ queue # <<>> => Head(Append(queue, i)) = Head(queue)
  <1> DEFINE q == Append(queue, i)
  <1>1. queue \in Seq(Item) /\ Len(queue) \in Nat /\ DOMAIN queue = 1..Len(queue)
    BY DEF Listing
  <1>2. /\ q \in Seq(Item) /\ Len(q) = Len(queue) + 1 /\ DOMAIN q = 1..(Len(queue) + 1)
        /\ \A j \in DOMAIN queue : q[j] = queue[j]
        /\ q[Len(queue) + 1] = i
    BY <1>1, AppendProperties
  <1>3. queue # <<>> => Head(q) = Head(queue)
    BY <1>1
  <1> HIDE DEF q
  <1>4. \A j \in DOMAIN q : j \in DOMAIN queue \/ j = Len(queue) + 1
    BY <1>1, <1>2
  <1>5. Len(queue) + 1 \in DOMAIN q /\ DOMAIN queue \subseteq DOMAIN q
    BY <1>1, <1>2
  <1>6. Range(q) = Queued \cup {i}
    BY <1>2, <1>4, <1>5 DEF Range, Queued
  <1>7. \A j \in DOMAIN queue : queue[j] # i
    BY DEF Queued, Range
  <1>8. IsInjective(q)
    BY <1>2, <1>4, <1>7 DEF IsInjective, Listing
  <1> QED
    BY <1>2, <1>3, <1>6, <1>8 DEF Listing, q

\* An order of the same length that names every row names none twice.
LEMMA ReorderOK ==
    ASSUME Listing(queue), NEW order \in [1..Len(queue) -> Queued], Range(order) = Queued
    PROVE  Listing(order)
  <1> DEFINE D == 1..Len(queue)
  <1>1. queue \in Seq(Item) /\ Len(queue) \in Nat /\ DOMAIN queue = D
    BY DEF Listing
  <1>2. IsFiniteSet(D)
    BY <1>1, FS_Interval
  <1>3. queue \in Surjection(D, Queued) /\ queue \in Injection(D, Queued)
    BY <1>1 DEF Listing, Queued, Range, Surjection, Injection, IsInjective
  <1>4. order \in Surjection(D, Queued)
    BY DEF Range, Surjection
  <1> HIDE DEF D
  <1>5. Cardinality(Queued) = Cardinality(D)
    BY <1>2, <1>3, FS_Surjection
  <1>6. order \in Injection(D, Queued)
    BY <1>2, <1>4, <1>5, FS_Surjection
  <1>7. Queued \subseteq Item
    BY <1>1 DEF Queued, Range
  <1> QED
    BY <1>1, <1>6, <1>7 DEF Listing, Injection, IsInjective, D
-----------------------------------------------------------------------------
(* The dispatch guard *)

\* The guard is with the task that has read a row, whose row is still queued.
GuardHeld ==
    \A t \in Task :
        /\ at[t] \in {"read", "started"} <=> guard = t
        /\ at[t] \in {"read", "started"} => held[t] \in Row /\ held[t].item \in Queued

\* Nobody has edited or overtaken the row that a task has read.
RowCurrent ==
    \A t \in Task : at[t] = "read" =>
        /\ held[t].payload = payload[held[t].item]
        /\ ~held[t].asked => held[t].item = Head(queue)

\* A row that has started is no longer counted as waiting.
StartedBegun ==
    \A t \in Task : at[t] = "started" => held[t].item \in begun

\* The tasks of an app-server end with it.
NoneWhenDown == ~up => \A t \in Task : at[t] = "free"

DispatchInv == TypeOK /\ GuardHeld /\ RowCurrent /\ StartedBegun

QueueInv == DispatchInv /\ NoneWhenDown

\* A step of a task that works on no row, before or after it.
Aside(t) == at[t] \notin {"read", "started"} /\ at'[t] \notin {"read", "started"}

LEMMA InitInv == Init => QueueInv
  <1> SUFFICES ASSUME Init PROVE QueueInv
    OBVIOUS
  <1>1. queue = <<>> /\ queue \in Seq(Item) /\ Len(queue) = 0 /\ IsInjective(queue)
    BY DEF Init, IsInjective
  <1>2. TypeOK
    <2>1. 0 \in 0..MaxEdits /\ 0 \in 0..MaxFaults /\ 0 <= MAX_QUEUE_ITEMS
      BY QueueAssumption
    <2> QED
      BY <1>1, <2>1 DEF Init, TypeOK
  <1> QED
    BY <1>2, QueueAssumption DEF Init, QueueInv, DispatchInv, GuardHeld, RowCurrent, StartedBegun, NoneWhenDown

\* The facts of TypeOK about the rows.
LEMMA Rows ==
    ASSUME TypeOK
    PROVE  /\ Listing(queue) /\ Len(queue) \in Nat /\ Queued \subseteq Item
           /\ \A i \in Queued, b \in BOOLEAN : RowOf(i, b) \in Row
           /\ queue # <<>> => Head(queue) \in Queued
  <1>1. Listing(queue) /\ Len(queue) \in Nat /\ DOMAIN queue = 1..Len(queue)
    BY DEF TypeOK, Listing
  <1>2. Queued \subseteq Item
    BY <1>1 DEF TypeOK, Queued, Range
  <1>3. \A i \in Queued, b \in BOOLEAN : RowOf(i, b) \in Row
    BY <1>2 DEF TypeOK, RowOf, Row
  <1>4. queue # <<>> => Head(queue) \in Queued
    <2> SUFFICES ASSUME queue # <<>> PROVE Head(queue) \in Queued
      OBVIOUS
    <2>1. 1 \in DOMAIN queue /\ Head(queue) = queue[1]
      BY <1>1 DEF Listing
    <2> QED
      BY <2>1 DEF Queued, Range
  <1> QED
    BY <1>1, <1>2, <1>3, <1>4

\* A row that is deleted leaves a shorter list; the first of what is left, if any,
\* is one of the others.
LEMMA Deleted ==
    ASSUME TypeOK, NEW i \in Queued, queue' = Without(i)
    PROVE  /\ Listing(queue') /\ Queued' = Queued \ {i} /\ Len(queue') <= MAX_QUEUE_ITEMS
           /\ queue' # <<>> => Head(queue') \in Queued \ {i}
  <1>1. Listing(queue) /\ Len(queue) \in Nat
    BY Rows
  <1>2. Listing(queue') /\ Range(queue') = Queued \ {i} /\ Len(queue') = Len(queue) - 1
    BY <1>1, WithoutOK
  <1>3. Queued' = Queued \ {i} /\ Len(queue') <= MAX_QUEUE_ITEMS
    BY <1>1, <1>2, QueueAssumption DEF Queued, TypeOK
  <1>4. queue' # <<>> => Head(queue') \in Range(queue')
    <2> SUFFICES ASSUME queue' # <<>> PROVE Head(queue') \in Range(queue')
      OBVIOUS
    <2>1. queue' \in Seq(Item)
      BY <1>2 DEF Listing
    <2>2. 1 \in DOMAIN queue' /\ Head(queue') = queue'[1]
      BY <2>1
    <2> QED
      BY <2>2 DEF Range
  <1> QED
    BY <1>2, <1>3, <1>4

\* A row that is inserted is the last, and is within the limit.
LEMMA Inserted ==
    ASSUME TypeOK, NEW i \in Item, Insert(i)
    PROVE  /\ Listing(queue') /\ Queued' = Queued \cup {i} /\ Len(queue') <= MAX_QUEUE_ITEMS
           /\ queue # <<>> => Head(queue') = Head(queue)
           /\ i \notin Queued
  <1>1. Listing(queue) /\ Len(queue) \in Nat
    BY Rows
  <1>2. i \notin Queued /\ queue' = Append(queue, i) /\ Len(queue) < MAX_QUEUE_ITEMS
    BY DEF Insert
  <1>3. /\ Listing(queue') /\ Range(queue') = Queued \cup {i} /\ Len(queue') = Len(queue) + 1
        /\ queue # <<>> => Head(queue') = Head(queue)
    BY <1>1, <1>2, AppendOK
  <1> QED
    BY <1>1, <1>2, <1>3, QueueAssumption DEF Queued

LEMMA InsertStep ==
    ASSUME DispatchInv, NEW i \in Item, Insert(i),
           \/ UNCHANGED <<guard, at>>
           \/ \E t \in Task : Enters(t) /\ Goto(t, "wake") /\ UNCHANGED guard
    PROVE  DispatchInv'
  <1>1. /\ Listing(queue') /\ Queued' = Queued \cup {i} /\ Len(queue') <= MAX_QUEUE_ITEMS
        /\ queue # <<>> => Head(queue') = Head(queue)
    BY Inserted DEF DispatchInv
  <1>2. TypeOK'
    BY <1>1 DEF DispatchInv, TypeOK, Listing, Insert, Goto, history
  <1>3. \A t \in Task : at'[t] = at[t] \/ (at[t] = "free" /\ at'[t] = "wake")
    BY DEF DispatchInv, TypeOK, Enters, Goto
  <1>4. guard' = guard /\ held' = held /\ payload' = payload /\ begun' = begun
    BY DEF Insert, history
  <1>5. GuardHeld'
    BY <1>1, <1>3, <1>4 DEF DispatchInv, GuardHeld
  <1>6. Queued # {} => queue # <<>>
    BY DEF Queued, Range
  <1> QED
    BY <1>1, <1>2, <1>3, <1>4, <1>5, <1>6
    DEF DispatchInv, GuardHeld, RowCurrent, StartedBegun

\* While the guard is free no task works on a row; while one does no other does.
LEMMA GuardExcludes ==
    ASSUME DispatchInv
    PROVE  /\ guard = NoTask => \A t \in Task : at[t] \notin {"read", "started"}
           /\ \A t, u \in Task : at[t] \in {"read", "started"} /\ u # t
                                   => at[u] \notin {"read", "started"}
  BY QueueAssumption DEF DispatchInv, GuardHeld

\* Requests that edit the rows under the guard.
LEMMA EditStep ==
    ASSUME DispatchInv, NEW t \in Task,
           \/ \E i \in Item : Update(t, i) \/ Delete(t, i)
           \/ \E order \in [1..Len(queue) -> Queued] : Reorder(t, order)
    PROVE  DispatchInv'
  <1>1. /\ guard = NoTask
        /\ UNCHANGED <<interrupted, up, turn, guard, at, held, begun, faults>> /\ dirty' = TRUE
    BY DEF Update, Delete, Reorder, Enters, history
  <1>2. \A u \in Task : at'[u] \notin {"read", "started"} /\ guard' # u
    BY <1>1, GuardExcludes, QueueAssumption
  <1>3. TypeOK'
    <2>1. CASE \E i \in Item : Update(t, i)
      BY <2>1, QueueAssumption DEF Update, DispatchInv, TypeOK, history
    <2>2. CASE \E i \in Item : Delete(t, i)
      <3>1. PICK i \in Item : Delete(t, i)
        BY <2>2
      <3>2. Listing(queue') /\ Len(queue') <= MAX_QUEUE_ITEMS
        BY <3>1, Deleted DEF DispatchInv, Delete
      <3> QED
        BY <1>1, <3>1, <3>2 DEF Delete, DispatchInv, TypeOK, Listing
    <2>3. CASE \E order \in [1..Len(queue) -> Queued] : Reorder(t, order)
      <3>1. PICK order \in [1..Len(queue) -> Queued] : Reorder(t, order)
        BY <2>3
      <3>2. Listing(queue)
        BY Rows DEF DispatchInv
      <3>3. Listing(queue')
        BY <3>1, <3>2, ReorderOK DEF Reorder
      <3> QED
        BY <1>1, <3>1, <3>3 DEF Reorder, DispatchInv, TypeOK, Listing, history
    <2> QED
      BY <2>1, <2>2, <2>3
  <1> QED
    BY <1>2, <1>3 DEF DispatchInv, GuardHeld, RowCurrent, StartedBegun

\* A task takes the guard and reads a row, by request or as the head.
LEMMA ReadStep ==
    ASSUME DispatchInv, NEW t \in Task, NEW i \in Queued, NEW b \in BOOLEAN, guard = NoTask,
           guard' = t, held' = [held EXCEPT ![t] = RowOf(i, b)], Goto(t, "read"),
           ~b => i = Head(queue),
           UNCHANGED <<rows, interrupted, up, turn, dirty, history, faults>>
    PROVE  DispatchInv'
  <1>1. RowOf(i, b) \in Row
    BY Rows DEF DispatchInv
  <1>2. /\ RowOf(i, b).item = i /\ RowOf(i, b).payload = payload[i] /\ RowOf(i, b).asked = b
    BY DEF RowOf
  <1>3. TypeOK'
    BY <1>1 DEF DispatchInv, TypeOK, Goto, rows, history
  <1>4. /\ at'[t] = "read" /\ held'[t] = RowOf(i, b)
        /\ \A u \in Task : u # t => at'[u] \notin {"read", "started"}
    BY GuardExcludes DEF DispatchInv, TypeOK, Goto
  <1>5. queue' = queue /\ payload' = payload /\ Queued' = Queued
    BY DEF rows, Queued
  <1> HIDE DEF RowOf
  <1> QED
    BY <1>1, <1>2, <1>3, <1>4, <1>5 DEF DispatchInv, GuardHeld, RowCurrent, StartedBegun

\* A task that works on no row goes somewhere else that is none of it.
LEMMA MoveStep ==
    ASSUME DispatchInv, UNCHANGED <<rows, guard, held, begun, withdrawn>>,
           \A t \in Task : at'[t] = at[t] \/ Aside(t),
           TypeOK'
    PROVE  DispatchInv'
  <1>1. queue' = queue /\ payload' = payload /\ Queued' = Queued
    BY DEF rows, Queued
  <1> QED
    BY <1>1 DEF DispatchInv, GuardHeld, RowCurrent, StartedBegun, Aside

\* The task that worked on a row drops the guard.
LEMMA LeaveStep ==
    ASSUME DispatchInv, NEW t \in Task, guard \in {t, NoTask}, Leave(t), TypeOK'
    PROVE  DispatchInv'
  <1>1. \A u \in Task : at'[u] \notin {"read", "started"} /\ guard' # u
    BY GuardExcludes, QueueAssumption DEF DispatchInv, GuardHeld, TypeOK, Leave, Goto
  <1> QED
    BY <1>1 DEF DispatchInv, GuardHeld, RowCurrent, StartedBegun

\* Leaving keeps the types of what it changes.
LEMMA LeaveTypes ==
    ASSUME TypeOK, NEW t \in Task, Leave(t)
    PROVE  /\ guard' \in Task \cup {NoTask}
           /\ at' \in [Task -> {"free", "wake", "idle", "read", "started"}]
           /\ held' \in [Task -> Row \cup {NoRow}]
  BY DEF TypeOK, Leave, Goto

LEMMA DispatchStep ==
    ASSUME DispatchInv, NEW t \in Task, DispatchHead(t) \/ DiscardInvalid(t)
    PROVE  DispatchInv'
  <1>1. CASE DispatchHead(t)
    <2>1. CASE queue = <<>>
      <3>1. Leave(t) /\ guard = NoTask
        BY <1>1, <2>1 DEF DispatchHead
      <3>2. TypeOK'
        BY <1>1, <3>1, LeaveTypes DEF DispatchHead, DispatchInv, TypeOK, rows, history
      <3> QED
        BY <3>1, <3>2, LeaveStep
    <2>2. CASE queue # <<>>
      <3>1. Head(queue) \in Queued
        BY <2>2, Rows DEF DispatchInv
      <3> QED
        BY <1>1, <2>2, <3>1, ReadStep DEF DispatchHead
    <2> QED
      BY <2>1, <2>2
  <1>2. CASE DiscardInvalid(t)
    <2> DEFINE i == held[t].item
    <2>1. i \in Queued /\ guard = t /\ queue' = Without(i) /\ at[t] = "read"
      BY <1>2 DEF DiscardInvalid, DispatchInv, GuardHeld
    <2>2. /\ Listing(queue') /\ Queued' = Queued \ {i} /\ Len(queue') <= MAX_QUEUE_ITEMS
          /\ queue' # <<>> => Head(queue') \in Queued \ {i}
      BY <2>1, Deleted DEF DispatchInv
    <2>3. i \in Item /\ withdrawn' = withdrawn \cup {i} /\ dirty' = TRUE
          /\ UNCHANGED <<payload, interrupted, up, turn, begun, faults>>
      BY <1>2, <2>1, Rows DEF DiscardInvalid, DispatchInv
    <2>4. CASE queue' = <<>>
      <3>1. Leave(t)
        BY <1>2, <2>4 DEF DiscardInvalid
      <3>2. TypeOK'
        BY <2>2, <2>3, <3>1, LeaveTypes DEF DispatchInv, TypeOK, Listing
      <3> QED
        BY <2>1, <3>1, <3>2, LeaveStep
    <2>5. CASE queue' # <<>>
      <3> DEFINE h == Head(queue')
      <3>1. h \in Queued \ {i}
        BY <2>2, <2>5
      <3>2. held' = [held EXCEPT ![t] = RowOf(h, FALSE)] /\ UNCHANGED <<guard, at>>
        BY <1>2, <2>5 DEF DiscardInvalid
      <3> HIDE DEF h
      <3>3. /\ RowOf(h, FALSE) \in Row /\ RowOf(h, FALSE).item = h
            /\ RowOf(h, FALSE).payload = payload[h]
        BY <3>1, Rows DEF DispatchInv, RowOf
      <3> HIDE DEF i, RowOf
      <3>4. TypeOK'
        BY <2>2, <2>3, <3>2, <3>3 DEF DispatchInv, TypeOK, Listing
      <3>5. /\ held'[t] = RowOf(h, FALSE) /\ at'[t] = "read" /\ guard' = t
            /\ \A u \in Task : u # t => at'[u] \notin {"read", "started"}
        BY <2>1, <3>2, GuardExcludes DEF DispatchInv, TypeOK
      <3>6. GuardHeld'
        BY <2>2, <3>1, <3>3, <3>5 DEF GuardHeld
      <3>7. RowCurrent'
        BY <2>3, <3>3, <3>5 DEF RowCurrent, h
      <3> QED
        BY <3>4, <3>5, <3>6, <3>7 DEF DispatchInv, StartedBegun
    <2> QED
      BY <2>4, <2>5
  <1> QED
    BY <1>1, <1>2

\* A row starts; its deletion succeeds, or fails.
LEMMA StartStep ==
    ASSUME DispatchInv, NEW t \in Task,
           \/ StartAccepted(t) \/ StartDeclined(t) \/ StartFails(t)
           \/ RemoveStarted(t) \/ RemoveFails(t)
    PROVE  DispatchInv'
  <1>1. guard = t /\ held[t] \in Row /\ held[t].item \in Queued /\ held[t].item \in Item
    BY Rows DEF StartAccepted, StartDeclined, StartFails, RemoveStarted, RemoveFails,
                DispatchInv, GuardHeld
  <1>2. CASE StartAccepted(t)
    <2>1. TypeOK'
      BY <1>1, <1>2 DEF StartAccepted, DispatchInv, TypeOK, Goto, rows
    <2>2. queue' = queue /\ Queued' = Queued /\ held' = held /\ guard' = guard
          /\ payload' = payload
      BY <1>2 DEF StartAccepted, rows, Queued
    <2>3. /\ at'[t] = "started" /\ at[t] = "read"
          /\ \A u \in Task : u # t => at'[u] = at[u] /\ at[u] \notin {"read", "started"}
      BY <1>2, GuardExcludes DEF StartAccepted, Goto, DispatchInv, TypeOK
    <2>4. held[t].item \in begun'
      BY <1>2 DEF StartAccepted
    <2> QED
      BY <1>1, <2>1, <2>2, <2>3, <2>4 DEF DispatchInv, GuardHeld, RowCurrent, StartedBegun
  <1>3. CASE StartDeclined(t) \/ StartFails(t) \/ RemoveFails(t)
    <2>1. Leave(t)
      BY <1>3 DEF StartDeclined, StartFails, RemoveFails
    <2>2. begun' \subseteq Item /\ faults' \in 0..MaxFaults
      BY <1>3, QueueAssumption
      DEF StartDeclined, StartFails, RemoveFails, Fault, DispatchInv, TypeOK, history
    <2>3. UNCHANGED <<queue, payload, interrupted, up, turn, dirty, withdrawn>>
      BY <1>3 DEF StartDeclined, StartFails, RemoveFails, rows, history
    <2>4. TypeOK'
      BY <2>1, <2>2, <2>3, LeaveTypes DEF DispatchInv, TypeOK
    <2> QED
      BY <1>1, <2>1, <2>4, LeaveStep
  <1>4. CASE RemoveStarted(t)
    <2>1. Listing(queue') /\ Len(queue') <= MAX_QUEUE_ITEMS
      BY <1>1, <1>4, Deleted DEF RemoveStarted, DispatchInv
    <2>2. TypeOK'
      BY <1>4, <2>1, LeaveTypes DEF RemoveStarted, DispatchInv, TypeOK, Listing, history
    <2> QED
      BY <1>1, <1>4, <2>2, LeaveStep DEF RemoveStarted
  <1> QED
    BY <1>2, <1>3, <1>4

LEMMA DispatchInvStep ==
    ASSUME DispatchInv, NoneWhenDown, [Next]_vars
    PROVE  DispatchInv'
  <1>1. ASSUME NEW t \in Task, NEW i \in Item, Enqueue(t, i) PROVE DispatchInv'
    BY <1>1, InsertStep DEF Enqueue
  <1>2. ASSUME NEW i \in Item, ExternalEnqueue(i) PROVE DispatchInv'
    BY <1>2, InsertStep DEF ExternalEnqueue
  <1>3. ASSUME NEW t \in Task,
               \/ \E i \in Item : Update(t, i) \/ Delete(t, i)
               \/ \E order \in [1..Len(queue) -> Queued] : Reorder(t, order)
        PROVE  DispatchInv'
    BY <1>3, EditStep
  <1>4. ASSUME NEW t \in Task, NEW i \in Item, StartRequest(t, i) PROVE DispatchInv'
    BY <1>4, ReadStep DEF StartRequest, Enters
  <1>5. ASSUME NEW t \in Task, Wake(t) \/ Watch(t) \/ Resume(t) PROVE DispatchInv'
    <2>1. TypeOK'
      BY <1>5 DEF Wake, Watch, Resume, Goto, DispatchInv, TypeOK, rows, history
    <2>2. \A u \in Task : at'[u] = at[u] \/ Aside(u)
      BY <1>5 DEF Wake, Watch, Resume, Goto, DispatchInv, TypeOK, NoneWhenDown, Aside
    <2> QED
      BY <1>5, <2>1, <2>2, MoveStep DEF Wake, Watch, Resume, history
  <1>6. ASSUME NEW t \in Task, DispatchHead(t) \/ DiscardInvalid(t) PROVE DispatchInv'
    BY <1>6, DispatchStep
  <1>7. ASSUME NEW t \in Task,
               \/ StartAccepted(t) \/ StartDeclined(t) \/ StartFails(t)
               \/ RemoveStarted(t) \/ RemoveFails(t)
        PROVE  DispatchInv'
    BY <1>7, StartStep
  <1>8. ASSUME NEW t \in Task, NEW how \in {"completed", "failed", "interrupted"}, TurnEnds(t, how)
        PROVE  DispatchInv'
    <2>1. TypeOK'
      BY <1>8 DEF TurnEnds, Goto, DispatchInv, TypeOK, rows, history
    <2>2. \A u \in Task : at'[u] = at[u] \/ Aside(u)
      BY <1>8 DEF TurnEnds, Goto, DispatchInv, TypeOK, Aside
    <2> QED
      BY <1>8, <2>1, <2>2, MoveStep DEF TurnEnds, history
  <1>9. CASE StartLive
    <2>1. TypeOK'
      BY <1>9 DEF StartLive, DispatchInv, TypeOK, rows, history
    <2> QED
      BY <1>9, <2>1, MoveStep DEF StartLive, history
  <1>10. CASE Crash
    <2>1. TypeOK'
      <3>1. begun' \subseteq Item /\ faults' \in 0..MaxFaults
        BY <1>10, QueueAssumption DEF Crash, Fault, DispatchInv, TypeOK
      <3>2. /\ at' \in [Task -> {"free", "wake", "idle", "read", "started"}]
            /\ held' \in [Task -> Row \cup {NoRow}]
        BY <1>10 DEF Crash
      <3> QED
        BY <1>10, <3>1, <3>2 DEF Crash, DispatchInv, TypeOK, rows
    <2>2. \A t \in Task : at'[t] = "free" /\ guard' # t
      BY <1>10, QueueAssumption DEF Crash
    <2> QED
      BY <2>1, <2>2 DEF DispatchInv, GuardHeld, RowCurrent, StartedBegun
  <1>11. CASE UNCHANGED vars
    BY <1>11 DEF vars, DispatchInv, TypeOK, GuardHeld, RowCurrent, StartedBegun, Queued
  <1> QED
    BY <1>1, <1>2, <1>3, <1>4, <1>5, <1>6, <1>7, <1>8, <1>9, <1>10, <1>11 DEF Next, Step

\* Only a task of an app-server that is up leaves "free".
LEMMA DownStep ==
    ASSUME TypeOK, NoneWhenDown, [Next]_vars
    PROVE  NoneWhenDown'
  <1> SUFFICES ASSUME ~up' PROVE \A t \in Task : at'[t] = "free"
    BY DEF NoneWhenDown
  <1> USE DEF NoneWhenDown, TypeOK
  <1>1. CASE Crash
    BY <1>1 DEF Crash
  <1>2. ASSUME NEW t \in Task, NEW i \in Item,
               Enqueue(t, i) \/ Update(t, i) \/ Delete(t, i) \/ StartRequest(t, i)
        PROVE  FALSE
    BY <1>2 DEF Enqueue, Update, Delete, StartRequest, Enters, Insert
  <1>3. ASSUME NEW t \in Task, NEW order, Reorder(t, order) PROVE FALSE
    BY <1>3 DEF Reorder, Enters
  <1>4. ASSUME NEW i \in Item, ExternalEnqueue(i) PROVE UNCHANGED <<up, at>>
    BY <1>4 DEF ExternalEnqueue, Insert
  <1>5. ASSUME NEW t \in Task, Step(t) \/ StartFails(t) \/ RemoveFails(t) \/ Watch(t) \/ Resume(t)
        PROVE  FALSE
    BY <1>5 DEF Step, Wake, DispatchHead, DiscardInvalid, StartAccepted, StartDeclined,
                RemoveStarted, StartFails, RemoveFails, Watch, Resume
  <1>6. ASSUME NEW t \in Task, NEW how, TurnEnds(t, how) PROVE FALSE
    BY <1>6 DEF TurnEnds
  <1>7. CASE StartLive \/ UNCHANGED vars
    BY <1>7 DEF StartLive, vars
  <1> QED
    BY <1>1, <1>2, <1>3, <1>4, <1>5, <1>6, <1>7 DEF Next

LEMMA QueueStep == QueueInv /\ [Next]_vars => QueueInv'
  BY DispatchInvStep, DownStep DEF QueueInv, DispatchInv

\* The inductive invariant holds of every behaviour of the queue.
THEOREM QueueInvariant == Spec => []QueueInv
  BY InitInv, QueueStep, PTL DEF Spec

(***************************************************************************)
(* The rows and the tasks stay within their types: no row is listed twice, *)
(* and there are never more than MAX_QUEUE_ITEMS (queued_items.rs          *)
(* enqueue, reorder).                                                      *)
(***************************************************************************)
THEOREM QueueTypeOK == Spec => []TypeOK
  <1>1. QueueInv => TypeOK
    BY DEF QueueInv, DispatchInv
  <1> QED
    BY QueueInvariant, <1>1, PTL

(***************************************************************************)
(* What a dispatch starts is a row that is still queued, as it was last    *)
(* edited, and without a request the first of the queue (service.rs start, *)
(* dispatch_if_idle).                                                      *)
(***************************************************************************)
THEOREM QueueStartsWhatIsQueued == Spec => StartsWhatIsQueued
  <1>1. QueueInv /\ [Next]_vars =>
           [\A t \in Task : at[t] = "read" /\ at'[t] = "started" =>
               LET row == held[t] IN
               /\ row.item \in Queued
               /\ row.payload = payload[row.item]
               /\ ~row.asked => row.item = Head(queue)]_vars
    BY DEF QueueInv, DispatchInv, GuardHeld, RowCurrent
  <1> QED
    BY QueueInvariant, <1>1, PTL DEF Spec, StartsWhatIsQueued
-----------------------------------------------------------------------------
(* Refinement of QueueContract *)

\* The rows that wait, as the refinement mapping has them.
Waiting == Queued \ {held[t].item : t \in {u \in Task : at[u] = "started"}}

\* At most one row is started and listed.
LEMMA WaitingIs ==
    ASSUME DispatchInv
    PROVE  /\ guard = NoTask => Waiting = Queued
           /\ \A t \in Task : at[t] = "read" => Waiting = Queued
           /\ \A t \in Task : at[t] = "started" => Waiting = Queued \ {held[t].item}
  BY GuardExcludes DEF Waiting

\* The same after a step.
LEMMA WaitingWillBe ==
    ASSUME DispatchInv'
    PROVE  /\ guard' = NoTask => Waiting' = Queued'
           /\ \A t \in Task : at'[t] = "read" => Waiting' = Queued'
           /\ \A t \in Task : at'[t] = "started" => Waiting' = Queued' \ {held'[t].item}
  BY QueueAssumption DEF Waiting, DispatchInv, GuardHeld

\* Every step of the queue is a step that the contract allows, or none of it.
LEMMA ContractStep ==
    ASSUME DispatchInv, DispatchInv', NoneWhenDown, [Next]_vars
    PROVE  [Contract!Next]_(Contract!vars)
  <1> USE DEF Contract!Next, Contract!vars, Contract!Submit, Contract!Withdraw, Contract!Begin,
              Contract!BeginLive, Contract!End, Contract!Redo
  <1> DEFINE Still == Waiting' = Waiting /\ UNCHANGED <<begun, withdrawn, turn>>
  <1>1. Still => [Contract!Next]_(Contract!vars)
    BY DEF Waiting
  <1>2. ASSUME NEW i \in Item, Insert(i), UNCHANGED guard,
               \A t \in Task : at'[t] = at[t] \/ Aside(t)
        PROVE  [Contract!Next]_(Contract!vars)
    <2>1. /\ Queued' = Queued \cup {i} /\ i \notin Queued \cup begun \cup withdrawn
          /\ UNCHANGED <<held, begun, withdrawn, turn>>
      BY <1>2, Inserted DEF DispatchInv, Insert, history
    <2>2. \A t \in Task : at[t] = "started" => held[t].item # i
      BY <2>1 DEF DispatchInv, GuardHeld
    <2>3. \A t \in Task : at[t] = "started" <=> at'[t] = "started"
      BY <1>2 DEF Aside
    <2>4. Waiting' = Waiting \cup {i} /\ i \notin Waiting
      BY <2>1, <2>2, <2>3 DEF Waiting
    <2> QED
      BY <2>1, <2>4 DEF Waiting
  <1>3. ASSUME NEW t \in Task, NEW i \in Item, Enqueue(t, i) PROVE [Contract!Next]_(Contract!vars)
    <2>1. \A u \in Task : at'[u] = at[u] \/ Aside(u)
      BY <1>3 DEF Enqueue, Enters, Goto, DispatchInv, TypeOK, Aside
    <2> QED
      BY <1>2, <1>3, <2>1 DEF Enqueue
  <1>4. ASSUME NEW i \in Item, ExternalEnqueue(i) PROVE [Contract!Next]_(Contract!vars)
    BY <1>2, <1>4 DEF ExternalEnqueue
  <1>5. ASSUME NEW t \in Task, NEW i \in Item, Delete(t, i) PROVE [Contract!Next]_(Contract!vars)
    <2>1. /\ Queued' = Queued \ {i} /\ i \in Queued /\ guard = NoTask /\ guard' = NoTask
          /\ withdrawn' = withdrawn \cup {i} /\ UNCHANGED <<begun, turn>>
      BY <1>5, Deleted DEF DispatchInv, Delete, Enters
    <2>2. Waiting' = Waiting \ {i} /\ i \in Waiting
      BY <2>1, WaitingIs, WaitingWillBe
    <2> QED
      BY <2>1, <2>2 DEF Waiting
  <1>6. ASSUME NEW t \in Task, DiscardInvalid(t) PROVE [Contract!Next]_(Contract!vars)
    <2> DEFINE i == held[t].item
    <2>1. /\ i \in Queued /\ at[t] = "read" /\ queue' = Without(i)
          /\ withdrawn' = withdrawn \cup {i} /\ UNCHANGED <<begun, turn>>
      BY <1>6 DEF DispatchInv, GuardHeld, DiscardInvalid
    <2>2. Queued' = Queued \ {i} /\ i \in Item
      BY <2>1, Deleted, Rows DEF DispatchInv
    <2>3. guard' = NoTask \/ at'[t] = "read"
      BY <1>6 DEF DiscardInvalid, Leave
    <2>4. Waiting' = Waiting \ {i} /\ i \in Waiting
      BY <2>1, <2>2, <2>3, WaitingIs, WaitingWillBe
    <2> QED
      BY <2>1, <2>2, <2>4 DEF Waiting
  <1>7. ASSUME NEW t \in Task, StartAccepted(t) PROVE [Contract!Next]_(Contract!vars)
    <2> DEFINE i == held[t].item
    <2>1. /\ i \in Queued /\ at[t] = "read" /\ at'[t] = "started" /\ held' = held /\ queue' = queue
          /\ turn = NoTurn /\ turn' = i /\ begun' = begun \cup {i} /\ withdrawn' = withdrawn
      BY <1>7 DEF DispatchInv, TypeOK, GuardHeld, StartAccepted, Goto, rows
    <2>2. Queued' = Queued /\ i \in Item
      BY <2>1, Rows DEF Queued, DispatchInv
    <2>3. Waiting' = Waiting \ {i} /\ i \in Waiting
      BY <2>1, <2>2, WaitingIs, WaitingWillBe
    <2> QED
      BY <2>1, <2>2, <2>3 DEF Waiting
  <1>8. ASSUME NEW t \in Task, RemoveStarted(t) PROVE [Contract!Next]_(Contract!vars)
    <2>1. /\ held[t].item \in Queued /\ at[t] = "started" /\ guard' = NoTask
          /\ UNCHANGED <<begun, withdrawn, turn>>
      BY <1>8 DEF DispatchInv, GuardHeld, RemoveStarted, Leave, history
    <2>2. Queued' = Queued \ {held[t].item}
      BY <1>8, <2>1, Deleted DEF DispatchInv, RemoveStarted
    <2> QED
      BY <1>1, <2>1, <2>2, WaitingIs, WaitingWillBe
  <1>9. ASSUME NEW t \in Task, RemoveFails(t) PROVE [Contract!Next]_(Contract!vars)
    <2> DEFINE i == held[t].item
    <2>1. /\ i \in Queued /\ i \in begun /\ at[t] = "started" /\ guard' = NoTask
          /\ queue' = queue /\ begun' = begun \ {i} /\ UNCHANGED <<withdrawn, turn>>
      BY <1>9 DEF DispatchInv, GuardHeld, StartedBegun, RemoveFails, Leave, rows
    <2>2. Queued' = Queued /\ i \in Item
      BY <2>1, Rows DEF Queued, DispatchInv
    <2>3. Waiting' = Waiting \cup {i}
      BY <2>1, <2>2, WaitingIs, WaitingWillBe
    <2> QED
      BY <2>1, <2>2, <2>3 DEF Waiting
  <1>10. CASE Crash
    <2>1. /\ guard' = NoTask /\ turn' = NoTurn /\ queue' = queue /\ withdrawn' = withdrawn
          /\ begun' = begun \ {held[t].item : t \in {u \in Task : at[u] = "started"}}
      BY <1>10 DEF Crash, rows
    <2>2. Queued' = Queued /\ Waiting' = Queued
      BY <2>1, WaitingWillBe DEF Queued
    <2>3. CASE \A t \in Task : at[t] # "started"
      <3>1. Waiting' = Waiting /\ begun' = begun
        BY <2>1, <2>2, <2>3 DEF Waiting
      <3> QED
        BY <2>1, <3>1 DEF Waiting
    <2>4. CASE \E t \in Task : at[t] = "started"
      <3>1. PICK t \in Task : at[t] = "started"
        BY <2>4
      <3> DEFINE i == held[t].item
      <3>2. i \in Queued /\ i \in begun /\ i \in Item
        BY <3>1, Rows DEF DispatchInv, GuardHeld, StartedBegun
      <3>3. {held[u].item : u \in {v \in Task : at[v] = "started"}} = {i}
        BY <3>1, GuardExcludes
      <3>4. begun' = begun \ {i} /\ Waiting' = Waiting \cup {i}
        BY <2>1, <2>2, <3>2, <3>3 DEF Waiting
      <3> QED
        BY <2>1, <3>2, <3>4 DEF Waiting
    <2> QED
      BY <2>3, <2>4
  <1>11. ASSUME NEW t \in Task, NEW how, TurnEnds(t, how) PROVE [Contract!Next]_(Contract!vars)
    <2>1. /\ queue' = queue /\ held' = held /\ turn' = NoTurn /\ UNCHANGED <<begun, withdrawn>>
          /\ \A u \in Task : at[u] = "started" <=> at'[u] = "started"
      BY <1>11 DEF TurnEnds, Goto, DispatchInv, TypeOK, rows, history
    <2>2. Waiting' = Waiting
      BY <2>1 DEF Waiting, Queued
    <2> QED
      BY <2>1, <2>2 DEF Waiting
  <1>12. CASE StartLive
    <2>1. UNCHANGED <<queue, held, at, begun, withdrawn>> /\ turn = NoTurn /\ turn' = LiveTurn
      BY <1>12 DEF StartLive, rows, history
    <2>2. Waiting' = Waiting
      BY <2>1 DEF Waiting, Queued
    <2> QED
      BY <2>1, <2>2 DEF Waiting
  <1>13. ASSUME NEW t \in Task, StartDeclined(t) \/ StartFails(t) \/ DispatchHead(t)
         PROVE  [Contract!Next]_(Contract!vars)
    <2>1. /\ queue' = queue /\ UNCHANGED <<begun, withdrawn, turn>>
          /\ guard = NoTask \/ at[t] = "read"
          /\ guard' = NoTask \/ at'[t] = "read"
      BY <1>13 DEF StartDeclined, StartFails, DispatchHead, Leave, Goto, DispatchInv, TypeOK, rows, history
    <2>2. Still
      BY <2>1, WaitingIs, WaitingWillBe DEF Queued
    <2> QED
      BY <1>1, <2>2
  <1>14. ASSUME NEW t \in Task, NEW i \in Item, StartRequest(t, i)
         PROVE  [Contract!Next]_(Contract!vars)
    <2>1. /\ queue' = queue /\ UNCHANGED <<begun, withdrawn, turn>>
          /\ guard = NoTask /\ at'[t] = "read"
      BY <1>14 DEF StartRequest, Enters, Goto, DispatchInv, TypeOK, rows, history
    <2>2. Still
      BY <2>1, WaitingIs, WaitingWillBe DEF Queued
    <2> QED
      BY <1>1, <2>2
  <1>15. ASSUME NEW t \in Task,
                \/ \E i \in Item : Update(t, i)
                \/ \E order \in [1..Len(queue) -> Queued] : Reorder(t, order)
         PROVE  [Contract!Next]_(Contract!vars)
    <2>1. Queued' = Queued /\ UNCHANGED <<held, at, begun, withdrawn, turn>>
      BY <1>15 DEF Update, Reorder, Queued, history
    <2>2. Still
      BY <2>1 DEF Waiting
    <2> QED
      BY <1>1, <2>2
  <1>16. ASSUME NEW t \in Task, Wake(t) \/ Watch(t) \/ Resume(t)
         PROVE  [Contract!Next]_(Contract!vars)
    <2>1. /\ queue' = queue /\ held' = held /\ UNCHANGED <<begun, withdrawn, turn>>
          /\ \A u \in Task : at[u] = "started" <=> at'[u] = "started"
      BY <1>16 DEF Wake, Watch, Resume, Goto, DispatchInv, NoneWhenDown, TypeOK, rows, history
    <2>2. Still
      BY <2>1 DEF Waiting, Queued
    <2> QED
      BY <1>1, <2>2
  <1>17. CASE UNCHANGED vars
    <2>1. Still
      BY <1>17 DEF vars, Waiting, Queued
    <2> QED
      BY <1>1, <2>1
  <1> HIDE DEF Contract!Next, Contract!vars
  <1> QED
    BY <1>3, <1>4, <1>5, <1>6, <1>7, <1>8, <1>9, <1>10, <1>11, <1>12, <1>13, <1>14, <1>15,
       <1>16, <1>17 DEF Next, Step

(***************************************************************************)
(* The queue implements its contract: however requests, dispatches, turn   *)
(* ends, the watcher, failures and crashes interleave, no message is lost, *)
(* starts while another runs, or starts again unless its deletion failed   *)
(* or its host died before it (service.rs, queued_items.rs).               *)
(***************************************************************************)
THEOREM QueueKeepsContract == Spec => KeepsContract
  <1>1. Init => Contract!Init
    BY DEF Init, Contract!Init, Queued, Range
  <1>2. QueueInv /\ QueueInv' /\ [Next]_vars => [Contract!Next]_(Contract!vars)
    BY ContractStep DEF QueueInv
  <1> QED
    BY QueueInvariant, <1>1, <1>2, PTL DEF Spec, KeepsContract, Contract!Spec
=============================================================================
