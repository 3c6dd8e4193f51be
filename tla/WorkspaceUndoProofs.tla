------------------------- MODULE WorkspaceUndoProofs -------------------------
(***************************************************************************)
(* What WorkspaceUndo guarantees of the server's own path (Driver = "l3")  *)
(* for any paths, contents and number of steps: the backups are in order   *)
(* at every moment and a restore that ends has undone the run.             *)
(*                                                                         *)
(* The argument: a path that no entry names is as it was (Logged), an      *)
(* entry says whether its path was there before the run (EntryInv) and a   *)
(* copy is the original (CopyInv), a directory is never taken away         *)
(* (BeforeInv), so undoing one entry does not redo what another undid      *)
(* (RestoreInv).                                                           *)
(***************************************************************************)
EXTENDS WorkspaceUndo, SequenceTheorems, TLAPS

\* What an entry says of its path.
EntryInv ==
    \A k \in 1..Len(entries) :
        /\ ~entries[k].existed => before[entries[k].path] # "dir"
        /\ entries[k].path \notin foreign =>
              (entries[k].existed <=> before[entries[k].path] # "none")

\* The workspace was a tree, and its directories stay.
BeforeInv ==
    /\ before \in [Path -> Content \cup {"none", "dir"}] /\ Tree(before)
    /\ \A p \in Path : before[p] = "dir" => fs[p] = "dir"

\* What no entry names, no step has changed.
Logged == \A p \in Path \ foreign : Names(entries, p) \/ Undone(p)

\* The copies are the originals.
CopyInv ==
    \A p \in Path \ foreign : Names(entries, p) /\ before[p] \in Content =>
        copies[p] = before[p] \/ (p = ManifestPath /\ phase # "run")

\* A restore has undone what it has been through.
RestoreInv ==
    phase = "restore" =>
        \A p \in Path \ (foreign \cup {ManifestPath}) :
            Undone(p) \/ \E k \in 1..left : entries[k].path = p

UndoInv == TypeOK /\ EntryInv /\ BeforeInv /\ Logged /\ CopyInv

FullInv == UndoInv /\ RestoreInv /\ RestoreUndoes
-----------------------------------------------------------------------------
(* Trees *)

\* A path and the directories above it are put into the workspace.
Put(p, c) == [WithParents(p) EXCEPT ![p] = c]

LEMMA PutTree ==
    ASSUME fs \in [Path -> State], Tree(fs), NEW p \in Path, NEW c \in State,
           fs[p] # "dir" \/ c = "dir"
    PROVE  /\ Put(p, c) \in [Path -> State] /\ Tree(Put(p, c))
           /\ Put(p, c)[p] = c
           /\ \A q \in Path : q # p => Put(p, c)[q] = IF q \in Above[p] THEN "dir" ELSE fs[q]
  <1>1. Put(p, c) \in [Path -> State]
    BY DEF Put, WithParents, State
  <1>2. /\ Put(p, c)[p] = c
        /\ \A q \in Path : q # p => Put(p, c)[q] = IF q \in Above[p] THEN "dir" ELSE fs[q]
    BY DEF Put, WithParents
  <1> HIDE DEF Put
  <1>3. Tree(Put(p, c))
    <2> SUFFICES ASSUME NEW r \in Path, Put(p, c)[r] # "none", NEW q \in Above[r]
                 PROVE  Put(p, c)[q] = "dir"
      BY DEF Tree
    <2>1. q \in Path /\ p \notin Above[p] /\ (r \in Above[p] => q \in Above[p])
      BY PathAssumption
    <2>2. CASE r = p
      BY <1>2, <2>1, <2>2
    <2>3. CASE r \in Above[p]
      BY <1>2, <2>1, <2>3
    <2>4. CASE r # p /\ r \notin Above[p]
      <3>1. fs[q] = "dir"
        BY <1>2, <2>4 DEF Tree
      <3> QED
        BY <1>2, <2>1, <3>1
    <2> QED
      BY <2>2, <2>3, <2>4
  <1> QED
    BY <1>1, <1>2, <1>3

\* The directories above a path are made.
LEMMA ParentsTree ==
    ASSUME fs \in [Path -> State], Tree(fs), NEW p \in Path
    PROVE  /\ WithParents(p) \in [Path -> State] /\ Tree(WithParents(p))
           /\ \A q \in Path : WithParents(p)[q] = IF q \in Above[p] THEN "dir" ELSE fs[q]
  <1>1. WithParents(p) \in [Path -> State]
    BY DEF WithParents, State
  <1>2. \A q \in Path : WithParents(p)[q] = IF q \in Above[p] THEN "dir" ELSE fs[q]
    BY DEF WithParents
  <1> HIDE DEF WithParents
  <1>3. Tree(WithParents(p))
    <2> SUFFICES ASSUME NEW r \in Path, WithParents(p)[r] # "none", NEW q \in Above[r]
                 PROVE  WithParents(p)[q] = "dir"
      BY DEF Tree
    <2>1. q \in Path /\ (r \in Above[p] => q \in Above[p])
      BY PathAssumption
    <2> QED
      BY <1>2, <2>1 DEF Tree
  <1> QED
    BY <1>1, <1>2, <1>3

\* A file, or nothing, in a directory becomes something that is no directory.
LEMMA LeafTree ==
    ASSUME fs \in [Path -> State], Tree(fs), NEW p \in Path, NEW c \in State,
           fs[p] # "dir", c = "none" \/ \A q \in Above[p] : fs[q] = "dir"
    PROVE  [fs EXCEPT ![p] = c] \in [Path -> State] /\ Tree([fs EXCEPT ![p] = c])
  <1> DEFINE g == [fs EXCEPT ![p] = c]
  <1>1. g \in [Path -> State] /\ g[p] = c /\ \A q \in Path : q # p => g[q] = fs[q]
    OBVIOUS
  <1> HIDE DEF g
  <1>2. Tree(g)
    <2> SUFFICES ASSUME NEW r \in Path, g[r] # "none", NEW q \in Above[r]
                 PROVE  g[q] = "dir"
      BY DEF Tree
    <2>1. q \in Path /\ p \notin Above[p]
      BY PathAssumption
    <2> QED
      BY <1>1, <2>1 DEF Tree
  <1> QED
    BY <1>1, <1>2 DEF g

\* Removing a path with all that is below it.
Pruned(p) == [q \in Path |-> IF q = p \/ p \in Above[q] THEN "none" ELSE fs[q]]

LEMMA PrunedTree ==
    ASSUME fs \in [Path -> State], Tree(fs), NEW p \in Path
    PROVE  Pruned(p) \in [Path -> State] /\ Tree(Pruned(p))
  <1>1. /\ Pruned(p) \in [Path -> State]
        /\ \A q \in Path : Pruned(p)[q] = IF q = p \/ p \in Above[q] THEN "none" ELSE fs[q]
    BY DEF Pruned, State
  <1> HIDE DEF Pruned
  <1>2. Tree(Pruned(p))
    <2> SUFFICES ASSUME NEW r \in Path, Pruned(p)[r] # "none", NEW q \in Above[r]
                 PROVE  Pruned(p)[q] = "dir"
      BY DEF Tree
    <2>1. q \in Path /\ (p \in Above[q] => p \in Above[r])
      BY PathAssumption
    <2> QED
      BY <1>1, <2>1 DEF Tree
  <1> QED
    BY <1>1, <1>2
-----------------------------------------------------------------------------
(* Backups *)

Entries == [path : Path, existed : BOOLEAN]

\* A list of entries that names no path twice.
EntryList(es) ==
    /\ es \in Seq(Entries)
    /\ \A j, k \in 1..Len(es) : es[j].path = es[k].path => j = k

\* Recording a path: the entries so far stay where they are.
LEMMA EnsuredOK ==
    ASSUME NEW es, EntryList(es), NEW p \in Path
    PROVE  /\ EntryList(Ensured(es, p))
           /\ Names(Ensured(es, p), p)
           /\ Len(es) <= Len(Ensured(es, p))
           /\ \A k \in 1..Len(es) : Ensured(es, p)[k] = es[k]
           /\ \A k \in 1..Len(Ensured(es, p)) :
                 k \in 1..Len(es) \/ (~Names(es, p) /\ Ensured(es, p)[k] = Entry(p))
  <1>1. es \in Seq(Entries) /\ Len(es) \in Nat
    BY DEF EntryList
  <1>2. CASE Names(es, p)
    BY <1>1, <1>2 DEF Ensured
  <1>3. CASE ~Names(es, p)
    <2> DEFINE new == Append(es, Entry(p))
    <2>1. Entry(p) \in Entries /\ Entry(p).path = p
      BY DEF Entry, Entries
    <2>2. /\ new \in Seq(Entries) /\ Len(new) = Len(es) + 1
          /\ \A k \in 1..Len(es) : new[k] = es[k]
          /\ new[Len(es) + 1] = Entry(p)
      BY <1>1, <2>1, AppendProperties
    <2>3. Ensured(es, p) = new
      BY <1>3 DEF Ensured
    <2> HIDE DEF new
    <2>4. \A k \in 1..Len(new) : k \in 1..Len(es) \/ k = Len(es) + 1
      BY <1>1, <2>2
    <2>5. Names(new, p)
      BY <1>1, <2>1, <2>2 DEF Names
    <2>6. \A j, k \in 1..Len(new) : new[j].path = new[k].path => j = k
      BY <1>3, <2>1, <2>2, <2>4 DEF EntryList, Names
    <2> QED
      BY <1>1, <1>3, <2>2, <2>3, <2>4, <2>5, <2>6 DEF EntryList
  <1> QED
    BY <1>2, <1>3

\* What backing up the paths of S does to the entries and the copies.
BackedUp(S) ==
    /\ EntryList(entries') /\ Len(entries) <= Len(entries')
    /\ \A k \in 1..Len(entries) : entries'[k] = entries[k]
    /\ \A k \in 1..Len(entries') :
          \/ k \in 1..Len(entries)
          \/ \E r \in S : entries'[k] = Entry(r) /\ ~Names(entries, r) /\ fs[r] # "dir"
    /\ \A r \in S : Names(entries', r)
    /\ copies' \in [Path -> File \cup {"none"}]
    /\ \A r \in Path :
          copies'[r] = IF r \in S /\ ~Names(entries, r) /\ fs[r] # "none" THEN fs[r] ELSE copies[r]

LEMMA BackUpOK ==
    ASSUME Driver = "l3", TypeOK, NEW p \in Path, NEW q \in Path,
           CanBackUp(p), CanBackUp(q), BackUp(p, q)
    PROVE  BackedUp({p, q})
  <1> DEFINE one == Ensured(entries, p)
             two == Ensured(one, q)
  <1>1. EntryList(entries) /\ Len(entries) \in Nat /\ Known = entries
    BY DEF TypeOK, EntryList, Entries, Known
  <1>2. \A r \in {p, q} : Names(entries, r) \/ fs[r] # "dir"
    BY <1>1 DEF CanBackUp, Recorded
  <1>3. entries' = two
    BY <1>1 DEF BackUp
  <1>4. /\ EntryList(one) /\ Names(one, p) /\ Len(entries) <= Len(one)
        /\ \A k \in 1..Len(entries) : one[k] = entries[k]
        /\ \A k \in 1..Len(one) :
              k \in 1..Len(entries) \/ (~Names(entries, p) /\ one[k] = Entry(p))
    BY <1>1, EnsuredOK
  <1> HIDE DEF one
  <1>5. /\ EntryList(two) /\ Names(two, q) /\ Len(one) <= Len(two)
        /\ \A k \in 1..Len(one) : two[k] = one[k]
        /\ \A k \in 1..Len(two) : k \in 1..Len(one) \/ (~Names(one, q) /\ two[k] = Entry(q))
    BY <1>4, EnsuredOK
  <1> HIDE DEF two
  <1>6. Len(one) \in Nat /\ Len(two) \in Nat
    BY <1>4, <1>5 DEF EntryList
  <1>7. ~Names(one, q) => ~Names(entries, q)
    BY <1>1, <1>4, <1>6 DEF Names
  <1>8. Names(two, p)
    BY <1>4, <1>5, <1>6 DEF Names
  <1>9. Len(entries) <= Len(two) /\ \A k \in 1..Len(entries) : two[k] = entries[k]
    BY <1>1, <1>4, <1>5, <1>6
  <1>10. \A k \in 1..Len(two) :
            \/ k \in 1..Len(entries)
            \/ \E r \in {p, q} : two[k] = Entry(r) /\ ~Names(entries, r) /\ fs[r] # "dir"
    <2> SUFFICES ASSUME NEW k \in 1..Len(two), k \notin 1..Len(entries)
                 PROVE  \E r \in {p, q} : two[k] = Entry(r) /\ ~Names(entries, r) /\ fs[r] # "dir"
      OBVIOUS
    <2>1. CASE k \in 1..Len(one)
      BY <1>2, <1>4, <1>5, <2>1
    <2>2. CASE k \notin 1..Len(one)
      BY <1>2, <1>5, <1>7, <2>2
    <2> QED
      BY <2>1, <2>2
  <1>11. \A r \in Path :
            copies'[r] = IF r \in {p, q} /\ ~Names(entries, r) /\ fs[r] # "none"
                         THEN fs[r] ELSE copies[r]
    BY <1>1 DEF BackUp, Recorded
  <1>12. copies' \in [Path -> File \cup {"none"}]
    <2>1. \A r \in Path : fs[r] \in File \cup {"none", "dir"} /\ copies[r] \in File \cup {"none"}
      BY DEF TypeOK, State
    <2>2. copies' = [r \in Path |-> copies'[r]]
      BY DEF BackUp
    <2>3. \A r \in Path : copies'[r] \in File \cup {"none"}
      BY <1>2, <1>11, <2>1
    <2> QED
      BY <2>2, <2>3
  <1> QED
    BY <1>3, <1>5, <1>8, <1>9, <1>10, <1>11, <1>12 DEF BackedUp

\* No step of the run needs a backup that it does not make.
LEMMA NoBackUp ==
    ASSUME TypeOK, UNCHANGED <<entries, copies>>
    PROVE  BackedUp({})
  <1>1. EntryList(entries) /\ Len(entries) \in Nat
    BY DEF TypeOK, EntryList, Entries
  <1> QED
    BY <1>1 DEF BackedUp, TypeOK

\* What a step that has backed up the paths of S does to the workspace: outside of
\* S it makes directories where nothing was, or the change is a program's.
Changed(S) ==
    /\ fs' \in [Path -> State] /\ Tree(fs')
    /\ \A r \in Path \ S :
          r \in foreign' \/ fs'[r] = fs[r] \/ (fs[r] = "none" /\ fs'[r] = "dir")
    /\ \A r \in Path : fs[r] = "dir" => fs'[r] = "dir"

\* A step of the run, whatever it is, keeps what the restore will rely on.
LEMMA RunStep ==
    ASSUME UndoInv, NEW S \in SUBSET Path, BackedUp(S), Changed(S),
           foreign \subseteq foreign', foreign' \subseteq Path, steps' \in 0..MaxSteps,
           phase = "run", UNCHANGED <<before, manifest, phase, left>>
    PROVE  FullInv'
  <1>1. /\ Len(entries) \in Nat /\ Len(entries') \in Nat /\ Len(entries) <= Len(entries')
        /\ EntryList(entries')
    BY DEF UndoInv, TypeOK, BackedUp, EntryList
  <1>2. TypeOK'
    BY <1>1 DEF UndoInv, TypeOK, BackedUp, Changed, EntryList, Entries
  <1>3. \A r \in Path : Names(entries, r) => Names(entries', r)
    BY <1>1 DEF BackedUp, Names
  <1>4. BeforeInv'
    BY DEF UndoInv, BeforeInv, Changed
  <1>5. \A r \in Path \ foreign : ~Names(entries, r) /\ fs[r] # "dir" => fs[r] = before[r]
    BY DEF UndoInv, Logged, Undone
  <1>6. EntryInv'
    <2> SUFFICES ASSUME NEW k \in 1..Len(entries')
                 PROVE  /\ ~entries'[k].existed => before[entries'[k].path] # "dir"
                        /\ entries'[k].path \notin foreign =>
                              (entries'[k].existed <=> before[entries'[k].path] # "none")
      BY DEF EntryInv
    <2>1. CASE k \in 1..Len(entries)
      BY <2>1 DEF UndoInv, EntryInv, BackedUp
    <2>2. CASE k \notin 1..Len(entries)
      <3>1. PICK r \in S : entries'[k] = Entry(r) /\ ~Names(entries, r) /\ fs[r] # "dir"
        BY <2>2 DEF BackedUp
      <3>2. entries'[k].path = r /\ (entries'[k].existed <=> fs[r] # "none")
        <4>1. Entry(r).path = r /\ Entry(r).existed = (fs[r] # "none")
          BY DEF Entry
        <4> QED
          BY <3>1, <4>1, Zenon
      <3>3. before[r] # "dir"
        BY <3>1 DEF UndoInv, BeforeInv
      <3>4. r \notin foreign => fs[r] = before[r]
        BY <1>5, <3>1
      <3> QED
        BY <3>2, <3>3, <3>4
    <2> QED
      BY <2>1, <2>2
  <1>7. Logged'
    <2> SUFFICES ASSUME NEW r \in Path \ foreign', ~Names(entries', r) PROVE Undone(r)'
      BY DEF Logged
    <2>1. r \notin S /\ ~Names(entries, r) /\ r \in Path \ foreign
      BY <1>3 DEF BackedUp
    <2>2. Undone(r)
      BY <2>1 DEF UndoInv, Logged
    <2>3. fs'[r] = fs[r] \/ (fs[r] = "none" /\ fs'[r] = "dir")
      BY <2>1 DEF Changed
    <2> QED
      BY <2>2, <2>3 DEF Undone
  <1>8. CopyInv'
    <2> SUFFICES ASSUME NEW r \in Path \ foreign', Names(entries', r), before[r] \in Content
                 PROVE  copies'[r] = before[r] \/ (r = ManifestPath /\ phase # "run")
      BY DEF CopyInv
    <2>1. CASE Names(entries, r)
      <3>1. copies'[r] = copies[r]
        BY <2>1 DEF BackedUp
      <3> QED
        BY <2>1, <3>1 DEF UndoInv, CopyInv
    <2>2. CASE ~Names(entries, r)
      <3>1. r \in S /\ fs[r] # "dir"
        <4>1. PICK k \in 1..Len(entries') : entries'[k].path = r
          BY DEF Names
        <4>2. k \notin 1..Len(entries)
          BY <2>2, <4>1 DEF BackedUp, Names
        <4>3. PICK s \in S : entries'[k] = Entry(s) /\ ~Names(entries, s) /\ fs[s] # "dir"
          BY <4>2 DEF BackedUp
        <4> QED
          BY <4>1, <4>3 DEF Entry
      <3>2. fs[r] = before[r] /\ fs[r] # "none"
        BY <1>5, <2>2, <3>1, PathAssumption
      <3>3. copies'[r] = fs[r]
        BY <2>2, <3>1, <3>2 DEF BackedUp
      <3> QED
        BY <3>2, <3>3
    <2> QED
      BY <2>1, <2>2
  <1>9. RestoreInv' /\ RestoreUndoes'
    BY DEF RestoreInv, RestoreUndoes
  <1> QED
    BY <1>2, <1>4, <1>6, <1>7, <1>8, <1>9 DEF FullInv, UndoInv
-----------------------------------------------------------------------------
(* The steps of the run *)

LEMMA InitInv == Init => FullInv
  <1> SUFFICES ASSUME Init PROVE FullInv
    OBVIOUS
  <1>1. /\ entries = <<>> /\ entries \in Seq([path : Path, existed : BOOLEAN]) /\ Len(entries) = 0
    BY DEF Init
  <1>2. fs \in [Path -> State] /\ before \in [Path -> State] /\ Tree(fs) /\ before = fs
    BY DEF Init, State, File
  <1>3. TypeOK
    <2>1. 0 \in 0..MaxSteps /\ left \in 0..Len(entries)
      BY <1>1, PathAssumption DEF Init
    <2>2. copies \in [Path -> File \cup {"none"}] /\ foreign \subseteq Path
      BY DEF Init
    <2>3. \A j, k \in 1..Len(entries) : entries[j].path = entries[k].path => j = k
      BY <1>1
    <2> QED
      BY <1>1, <1>2, <2>1, <2>2, <2>3 DEF Init, TypeOK
  <1>4. EntryInv /\ CopyInv
    BY <1>1 DEF EntryInv, CopyInv, Names
  <1>5. BeforeInv
    BY DEF Init, BeforeInv
  <1>6. Logged /\ RestoreInv /\ RestoreUndoes
    BY DEF Init, Logged, Undone, RestoreInv, RestoreUndoes
  <1> QED
    BY <1>3, <1>4, <1>5, <1>6 DEF FullInv, UndoInv

\* Putting a path that is backed up, with the directories above it.
LEMMA PutChanges ==
    ASSUME TypeOK, NEW p \in Path, NEW c \in State, NEW S, p \in S \/ fs[p] = c,
           CanMakeParents(p), fs[p] # "dir" \/ c = "dir", fs' = Put(p, c)
    PROVE  Changed(S)
  <1>1. /\ fs' \in [Path -> State] /\ Tree(fs') /\ fs'[p] = c
        /\ \A q \in Path : q # p => fs'[q] = IF q \in Above[p] THEN "dir" ELSE fs[q]
    BY PutTree DEF TypeOK
  <1> QED
    BY <1>1 DEF Changed, CanMakeParents

LEMMA StepTypes ==
    ASSUME TypeOK, StepBegins
    PROVE  steps + 1 \in 0..MaxSteps /\ phase = "run"
  BY PathAssumption DEF TypeOK, StepBegins

LEMMA FileStates == File \subseteq State /\ "none" \in State /\ "dir" \in State /\ "torn" \in State
                    /\ Content \subseteq File /\ "dir" \notin File /\ "none" \notin File
  BY PathAssumption DEF File, State

LEMMA WriteStep ==
    ASSUME Driver = "l3", FullInv, NEW p \in Path, NEW c \in Content, WriteFile(p, c)
    PROVE  FullInv'
  <1>1. TypeOK /\ UndoInv
    BY DEF FullInv, UndoInv
  <1>2. BackedUp({p})
    BY <1>1, BackUpOK DEF WriteFile
  <1>3. Changed({p})
    BY <1>1, PutChanges, FileStates DEF WriteFile, Put
  <1> QED
    BY <1>1, <1>2, <1>3, RunStep, StepTypes DEF WriteFile, StepEnds, TypeOK

LEMMA MkdirStep ==
    ASSUME Driver = "l3", FullInv, NEW p \in Path, Mkdir(p)
    PROVE  FullInv'
  <1>1. TypeOK /\ UndoInv
    BY DEF FullInv, UndoInv
  <1>2. CASE fs[p] = "none"
    <2>1. BackedUp({p})
      BY <1>1, <1>2, BackUpOK DEF Mkdir, CanBackUp
    <2>2. Changed({p})
      BY <1>1, PutChanges, FileStates DEF Mkdir, Put
    <2> QED
      BY <1>1, <2>1, <2>2, RunStep, StepTypes DEF Mkdir, StepEnds, TypeOK
  <1>3. CASE fs[p] # "none"
    <2>1. BackedUp({})
      BY <1>1, <1>3, NoBackUp DEF Mkdir
    <2>2. fs[p] = "dir"
      BY <1>3 DEF Mkdir
    <2>3. Changed({})
      BY <1>1, <2>2, PutChanges, FileStates DEF Mkdir, Put
    <2> QED
      BY <1>1, <2>1, <2>3, RunStep, StepTypes DEF Mkdir, StepEnds, TypeOK
  <1> QED
    BY <1>2, <1>3

LEMMA CopyStep ==
    ASSUME Driver = "l3", FullInv, NEW p \in Path, NEW q \in Path, CopyFile(p, q)
    PROVE  FullInv'
  <1>1. TypeOK /\ UndoInv
    BY DEF FullInv, UndoInv
  <1>2. BackedUp({q})
    BY <1>1, BackUpOK DEF CopyFile
  <1>3. Changed({q})
    <2>1. fs[p] \in State /\ fs[q] # "dir" /\ CanMakeParents(q) /\ fs' = Put(q, fs[p])
      BY <1>1 DEF CopyFile, Put, TypeOK
    <2> QED
      BY <1>1, <2>1, PutChanges
  <1> QED
    BY <1>1, <1>2, <1>3, RunStep, StepTypes DEF CopyFile, StepEnds, TypeOK

LEMMA MoveStep ==
    ASSUME Driver = "l3", FullInv, NEW p \in Path, NEW q \in Path, MoveFile(p, q)
    PROVE  FullInv'
  <1>1. TypeOK /\ UndoInv
    BY DEF FullInv, UndoInv
  <1>2. p # q /\ fs[p] \in File /\ fs[p] # "dir" /\ fs[p] \in State
    BY FileStates DEF MoveFile
  <1>3. BackedUp({p, q})
    BY <1>1, <1>2, BackUpOK DEF MoveFile, CanBackUp
  <1>4. Changed({p, q})
    <2> DEFINE g == Put(q, fs[p])
    <2>1. CanMakeParents(q) /\ fs[q] # "dir"
      BY DEF MoveFile
    <2>2. /\ g \in [Path -> State] /\ Tree(g) /\ g[q] = fs[p]
          /\ \A r \in Path : r # q => g[r] = IF r \in Above[q] THEN "dir" ELSE fs[r]
      BY <1>1, <1>2, <2>1, PutTree DEF TypeOK
    <2>3. fs' = [g EXCEPT ![p] = "none"]
      BY DEF MoveFile, Put
    <2> HIDE DEF g
    <2>4. p \notin Above[q]
      BY <1>2, <2>1, FileStates DEF CanMakeParents
    <2>5. /\ fs' \in [Path -> State] /\ fs'[p] = "none" /\ fs'[q] = fs[p]
          /\ \A r \in Path : r # p => fs'[r] = g[r]
      BY <1>2, <2>2, <2>3, FileStates
    <2>6. Tree(fs')
      <3> SUFFICES ASSUME NEW r \in Path, fs'[r] # "none", NEW u \in Above[r] PROVE fs'[u] = "dir"
        BY DEF Tree
      <3>1. u \in Path
        BY PathAssumption
      <3>2. g[r] # "none" /\ g[u] = "dir"
        BY <2>2, <2>5, <3>1 DEF Tree
      <3>3. u # p
        BY <1>2, <2>2, <2>4, <3>2
      <3> QED
        BY <2>5, <3>1, <3>2, <3>3
    <2>7. \A r \in Path \ {p, q} : fs'[r] = fs[r] \/ (fs[r] = "none" /\ fs'[r] = "dir")
      BY <2>1, <2>2, <2>5 DEF CanMakeParents
    <2>8. \A r \in Path : fs[r] = "dir" => fs'[r] = "dir"
      BY <1>2, <2>1, <2>2, <2>5
    <2> QED
      BY <2>5, <2>6, <2>7, <2>8 DEF Changed
  <1> QED
    BY <1>1, <1>3, <1>4, RunStep, StepTypes DEF MoveFile, StepEnds, TypeOK

LEMMA DeleteStep ==
    ASSUME Driver = "l3", FullInv, NEW p \in Path, DeleteFile(p)
    PROVE  FullInv'
  <1>1. TypeOK /\ UndoInv
    BY DEF FullInv, UndoInv
  <1>2. BackedUp({p})
    BY <1>1, BackUpOK DEF DeleteFile
  <1>3. fs' \in [Path -> State] /\ Tree(fs')
    BY <1>1, LeafTree, FileStates DEF DeleteFile, TypeOK
  <1>4. Changed({p})
    BY <1>1, <1>3 DEF Changed, DeleteFile, TypeOK
  <1> QED
    BY <1>1, <1>2, <1>4, RunStep, StepTypes DEF DeleteFile, StepEnds, TypeOK

LEMMA ExecStep ==
    ASSUME FullInv, NEW p \in Path, NEW c \in Content \cup {"none"}, ExecProgram(p, c)
    PROVE  FullInv'
  <1>1. TypeOK /\ UndoInv
    BY DEF FullInv, UndoInv
  <1>2. BackedUp({})
    BY <1>1, NoBackUp DEF ExecProgram
  <1>3. c \in State
    BY FileStates
  <1>4. fs' \in [Path -> State] /\ Tree(fs')
    BY <1>1, <1>3, LeafTree DEF ExecProgram, TypeOK
  <1>5. Changed({})
    BY <1>1, <1>4 DEF Changed, ExecProgram, TypeOK
  <1> QED
    BY <1>1, <1>2, <1>5, RunStep, StepTypes DEF ExecProgram, StepEnds, TypeOK

LEMMA FailStep ==
    ASSUME Driver = "l3", FullInv, NEW p \in Path, NEW q \in Path, StepFails(p, q)
    PROVE  FullInv'
  <1>1. TypeOK /\ UndoInv
    BY DEF FullInv, UndoInv
  <1>2. /\ foreign' = foreign /\ foreign \subseteq Path /\ steps' \in 0..MaxSteps
        /\ phase = "run" /\ UNCHANGED <<before, manifest, phase, left>>
    BY <1>1, PathAssumption DEF StepFails, StepBegins, TypeOK
  <1>3. CASE UNCHANGED <<fs, entries, copies>>
    <2>1. BackedUp({}) /\ Changed({})
      BY <1>1, <1>3, NoBackUp DEF Changed, TypeOK
    <2> QED
      BY <1>1, <1>2, <2>1, RunStep
  <1>4. CASE /\ CanBackUp(p) /\ CanBackUp(q) /\ BackUp(p, q)
             /\ \/ UNCHANGED fs
                \/ CanMakeParents(q) /\ fs' = WithParents(q)
                \/ CanMakeParents(q) /\ fs[q] # "dir" /\ fs' = Put(q, "torn")
    <2>1. BackedUp({p, q})
      BY <1>1, <1>4, BackUpOK
    <2>2. Changed({p, q})
      <3>1. CASE UNCHANGED fs
        BY <1>1, <3>1 DEF Changed, TypeOK
      <3>2. CASE CanMakeParents(q) /\ fs' = WithParents(q)
        <4>1. /\ fs' \in [Path -> State] /\ Tree(fs')
              /\ \A r \in Path : fs'[r] = IF r \in Above[q] THEN "dir" ELSE fs[r]
          BY <1>1, <3>2, ParentsTree DEF TypeOK
        <4> QED
          BY <3>2, <4>1 DEF Changed, CanMakeParents
      <3>3. CASE CanMakeParents(q) /\ fs[q] # "dir" /\ fs' = Put(q, "torn")
        BY <1>1, <3>3, PutChanges, FileStates
      <3> QED
        BY <1>4, <3>1, <3>2, <3>3
    <2> QED
      BY <1>1, <1>2, <2>1, <2>2, RunStep
  <1> QED
    BY <1>3, <1>4 DEF StepFails, Put
-----------------------------------------------------------------------------
(* The restore *)

\* The workspace with entry e undone, where c is what its path gets back.
Redone(e, c) == IF e.existed THEN Put(e.path, c) ELSE Pruned(e.path)

LEMMA EntryTypes ==
    ASSUME TypeOK, NEW k \in 1..Len(entries)
    PROVE  entries[k].path \in Path /\ entries[k].existed \in BOOLEAN /\ Len(entries) \in Nat
  <1>1. entries \in Seq(Entries)
    BY DEF TypeOK, Entries
  <1>2. entries[k] \in Entries
    BY <1>1, ElementOfSeq
  <1> QED
    BY <1>1, <1>2 DEF Entries

\* Undoing the entry of a path leaves every other path undone that was: of what it
\* removes nothing was there before, and where it makes a directory no file was.
LEMMA RevertKeeps ==
    ASSUME TypeOK, EntryInv, BeforeInv, NEW k \in 1..Len(entries), CanRevert(entries[k]), NEW c
    PROVE  \A r \in Path : r # entries[k].path =>
              /\ \/ ~Undone(r)
                 \/ Redone(entries[k], c)[r] = before[r]
                 \/ before[r] = "none" /\ Redone(entries[k], c)[r] = "dir"
              /\ before[r] = "dir" => Redone(entries[k], c)[r] = "dir"
  <1> DEFINE p == entries[k].path
             g == Redone(entries[k], c)
  <1> SUFFICES ASSUME NEW r \in Path, r # p
               PROVE  /\ ~Undone(r) \/ g[r] = before[r] \/ (before[r] = "none" /\ g[r] = "dir")
                      /\ before[r] = "dir" => g[r] = "dir"
    OBVIOUS
  <1>1. p \in Path /\ before[r] \in Content \cup {"none", "dir"}
    BY EntryTypes DEF BeforeInv
  <1>2. CASE entries[k].existed
    <2>1. g[r] = IF r \in Above[p] THEN "dir" ELSE fs[r]
      BY <1>1, <1>2 DEF Redone, Put, WithParents
    <2>2. r \in Above[p] => fs[r] \in {"none", "dir"}
      BY <1>2 DEF CanRevert, CanMakeParents
    <2> HIDE DEF g
    <2> QED
      BY <1>1, <2>1, <2>2 DEF BeforeInv, Undone
  <1>3. CASE ~entries[k].existed
    <2>1. g[r] = IF p \in Above[r] THEN "none" ELSE fs[r]
      BY <1>1, <1>3 DEF Redone, Pruned
    <2>2. before[p] # "dir"
      BY <1>3 DEF EntryInv
    <2>3. p \in Above[r] => before[r] = "none"
      BY <1>1, <2>2 DEF BeforeInv, Tree
    <2> HIDE DEF g, p
    <2> QED
      BY <1>1, <2>1, <2>3 DEF BeforeInv, Undone
  <1> QED
    BY <1>2, <1>3

\* The workspace stays a tree, with the directories it had.
LEMMA RevertTypes ==
    ASSUME TypeOK, EntryInv, BeforeInv, NEW k \in 1..Len(entries), CanRevert(entries[k]),
           NEW c \in State, fs' = Redone(entries[k], c), before' = before
    PROVE  fs' \in [Path -> State] /\ Tree(fs') /\ BeforeInv'
  <1> DEFINE p == entries[k].path
  <1>1. p \in Path
    BY EntryTypes
  <1>2. fs' \in [Path -> State] /\ Tree(fs')
    <2>1. CASE entries[k].existed
      <3>1. fs' = Put(p, c) /\ fs[p] # "dir"
        BY <2>1 DEF Redone, CanRevert
      <3> HIDE DEF p
      <3> QED
        BY <1>1, <3>1, PutTree DEF TypeOK
    <2>2. CASE ~entries[k].existed
      <3>1. fs' = Pruned(p)
        BY <2>2 DEF Redone
      <3> HIDE DEF p
      <3> QED
        BY <1>1, <3>1, PrunedTree DEF TypeOK
    <2> QED
      BY <2>1, <2>2
  <1>3. before[p] # "dir"
    BY <1>1 DEF EntryInv, BeforeInv, CanRevert
  <1>4. \A r \in Path : r # p => (before[r] = "dir" => fs'[r] = "dir")
    BY RevertKeeps
  <1> HIDE DEF p
  <1> QED
    BY <1>2, <1>3, <1>4 DEF BeforeInv

\* What no entry names stays undone.
LEMMA RevertLogged ==
    ASSUME TypeOK, EntryInv, BeforeInv, Logged, NEW k \in 1..Len(entries), CanRevert(entries[k]),
           NEW c, fs' = Redone(entries[k], c), UNCHANGED <<before, foreign, entries>>
    PROVE  Logged'
  <1>1. \A r \in Path : r # entries[k].path =>
           ~Undone(r) \/ fs'[r] = before[r] \/ (before[r] = "none" /\ fs'[r] = "dir")
    BY RevertKeeps
  <1>2. \A r \in Path : r # entries[k].path => ~Undone(r) \/ Undone(r)'
    BY <1>1 DEF Undone
  <1>3. \A r \in Path : r = entries[k].path => Names(entries, r)
    BY DEF Names
  <1>4. entries' = entries /\ foreign' = foreign
    OBVIOUS
  <1>5. \A r \in Path \ foreign : Names(entries, r) \/ Undone(r)'
    BY <1>2, <1>3 DEF Logged
  <1> QED
    BY <1>4, <1>5 DEF Logged, Names

LEMMA RestoreStep ==
    ASSUME FullInv, RestoreEntry
    PROVE  FullInv'
  <1> DEFINE e == entries[left]
             p == e.path
  <1>1. /\ TypeOK /\ EntryInv /\ BeforeInv /\ Logged /\ CopyInv
    BY DEF FullInv, UndoInv
  <1>2. /\ left \in 1..Len(entries) /\ Len(entries) \in Nat
        /\ p \in Path /\ copies[p] \in State
    <2>1. left \in 1..Len(entries)
      BY <1>1 DEF RestoreEntry, TypeOK
    <2> QED
      BY <1>1, <2>1, EntryTypes DEF TypeOK, State
  <1>3. /\ CanRevert(e) /\ phase = "restore" /\ left' = left - 1
        /\ UNCHANGED <<before, foreign, entries, copies, manifest, steps, phase>>
    BY DEF RestoreEntry
  <1>4. fs' = Redone(e, copies[p])
    BY DEF RestoreEntry, Reverted, Redone, Put, Pruned
  <1>5. fs' \in [Path -> State] /\ Tree(fs') /\ BeforeInv'
    BY <1>1, <1>2, <1>3, <1>4, RevertTypes
  <1>6. left' \in 0..Len(entries)
    BY <1>2, <1>3
  <1>7. TypeOK'
    BY <1>1, <1>3, <1>5, <1>6 DEF TypeOK
  <1>8. Logged'
    BY <1>1, <1>2, <1>3, <1>4, RevertLogged
  <1>9. EntryInv' /\ CopyInv'
    BY <1>1, <1>3 DEF EntryInv, CopyInv
  <1>10. p \notin foreign /\ p # ManifestPath => fs'[p] = before[p]
    <2> SUFFICES ASSUME p \notin foreign, p # ManifestPath PROVE fs'[p] = before[p]
      OBVIOUS
    <2>1. e.existed <=> before[p] # "none"
      BY <1>1, <1>2 DEF EntryInv
    <2>2. CASE e.existed
      <3>1. before[p] # "dir" /\ before[p] # "none" /\ before[p] \in Content \cup {"none", "dir"}
        BY <1>1, <1>2, <1>3, <2>1, <2>2 DEF CanRevert, BeforeInv
      <3>2. copies[p] = before[p]
        BY <1>1, <1>2, <3>1 DEF CopyInv, Names
      <3>3. fs'[p] = copies[p]
        BY <1>2, <1>4, <2>2 DEF Redone, Put, WithParents
      <3> QED
        BY <3>2, <3>3
    <2>3. CASE ~e.existed
      <3>1. before[p] = "none"
        BY <2>1, <2>3
      <3>2. fs'[p] = "none"
        BY <1>2, <1>4, <2>3 DEF Redone, Pruned
      <3> QED
        BY <3>1, <3>2
    <2> QED
      BY <2>2, <2>3
  <1>11. RestoreInv'
    <2> SUFFICES ASSUME NEW r \in Path \ (foreign \cup {ManifestPath}), ~Undone(r)'
                 PROVE  \E k \in 1..(left - 1) : entries[k].path = r
      BY <1>3 DEF RestoreInv
    <2>0. fs'[r] # before[r] /\ ~(before[r] = "none" /\ fs'[r] = "dir")
      BY <1>3 DEF Undone
    <2>1. r # p
      BY <1>10, <2>0
    <2>2. ~Undone(r)
      <3>1. \A q \in Path : q # p =>
               ~Undone(q) \/ fs'[q] = before[q] \/ (before[q] = "none" /\ fs'[q] = "dir")
        BY <1>1, <1>2, <1>3, <1>4, RevertKeeps
      <3> HIDE DEF p
      <3> QED
        BY <2>0, <2>1, <3>1
    <2>3. PICK k \in 1..left : entries[k].path = r
      BY <1>3, <2>2 DEF FullInv, RestoreInv
    <2>4. k # left
      BY <2>1, <2>3
    <2> QED
      BY <1>2, <2>3, <2>4
  <1>12. RestoreUndoes'
    BY <1>3 DEF RestoreUndoes
  <1> QED
    BY <1>5, <1>7, <1>8, <1>9, <1>11, <1>12 DEF FullInv, UndoInv

\* A restore that dies in the middle of a copy or of a removal.
LEMMA RestoreFailStep ==
    ASSUME FullInv, RestoreFails
    PROVE  FullInv'
  <1> DEFINE e == entries[left]
             p == e.path
  <1>1. /\ TypeOK /\ EntryInv /\ BeforeInv /\ Logged /\ CopyInv
    BY DEF FullInv, UndoInv
  <1>2. left \in 1..Len(entries)
    BY <1>1 DEF RestoreFails, TypeOK
  <1>3. phase' = "stuck" /\ UNCHANGED <<before, foreign, entries, copies, manifest, steps, left>>
    BY DEF RestoreFails
  <1>4. EntryInv' /\ CopyInv' /\ RestoreInv' /\ RestoreUndoes'
    BY <1>1, <1>3 DEF EntryInv, CopyInv, RestoreInv, RestoreUndoes
  <1>5. CASE UNCHANGED fs
    BY <1>1, <1>3, <1>4, <1>5 DEF FullInv, UndoInv, TypeOK, BeforeInv, Logged, Undone
  <1>6. CASE e.existed /\ CanRevert(e) /\ fs' = Put(p, "torn")
    <2>1. "torn" \in State
      BY FileStates
    <2> fs' = Redone(e, "torn")
      BY <1>6 DEF Redone
    <2>2. fs' \in [Path -> State] /\ Tree(fs') /\ BeforeInv'
      BY <1>1, <1>2, <1>3, <1>6, <2>1, RevertTypes
    <2>3. Logged'
      BY <1>1, <1>2, <1>3, <1>6, RevertLogged
    <2>4. TypeOK'
      BY <1>1, <1>3, <2>2 DEF TypeOK
    <2> QED
      BY <1>4, <2>2, <2>3, <2>4 DEF FullInv, UndoInv
  <1>7. ASSUME /\ fs' \in [Path -> State] /\ Tree(fs')
               /\ \A r \in Path : fs'[r] = fs[r] \/ (fs[r] = "none" /\ fs'[r] = "dir")
                                              \/ (before[r] = "none" /\ fs'[r] = "none")
        PROVE  FullInv'
    <2>1. BeforeInv'
      BY <1>1, <1>3, <1>7 DEF BeforeInv
    <2>2. \A r \in Path : Undone(r) => Undone(r)'
      BY <1>3, <1>7 DEF Undone
    <2>3. Logged'
      BY <1>1, <1>3, <2>2 DEF Logged, Names
    <2>4. TypeOK'
      BY <1>1, <1>3, <1>7 DEF TypeOK
    <2> QED
      BY <1>4, <2>1, <2>3, <2>4 DEF FullInv, UndoInv
  <1>8. p \in Path
    BY <1>1, <1>2, EntryTypes
  <1>9. CASE CanMakeParents(p) /\ fs' = WithParents(p)
    <2> HIDE DEF p
    <2>1. /\ fs' \in [Path -> State] /\ Tree(fs')
          /\ \A r \in Path : fs'[r] = IF r \in Above[p] THEN "dir" ELSE fs[r]
      BY <1>1, <1>8, <1>9, ParentsTree DEF TypeOK
    <2> QED
      BY <1>7, <1>9, <2>1 DEF CanMakeParents
  <1>10. CASE ~e.existed /\ PartlyRemoved(p)
    <2>1. before[p] # "dir"
      BY <1>1, <1>2, <1>10 DEF EntryInv
    <2> HIDE DEF p
    <2>2. \A r \in Path : p \in Above[r] => before[r] = "none"
      BY <1>1, <1>8, <2>1 DEF BeforeInv, Tree
    <2>3. PICK gone \in SUBSET {r \in Path : p \in Above[r]} :
             fs' = [r \in Path |-> IF r \in gone THEN "none" ELSE fs[r]]
      BY <1>10 DEF PartlyRemoved
    <2>4. fs' \in [Path -> State] /\ Tree(fs')
      BY <1>1, <1>10, <2>3, FileStates DEF TypeOK, PartlyRemoved
    <2>5. \A r \in Path : fs'[r] = fs[r] \/ (before[r] = "none" /\ fs'[r] = "none")
      BY <2>2, <2>3
    <2> QED
      BY <1>7, <2>4, <2>5
  <1> QED
    BY <1>5, <1>6, <1>9, <1>10 DEF RestoreFails, Put

\* The manifest, and the ends and beginnings of a restore.
LEMMA PhaseStep ==
    ASSUME FullInv, WriteManifest \/ NoManifest \/ BeginRestore \/ RestoreStuck \/ RestoreEnds
    PROVE  FullInv'
  <1>1. /\ TypeOK /\ EntryInv /\ BeforeInv /\ Logged /\ CopyInv
    BY DEF FullInv, UndoInv
  <1>2. UNCHANGED <<fs, before, foreign, entries, steps>>
    BY DEF WriteManifest, NoManifest, BeginRestore, RestoreStuck, RestoreEnds
  <1>3. EntryInv' /\ BeforeInv' /\ Logged'
    BY <1>1, <1>2 DEF EntryInv, BeforeInv, Logged, Undone
  <1>4. CASE WriteManifest
    <2>1. "manifest" \in File /\ ManifestPath \in Path
      BY PathAssumption DEF File
    <2>2. TypeOK'
      BY <1>1, <1>2, <1>4, <2>1 DEF WriteManifest, TypeOK
    <2>3. CopyInv'
      BY <1>1, <1>2, <1>4 DEF WriteManifest, CopyInv, TypeOK
    <2> QED
      BY <1>3, <1>4, <2>2, <2>3 DEF WriteManifest, FullInv, UndoInv, RestoreInv, RestoreUndoes
  <1>6. CASE NoManifest
    <2>1. "torn" \in File \cup {"none"} /\ ManifestPath \in Path
      BY PathAssumption DEF File
    <2>2. /\ copies' \in [Path -> File \cup {"none"}]
          /\ \A r \in Path : r # ManifestPath => copies'[r] = copies[r]
      BY <1>1, <1>6, <2>1 DEF NoManifest, TypeOK
    <2>3. TypeOK'
      BY <1>1, <1>2, <1>6, <2>2 DEF NoManifest, TypeOK
    <2>4. CopyInv'
      BY <1>1, <1>2, <1>6, <2>2 DEF NoManifest, CopyInv
    <2> QED
      BY <1>3, <1>6, <2>3, <2>4 DEF NoManifest, FullInv, UndoInv, RestoreInv, RestoreUndoes
  <1>5. CASE ~WriteManifest /\ ~NoManifest
    <2>1. UNCHANGED <<copies, manifest>> /\ phase # "run" /\ phase' # "run"
      BY <1>5 DEF BeginRestore, RestoreStuck, RestoreEnds
    <2>2. CopyInv'
      BY <1>1, <1>2, <2>1 DEF CopyInv
    <2>3. left' \in 0..Len(entries)
      BY <1>1, <1>5 DEF BeginRestore, RestoreStuck, RestoreEnds, TypeOK
    <2>4. TypeOK'
      BY <1>1, <1>2, <1>5, <2>1, <2>3
      DEF BeginRestore, RestoreStuck, RestoreEnds, TypeOK
    <2>5. CASE BeginRestore
      <3>1. \A p \in Path \ foreign : Undone(p) \/ \E k \in 1..Len(entries) : entries[k].path = p
        BY <1>1 DEF Logged, Names
      <3>2. RestoreInv' /\ RestoreUndoes'
        BY <1>2, <2>5, <3>1 DEF BeginRestore, RestoreInv, RestoreUndoes, Undone
      <3> QED
        BY <1>3, <2>2, <2>4, <3>2 DEF FullInv, UndoInv
    <2>6. CASE RestoreEnds
      <3>1. \A p \in Path \ (foreign \cup {ManifestPath}) : Undone(p)
        BY <2>6 DEF RestoreEnds, FullInv, RestoreInv
      <3>2. RestoreInv' /\ RestoreUndoes'
        BY <1>2, <2>6, <3>1 DEF RestoreEnds, RestoreInv, RestoreUndoes, Undone
      <3> QED
        BY <1>3, <2>2, <2>4, <3>2 DEF FullInv, UndoInv
    <2>7. CASE RestoreStuck
      <3>1. RestoreInv' /\ RestoreUndoes'
        BY <2>7 DEF RestoreStuck, RestoreInv, RestoreUndoes
      <3> QED
        BY <1>3, <2>2, <2>4, <3>1 DEF FullInv, UndoInv
    <2> QED
      BY <1>5, <2>5, <2>6, <2>7
  <1> QED
    BY <1>4, <1>5, <1>6

LEMMA UndoStep ==
    ASSUME Driver = "l3", FullInv, [Next]_vars
    PROVE  FullInv'
  <1>1. CASE UNCHANGED vars
    BY <1>1 DEF vars, FullInv, UndoInv, TypeOK, EntryInv, BeforeInv, Logged, CopyInv, RestoreInv,
                RestoreUndoes, Undone
  <1> QED
    BY <1>1, WriteStep, MkdirStep, CopyStep, MoveStep, DeleteStep, ExecStep, FailStep, PhaseStep,
       RestoreStep, RestoreFailStep DEF Next

\* The inductive invariant holds of every run that the server drives.
THEOREM UndoInvariant ==
    ASSUME Driver = "l3"
    PROVE  Spec => []FullInv
  <1>1. FullInv /\ [Next]_vars => FullInv'
    BY UndoStep
  <1> QED
    BY InitInv, <1>1, PTL DEF Spec

(***************************************************************************)
(* At every moment of a run or of a restore, whatever failed half-way, the *)
(* entries name each path once and the original of every file that the     *)
(* run's own steps have changed is under the backup root (ensure_backup).  *)
(***************************************************************************)
THEOREM UndoBackupsKept ==
    ASSUME Driver = "l3"
    PROVE  Spec => []BackupsKept
  <1>1. FullInv => BackupsKept
    <2> SUFFICES ASSUME TypeOK, Logged, CopyInv PROVE BackupsKept
      BY DEF FullInv, UndoInv
    <2> SUFFICES ASSUME NEW p \in Path \ foreign, before[p] \in Content, fs[p] # before[p]
                 PROVE  copies[p] = before[p] \/ (p = ManifestPath /\ phase # "run")
      BY DEF BackupsKept, OriginalKept
    <2>1. ~Undone(p)
      BY PathAssumption DEF Undone
    <2>2. Names(entries, p)
      BY <2>1 DEF Logged
    <2> QED
      BY <2>2 DEF CopyInv
  <1> QED
    BY UndoInvariant, <1>1, PTL

(***************************************************************************)
(* A restore that ends has undone what the run's own steps did, in any     *)
(* workspace, after any steps and failures and however often it had been   *)
(* interrupted (restore_from_manifest).                                    *)
(***************************************************************************)
THEOREM UndoRestoreUndoes ==
    ASSUME Driver = "l3"
    PROVE  Spec => []RestoreUndoes
  <1>1. FullInv => RestoreUndoes
    BY DEF FullInv
  <1> QED
    BY UndoInvariant, <1>1, PTL
=============================================================================
