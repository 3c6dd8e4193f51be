-------------------------- MODULE StorePlanesProofs --------------------------
(***************************************************************************)
(* What StorePlanes guarantees for any number of managers, edits and       *)
(* deaths.  That its state is well typed rests on there always being a     *)
(* file object to create (FreshInode).  That readers find a whole store    *)
(* with every acknowledged edit, as long as no two saves overlap and the   *)
(* file was there, rests on where the one save stands (WholeInv): its      *)
(* temporary file is not the store, and holds what the save says it holds. *)
(***************************************************************************)
EXTENDS StorePlanes, FiniteSetTheorems, TLAPS

Writer == Manager \cup {Gate}

\* The calls of a save.
Saving == {"create", "write", "rename", "remove", "retry", "cleanup",
           "legacy_create", "legacy_write"}

\* A manager is at a call of a save exactly while it has an edit to save.
JobInv ==
    \A m \in Manager :
        /\ pc[m] \in Saving <=> job[m] # NoEdit
        /\ job[m] \in begun \cup {NoEdit}

PlanesInv == TypeOK /\ JobInv
-----------------------------------------------------------------------------
(* The file objects *)

LEMMA AddOne ==
    ASSUME NEW S, NEW x, IsFiniteSet(S)
    PROVE  /\ IsFiniteSet(S \cup {x})
           /\ Cardinality(S \cup {x}) \in Nat
           /\ Cardinality(S \cup {x}) <= Cardinality(S) + 1
  <1>1. Cardinality(S) \in Nat
    BY FS_CardinalityType
  <1>2. /\ IsFiniteSet(S \cup {x})
        /\ Cardinality(S \cup {x}) = IF x \in S THEN Cardinality(S) ELSE Cardinality(S) + 1
    BY FS_AddElement
  <1> QED
    BY <1>1, <1>2

\* When one of the two names is free, some file object is not in use.
LEMMA FreshInode ==
    ASSUME TypeOK, store = None \/ temp = None
    PROVE  \E j \in Inode : Unused(j)
  <1> DEFINE W == Manager \cup {Gate}
             R == {fd[w] : w \in W}
             U == R \cup {IF store = None THEN temp ELSE store}
  <1>1. /\ IsFiniteSet(Manager) /\ IsFiniteSet(Inode)
        /\ Cardinality(Manager) \in Nat /\ Cardinality(Inode) \in Nat
        /\ Cardinality(Inode) >= Cardinality(Manager) + 3
    BY PlanesAssumption, FS_CardinalityType
  <1>2. IsFiniteSet(W) /\ Cardinality(W) \in Nat /\ Cardinality(W) <= Cardinality(Manager) + 1
    BY <1>1, AddOne
  <1>3. DOMAIN fd = W /\ fd \in Surjection(W, R)
    BY DEF TypeOK, Surjection
  <1> HIDE DEF W, R
  <1>4. IsFiniteSet(R) /\ Cardinality(R) \in Nat /\ Cardinality(R) <= Cardinality(W)
    BY <1>2, <1>3, FS_Surjection, FS_CardinalityType
  <1>5. IsFiniteSet(U) /\ Cardinality(U) \in Nat /\ Cardinality(U) <= Cardinality(R) + 1
    BY <1>4, AddOne
  <1>6. PICK j \in Inode : j \notin U
    <2> SUFFICES ASSUME Inode \subseteq U PROVE FALSE
      OBVIOUS
    <2> HIDE DEF U
    <2>1. Cardinality(Inode) <= Cardinality(U)
      BY <1>5, FS_Subset
    <2> QED
      BY <1>1, <1>2, <1>4, <1>5, <2>1
  <1>7. j # None
    BY PlanesAssumption DEF None
  <1> QED
    BY <1>3, <1>6, <1>7 DEF Unused, R

\* Opening a name for writing: the file object it names, or one not in use.
LEMMA TruncateOK ==
    ASSUME TypeOK, NEW w \in Writer, NEW name \in {store, temp}, Truncate(w, name)
    PROVE  /\ inode' \in [Inode -> Content] /\ fd' \in [Writer -> Inode \cup {None}]
           /\ fd'[w] \in Inode
           /\ name # None => fd'[w] = name
           /\ name = None => Unused(fd'[w])
           /\ inode' = [inode EXCEPT ![fd'[w]] = Empty]
  <1> DEFINE i == IF name # None THEN name ELSE CHOOSE j \in Inode : Unused(j)
  <1>1. inode' = [inode EXCEPT ![i] = Empty] /\ fd' = [fd EXCEPT ![w] = i]
    BY DEF Truncate
  <1>2. i \in Inode /\ (name # None => i = name) /\ (name = None => Unused(i))
    <2>1. CASE name # None
      BY <2>1 DEF TypeOK
    <2>2. CASE name = None
      BY <2>2, FreshInode
    <2> QED
      BY <2>1, <2>2
  <1> HIDE DEF i
  <1>3. Empty \in Content
    BY DEF Empty, Content
  <1> QED
    BY <1>1, <1>2, <1>3 DEF TypeOK, Writer

\* Writing through an open file.
LEMMA WriteOK ==
    ASSUME TypeOK, NEW w \in Writer, NEW c \in Content, WriteAll(w, c)
    PROVE  inode' \in [Inode -> Content] /\ fd' \in [Writer -> Inode \cup {None}]
  <1>1. Torn \in Content
    BY DEF Torn, Content
  <1> QED
    BY <1>1 DEF WriteAll, TypeOK, Writer

LEMMA Contents ==
    ASSUME NEW s \in SUBSET Edit
    PROVE  Canonical(s) \in Content /\ Legacy(s) \in Content
  BY DEF Canonical, Legacy, Content

\* What a read of the store finds is a set of edits.
LEMMA ReadOK ==
    ASSUME TypeOK
    PROVE  StoreFile.edits \in SUBSET Edit
  BY DEF TypeOK, StoreFile, Missing, Content
-----------------------------------------------------------------------------
(* Types *)

LEMMA InitInv == Init => PlanesInv
  <1> SUFFICES ASSUME Init PROVE PlanesInv
    OBVIOUS
  <1>1. Canonical({}) \in Content
    BY Contents
  <1>2. TypeOK
    BY <1>1, PlanesAssumption DEF Init, TypeOK
  <1> QED
    BY <1>2 DEF Init, PlanesInv, JobInv, Saving

\* A step of a manager's save that is not its last.
LEMMA SavingStep ==
    ASSUME PlanesInv, TypeOK', NEW m \in Manager, NEW l \in Saving,
           pc[m] \in Saving, Goto(m, l), UNCHANGED <<job, begun>>
    PROVE  JobInv'
  BY DEF PlanesInv, JobInv, TypeOK, Goto

\* A save returns: its edit was begun.
LEMMA ReturnsStep ==
    ASSUME PlanesInv, NEW m \in Manager, NEW ok \in BOOLEAN, pc[m] \in Saving, Returns(m, ok),
           begun' = begun
    PROVE  /\ pc' = [pc EXCEPT ![m] = "idle"] /\ job' = [job EXCEPT ![m] = NoEdit]
           /\ saved' \subseteq begun' /\ JobInv'
  <1>1. pc' = [pc EXCEPT ![m] = "idle"] /\ job' = [job EXCEPT ![m] = NoEdit]
    BY DEF Returns, Goto
  <1>2. saved' \subseteq begun'
    BY DEF PlanesInv, TypeOK, JobInv, Returns
  <1>3. JobInv'
    BY <1>1 DEF PlanesInv, TypeOK, JobInv, Saving
  <1> QED
    BY <1>1, <1>2, <1>3

LEMMA ManageStep ==
    ASSUME PlanesInv, NEW m \in Manager, Manage(m)
    PROVE  PlanesInv'
  <1>1. StoreFile.edits \in SUBSET Edit
    BY ReadOK DEF PlanesInv
  <1>2. CASE Detect(m)
    <2>1. TypeOK'
      BY <1>2 DEF Detect, Goto, files, history, PlanesInv, TypeOK
    <2> QED
      BY <1>2, <2>1 DEF Detect, Goto, history, PlanesInv, TypeOK, JobInv, Saving
  <1>3. CASE Open(m)
    <2>1. mem' \in [Manager -> SUBSET Edit]
      BY <1>1, <1>3 DEF Open, PlanesInv, TypeOK
    <2>2. TypeOK'
      BY <1>3, <2>1 DEF Open, Goto, files, history, PlanesInv, TypeOK
    <2> QED
      BY <1>3, <2>2 DEF Open, Goto, history, PlanesInv, TypeOK, JobInv, Saving
  <1>4. CASE Crash(m)
    <2>1. TypeOK'
      BY <1>4 DEF Crash, Goto, history, PlanesInv, TypeOK
    <2> QED
      BY <1>4, <2>1 DEF Crash, Goto, history, PlanesInv, TypeOK, JobInv, Saving
  <1>5. ASSUME NEW e \in Edit, Begin(m, e) PROVE PlanesInv'
    <2>1. Reloaded(m) \in SUBSET Edit
      BY <1>1 DEF Reloaded, PlanesInv, TypeOK
    <2>2. TypeOK'
      <3>1. mem' \in [Manager -> SUBSET Edit]
        BY <1>5, <2>1 DEF Begin, PlanesInv, TypeOK
      <3>2. overlap' \in BOOLEAN
        BY <1>5 DEF Begin, PlanesInv, TypeOK
      <3> QED
        BY <1>5, <3>1, <3>2 DEF Begin, Goto, files, PlanesInv, TypeOK
    <2>3. pc'[m] \in Saving /\ job'[m] = e /\ e # NoEdit /\ e \in begun'
      BY <1>5, PlanesAssumption DEF Begin, Goto, PlanesInv, TypeOK, Saving
    <2>4. \A o \in Manager : o # m => pc'[o] = pc[o] /\ job'[o] = job[o]
      BY <1>5 DEF Begin, Goto, PlanesInv, TypeOK
    <2>5. begun \subseteq begun'
      BY <1>5 DEF Begin
    <2> QED
      BY <2>2, <2>3, <2>4, <2>5 DEF PlanesInv, JobInv
  <1> QED
    BY <1>2, <1>3, <1>4, <1>5 DEF Manage

LEMMA SaveStep ==
    ASSUME PlanesInv, NEW m \in Manager, Save(m) \/ LegacySave(m)
    PROVE  PlanesInv'
  <1>0. m \in Writer /\ mem[m] \in SUBSET Edit
    BY DEF Writer, PlanesInv, TypeOK
  <1>1. CASE CreateTemp(m) \/ LegacyCreate(m)
    <2>1. inode' \in [Inode -> Content] /\ fd' \in [Writer -> Inode \cup {None}] /\ fd'[m] \in Inode
      BY <1>0, <1>1, TruncateOK DEF CreateTemp, LegacyCreate, PlanesInv
    <2>2. TypeOK'
      BY <1>1, <2>1 DEF CreateTemp, LegacyCreate, Goto, history, PlanesInv, TypeOK, Writer
    <2> QED
      BY <1>1, <2>2, SavingStep DEF CreateTemp, LegacyCreate, history, PlanesInv, Saving
  <1>2. CASE WriteTemp(m)
    <2>1. inode' \in [Inode -> Content] /\ fd' \in [Writer -> Inode \cup {None}]
      BY <1>0, <1>2, WriteOK, Contents DEF WriteTemp, PlanesInv
    <2>2. TypeOK'
      BY <1>2, <2>1 DEF WriteTemp, Goto, history, PlanesInv, TypeOK, Writer
    <2> QED
      BY <1>2, <2>2, SavingStep DEF WriteTemp, history, PlanesInv, Saving
  <1>3. CASE LegacyWrite(m)
    <2>1. inode' \in [Inode -> Content] /\ fd' \in [Writer -> Inode \cup {None}]
      BY <1>0, <1>3, WriteOK, Contents DEF LegacyWrite, PlanesInv
    <2>2. /\ pc' = [pc EXCEPT ![m] = "idle"] /\ job' = [job EXCEPT ![m] = NoEdit]
          /\ saved' \subseteq begun' /\ JobInv'
      BY <1>3, ReturnsStep DEF LegacyWrite, Saving
    <2>3. TypeOK'
      BY <1>3, <2>1, <2>2 DEF LegacyWrite, PlanesInv, TypeOK, Writer
    <2> QED
      BY <2>2, <2>3 DEF PlanesInv
  <1>4. CASE WriteFails(m) \/ Rename(m) \/ Cleanup(m)
    <2>1. /\ pc' = [pc EXCEPT ![m] = "idle"] /\ job' = [job EXCEPT ![m] = NoEdit]
          /\ saved' \subseteq begun' /\ JobInv'
      BY <1>4, ReturnsStep DEF WriteFails, Rename, Cleanup, Saving
    <2>2. TypeOK'
      BY <1>4, <2>1 DEF WriteFails, Rename, Cleanup, PlanesInv, TypeOK
    <2> QED
      BY <2>1, <2>2 DEF PlanesInv
  <1>5. CASE RenameFails(m) \/ RemoveDestination(m)
    <2>1. TypeOK'
      BY <1>5 DEF RenameFails, RemoveDestination, Goto, files, history, PlanesInv, TypeOK
    <2> QED
      BY <1>5, <2>1, SavingStep DEF RenameFails, RemoveDestination, history, PlanesInv, Saving
  <1>6. CASE Retry(m)
    <2>1. CASE temp # None
      <3>1. /\ pc' = [pc EXCEPT ![m] = "idle"] /\ job' = [job EXCEPT ![m] = NoEdit]
            /\ saved' \subseteq begun' /\ JobInv'
        BY <1>6, <2>1, ReturnsStep DEF Retry, Saving
      <3>2. TypeOK'
        BY <1>6, <2>1, <3>1 DEF Retry, PlanesInv, TypeOK
      <3> QED
        BY <3>1, <3>2 DEF PlanesInv
    <2>2. CASE temp = None
      <3>1. TypeOK'
        BY <1>6, <2>2 DEF Retry, Goto, PlanesInv, TypeOK
      <3> QED
        BY <1>6, <2>2, <3>1, SavingStep DEF Retry, PlanesInv, Saving
    <2> QED
      BY <2>1, <2>2
  <1> QED
    BY <1>1, <1>2, <1>3, <1>4, <1>5, <1>6 DEF Save, LegacySave

LEMMA GateStep ==
    ASSUME PlanesInv, GateFindsMissing \/ GateCreates \/ GateWrites
    PROVE  PlanesInv'
  <1>0. Gate \in Writer
    BY DEF Writer
  <1>1. CASE GateFindsMissing
    BY <1>1 DEF GateFindsMissing, files, history, PlanesInv, TypeOK, JobInv
  <1>2. CASE GateCreates
    <2>1. inode' \in [Inode -> Content] /\ fd' \in [Writer -> Inode \cup {None}] /\ fd'[Gate] \in Inode
      BY <1>0, <1>2, TruncateOK DEF GateCreates, PlanesInv
    <2> QED
      BY <1>2, <2>1 DEF GateCreates, history, PlanesInv, TypeOK, JobInv, Writer
  <1>3. CASE GateWrites
    <2>1. inode' \in [Inode -> Content] /\ fd' \in [Writer -> Inode \cup {None}]
      BY <1>0, <1>3, WriteOK, Contents DEF GateWrites, PlanesInv
    <2> QED
      BY <1>3, <2>1 DEF GateWrites, history, PlanesInv, TypeOK, JobInv, Writer
  <1> QED
    BY <1>1, <1>2, <1>3

LEMMA PlanesStep == PlanesInv /\ [Next]_vars => PlanesInv'
  <1> SUFFICES ASSUME PlanesInv, [Next]_vars PROVE PlanesInv'
    OBVIOUS
  <1>1. CASE UNCHANGED vars
    BY <1>1 DEF vars, PlanesInv, TypeOK, JobInv
  <1> QED
    BY <1>1, ManageStep, SaveStep, GateStep DEF Next, ManageNext

\* The invariant of the types holds of every behaviour, also one that starts
\* without a store file.
THEOREM PlanesInvariant == Spec => []PlanesInv
  BY InitInv, PlanesStep, PTL DEF Spec

(***************************************************************************)
(* The files, the managers and the gate stay within their types, and every *)
(* edit that is reported as saved was begun (persist, atomic_write).       *)
(***************************************************************************)
THEOREM PlanesTypeOK == Spec => []TypeOK
  <1>1. PlanesInv => TypeOK
    BY DEF PlanesInv
  <1> QED
    BY PlanesInvariant, <1>1, PTL
-----------------------------------------------------------------------------
(* Saves in turns, on a store that exists *)

\* The one manager that saves: what its copy, its temporary file and its open
\* file hold.
SaveInv(m) ==
    /\ pc[m] \in {"closed", "detected", "idle", "create", "write", "rename"}
    /\ pc[m] # "closed" => backend[m] = "canonical"
    /\ pc[m] \in {"create", "write", "rename"} => saved \cup {job[m]} \subseteq mem[m]
    /\ pc[m] = "write" => fd[m] = temp /\ temp \in Inode /\ inode[temp] = Empty
    /\ pc[m] = "rename" => temp \in Inode /\ inode[temp] = Canonical(mem[m])

\* The store file is whole, and no name but its own leads to it.
FileInv ==
    /\ store \in Inode /\ store # temp
    /\ inode[store].format = "canonical" /\ saved \subseteq inode[store].edits
    /\ gate = "idle"

OneSave == \A m, n \in Manager : job[m] # NoEdit /\ job[n] # NoEdit => m = n

WholeInv == ~overlap => FileInv /\ OneSave /\ \A m \in Manager : SaveInv(m)

\* A read of a whole store.
LEMMA ReadWhole ==
    ASSUME FileInv
    PROVE  StoreFile = inode[store] /\ StoreFile.format = "canonical"
  BY PlanesAssumption DEF FileInv, StoreFile, None

\* While one manager saves, the others are at none of its calls.
LEMMA OthersIdle ==
    ASSUME PlanesInv, OneSave, NEW m \in Manager, pc[m] \in Saving,
           NEW o \in Manager, o # m
    PROVE  pc[o] \notin Saving
  BY DEF PlanesInv, JobInv, OneSave

\* What a step of m leaves of the others.
LEMMA OthersKept ==
    ASSUME NEW o \in Manager, SaveInv(o), pc[o] \notin Saving, pc'[o] = pc[o], backend'[o] = backend[o]
    PROVE  SaveInv(o)'
  BY DEF SaveInv, Saving

LEMMA WholeManage ==
    ASSUME PlanesInv, FileInv, OneSave, \A m \in Manager : SaveInv(m), ~overlap', ~overlap,
           NEW m \in Manager, Manage(m)
    PROVE  FileInv' /\ OneSave' /\ \A o \in Manager : SaveInv(o)'
  <1>1. StoreFile = inode[store] /\ StoreFile.format = "canonical"
    BY ReadWhole
  <1>2. FileInv'
    BY DEF Manage, Detect, Open, Crash, Begin, FileInv, files, history
  <1>3. CASE Detect(m) \/ Open(m) \/ Crash(m)
    <2>1. OneSave'
      BY <1>3 DEF Detect, Open, Crash, OneSave, PlanesInv, TypeOK
    <2>2. /\ pc'[m] \in {"closed", "detected", "idle"}
          /\ pc'[m] # "closed" => backend'[m] = "canonical"
      BY <1>1, <1>3 DEF Detect, Open, Crash, Goto, PlanesInv, TypeOK, SaveInv
    <2>3. SaveInv(m)'
      BY <2>2 DEF SaveInv
    <2>4. ASSUME NEW o \in Manager, o # m PROVE SaveInv(o)'
      <3>1. UNCHANGED <<pc[o], backend[o], mem[o], job[o], fd[o], saved, temp, inode>>
        BY <1>3, <2>4 DEF Detect, Open, Crash, Goto, PlanesInv, TypeOK, files, history
      <3> QED
        BY <3>1 DEF SaveInv
    <2> QED
      BY <1>2, <2>1, <2>3, <2>4
  <1>4. ASSUME NEW e \in Edit, Begin(m, e) PROVE OneSave' /\ \A o \in Manager : SaveInv(o)'
    <2>1. \A o \in Manager : job[o] = NoEdit
      BY <1>4 DEF Begin
    <2>2. OneSave'
      BY <1>4, <2>1 DEF Begin, OneSave, PlanesInv, TypeOK
    <2>3. backend[m] = "canonical"
      BY <1>4 DEF Begin, SaveInv
    <2>4. pc'[m] = "create" /\ backend' = backend /\ job'[m] = e /\ saved' = saved
      BY <1>4, <2>3 DEF Begin, Goto, PlanesInv, TypeOK
    <2>5. mem'[m] = StoreFile.edits \cup {e}
      BY <1>1, <1>4, <2>3 DEF Begin, Reloaded, PlanesInv, TypeOK
    <2>6. SaveInv(m)'
      BY <1>1, <2>3, <2>4, <2>5 DEF SaveInv, FileInv
    <2>7. ASSUME NEW o \in Manager, o # m PROVE SaveInv(o)'
      <3>1. pc[o] \notin Saving
        BY <2>1 DEF PlanesInv, JobInv
      <3>2. pc'[o] = pc[o] /\ backend'[o] = backend[o]
        BY <1>4, <2>4, <2>7 DEF Begin, Goto, PlanesInv, TypeOK
      <3> QED
        BY <3>1, <3>2, OthersKept
    <2> QED
      BY <2>2, <2>6, <2>7
  <1> QED
    BY <1>2, <1>3, <1>4 DEF Manage

LEMMA WholeSave ==
    ASSUME PlanesInv, FileInv, OneSave, \A m \in Manager : SaveInv(m),
           NEW m \in Manager, Save(m) \/ LegacySave(m)
    PROVE  FileInv' /\ OneSave' /\ \A o \in Manager : SaveInv(o)'
  <1>0. m \in Writer /\ SaveInv(m) /\ None \notin Inode
    BY PlanesAssumption DEF Writer, None
  <1>1. pc[m] \in Saving
    BY DEF Save, LegacySave, CreateTemp, WriteTemp, WriteFails, Rename, RenameFails,
           RemoveDestination, Retry, Cleanup, LegacyCreate, LegacyWrite, Saving
  <1>2. backend' = backend /\ mem' = mem /\ gate' = gate
        /\ \A o \in Manager : o # m => pc'[o] = pc[o] /\ job'[o] = job[o]
    BY DEF Save, LegacySave, CreateTemp, WriteTemp, WriteFails, Rename, RenameFails,
           RemoveDestination, Retry, Cleanup, LegacyCreate, LegacyWrite, Returns, Goto,
           PlanesInv, TypeOK, history, files
  <1>3. \A o \in Manager : o # m => SaveInv(o)'
    BY <1>1, <1>2, OthersIdle, OthersKept
  <1>4. job'[m] \in {job[m], NoEdit}
    BY DEF Save, LegacySave, CreateTemp, WriteTemp, WriteFails, Rename, RenameFails,
           RemoveDestination, Retry, Cleanup, LegacyCreate, LegacyWrite, Returns,
           PlanesInv, TypeOK, history, files
  <1>5. OneSave'
    BY <1>2, <1>4 DEF OneSave
  <1>6. CASE CreateTemp(m)
    <2>1. /\ fd'[m] \in Inode /\ inode' = [inode EXCEPT ![fd'[m]] = Empty]
          /\ temp # None => fd'[m] = temp
          /\ temp = None => Unused(fd'[m])
      BY <1>0, <1>6, TruncateOK DEF CreateTemp, PlanesInv
    <2>2. /\ temp' = fd'[m] /\ store' = store /\ pc'[m] = "write" /\ job' = job /\ saved' = saved
      BY <1>6 DEF CreateTemp, Goto, PlanesInv, TypeOK, history
    <2>3. fd'[m] # store
      BY <2>1 DEF FileInv, Unused
    <2>4. inode'[store] = inode[store] /\ inode'[temp'] = Empty
      BY <2>1, <2>2, <2>3 DEF FileInv, PlanesInv, TypeOK
    <2>5. FileInv'
      BY <1>2, <2>1, <2>2, <2>3, <2>4 DEF FileInv
    <2>6. SaveInv(m)'
      BY <1>0, <1>2, <1>6, <2>1, <2>2, <2>4 DEF SaveInv, CreateTemp
    <2> QED
      BY <1>3, <1>5, <2>5, <2>6
  <1>7. CASE WriteTemp(m)
    <2>1. fd[m] = temp /\ temp \in Inode /\ inode[temp] = Empty
      BY <1>0, <1>7 DEF SaveInv, WriteTemp
    <2>2. inode[fd[m]].format = "empty"
      BY <2>1 DEF Empty
    <2>3. inode' = [inode EXCEPT ![temp] = Canonical(mem[m])]
      BY <1>7, <2>1, <2>2 DEF WriteTemp, WriteAll
    <2>4. /\ temp' = temp /\ store' = store /\ pc'[m] = "rename" /\ job' = job /\ saved' = saved
      BY <1>7 DEF WriteTemp, Goto, PlanesInv, TypeOK, history
    <2>5. inode'[store] = inode[store] /\ inode'[temp] = Canonical(mem[m])
      BY <2>1, <2>3 DEF FileInv, PlanesInv, TypeOK
    <2>6. FileInv'
      BY <1>2, <2>4, <2>5 DEF FileInv
    <2>7. SaveInv(m)'
      BY <1>0, <1>2, <1>7, <2>1, <2>4, <2>5 DEF SaveInv, WriteTemp
    <2> QED
      BY <1>3, <1>5, <2>6, <2>7
  <1>8. CASE WriteFails(m)
    <2>1. /\ temp' = None /\ store' = store /\ inode' = inode /\ pc'[m] = "idle" /\ saved' = saved
      BY <1>8 DEF WriteFails, Returns, Goto, PlanesInv, TypeOK
    <2>2. FileInv'
      BY <1>0, <1>2, <2>1 DEF FileInv
    <2>3. SaveInv(m)'
      BY <1>0, <1>2, <1>8, <2>1 DEF SaveInv, WriteFails
    <2> QED
      BY <1>3, <1>5, <2>2, <2>3
  <1>9. CASE Rename(m)
    <2>1. temp \in Inode /\ inode[temp] = Canonical(mem[m]) /\ saved \cup {job[m]} \subseteq mem[m]
      BY <1>0, <1>9 DEF SaveInv, Rename
    <2>2. /\ temp' = None /\ store' = temp /\ inode' = inode /\ pc'[m] = "idle"
          /\ saved' = saved \cup {job[m]}
      BY <1>9 DEF Rename, Returns, Goto, PlanesInv, TypeOK
    <2>3. inode'[store'].format = "canonical" /\ inode'[store'].edits = mem[m]
      BY <2>1, <2>2 DEF Canonical
    <2>4. FileInv'
      BY <1>0, <1>2, <2>1, <2>2, <2>3 DEF FileInv
    <2>5. SaveInv(m)'
      BY <1>0, <1>2, <1>9, <2>2 DEF SaveInv, Rename
    <2> QED
      BY <1>3, <1>5, <2>4, <2>5
  <1>10. CASE RenameFails(m) \/ RemoveDestination(m) \/ Retry(m) \/ Cleanup(m) \/ LegacySave(m)
    BY <1>0, <1>10 DEF SaveInv, RenameFails, RemoveDestination, Retry, Cleanup, LegacySave,
                       LegacyCreate, LegacyWrite
  <1> QED
    BY <1>6, <1>7, <1>8, <1>9, <1>10 DEF Save

LEMMA WholeStep == PlanesInv /\ WholeInv /\ [Next]_vars => WholeInv'
  <1> SUFFICES ASSUME PlanesInv, WholeInv, [Next]_vars, ~overlap'
               PROVE  FileInv' /\ OneSave' /\ \A m \in Manager : SaveInv(m)'
    BY DEF WholeInv
  <1>1. ~overlap
    BY DEF Next, ManageNext, Manage, Save, LegacySave, Detect, Open, Crash, Begin, CreateTemp,
           WriteTemp, WriteFails, Rename, RenameFails, RemoveDestination, Retry, Cleanup,
           LegacyCreate, LegacyWrite, GateFindsMissing, GateCreates, GateWrites, vars, history
  <1>2. FileInv /\ OneSave /\ \A m \in Manager : SaveInv(m)
    BY <1>1 DEF WholeInv
  <1>3. CASE UNCHANGED vars
    BY <1>2, <1>3 DEF vars, FileInv, OneSave, SaveInv
  <1>4. CASE GateFindsMissing \/ GateCreates \/ GateWrites
    BY <1>2, <1>4, PlanesAssumption DEF FileInv, GateFindsMissing, GateCreates, GateWrites, None
  <1> QED
    BY <1>1, <1>2, <1>3, <1>4, WholeManage, WholeSave DEF Next, ManageNext

\* On a store file that exists the inductive invariant holds of every behaviour.
THEOREM PlanesWhole ==
    ASSUME Present
    PROVE  Spec => []WholeInv
  <1>1. Init => WholeInv
    <2> SUFFICES ASSUME Init PROVE WholeInv
      OBVIOUS
    <2>1. store = 1 /\ temp = None /\ inode[1] = Canonical({}) /\ 1 \in Inode /\ 1 # None
      BY PlanesAssumption DEF Init, None
    <2>2. FileInv
      BY <2>1 DEF Init, FileInv, Canonical
    <2> QED
      BY <2>2 DEF Init, WholeInv, OneSave, SaveInv
  <1> QED
    BY <1>1, WholeStep, PlanesInvariant, PTL DEF Spec

(***************************************************************************)
(* Whatever managers open, edit, save and die, in turns, a reader of the   *)
(* store file finds a whole canonical store at every moment                *)
(* (atomic_write).                                                         *)
(***************************************************************************)
THEOREM PlanesReadersSeeWhole ==
    ASSUME Present
    PROVE  Spec => []ReadersSeeWhole
  <1>1. WholeInv => ReadersSeeWhole
    BY ReadWhole DEF WholeInv, ReadersSeeWhole
  <1> QED
    BY PlanesWhole, <1>1, PTL

(***************************************************************************)
(* In turns no acknowledged edit is lost, however stale the copies of the  *)
(* managers are and whoever dies before its rename (reload, persist).      *)
(***************************************************************************)
THEOREM PlanesTurnsKeepEdits ==
    ASSUME Present
    PROVE  Spec => []TurnsKeepEdits
  <1>1. WholeInv => TurnsKeepEdits
    BY ReadWhole DEF WholeInv, FileInv, TurnsKeepEdits
  <1> QED
    BY PlanesWhole, <1>1, PTL
=============================================================================
