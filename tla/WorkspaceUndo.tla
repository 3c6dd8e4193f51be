---------------------------- MODULE WorkspaceUndo ----------------------------
(***************************************************************************)
(* The shared step executor and its backups (exec.rs), as the server's L3  *)
(* path (l3_run_workflow) and the gate's runner (LocalRunner) drive it:    *)
(* a workflow changes the files of a workspace step by step, each step     *)
(* backs up the paths it is about to change, and a manifest written after  *)
(* the last step lets the run be undone.  Any step may fail half-way, and  *)
(* the server may die between two steps of a run or of a restore.          *)
(*                                                                         *)
(* A path is "none", "dir" or has a content.  Inputs: moves are moves of   *)
(* files (a directory can be moved only if the run itself made it), and    *)
(* different paths are different files, neither links nor another case of  *)
(* the same name.                                                          *)
(***************************************************************************)
EXTENDS Naturals, Sequences

CONSTANTS
    Path,            \* paths relative to the workspace
    Above,           \* Above[p]: the directories above p, up to the workspace
    ManifestPath,    \* the path called manifest.json
    Content,         \* what files hold; "torn" is a write that was cut short
    Driver,          \* "l3" or "gate"
    MaxSteps         \* bound: steps of a workflow

ASSUME PathAssumption ==
    /\ ManifestPath \in Path
    /\ Above \in [Path -> SUBSET Path]
    /\ \A p \in Path : p \notin Above[p] /\ \A q \in Above[p] : Above[q] \subseteq Above[p]
    /\ Driver \in {"l3", "gate"} /\ MaxSteps \in Nat
    /\ \A s \in {"none", "dir", "torn", "manifest"} : s \notin Content

VARIABLES
    fs,        \* the workspace
    before,    \* history: the workspace when the run began
    foreign,   \* history: paths that programs the run started have changed
    entries,   \* the backup entries of the run (of the last step, under the gate)
    copies,    \* the files under the backup root
    manifest,  \* the manifest has been written
    steps,     \* steps done
    phase,     \* "run", "over", "restore", "restored" or "stuck"
    left       \* entries the restore has still to do

vars == <<fs, before, foreign, entries, copies, manifest, steps, phase, left>>

File  == Content \cup {"torn", "manifest"}
State == File \cup {"none", "dir"}

\* A path exists only in a directory.
Tree(f) == \A p \in Path : f[p] # "none" => \A q \in Above[p] : f[q] = "dir"

Init ==
    /\ fs \in [Path -> Content \cup {"none", "dir"}] /\ Tree(fs)
    /\ before = fs
    /\ foreign = {}
    /\ entries = <<>>
    /\ copies = [p \in Path |-> "none"]
    /\ manifest = FALSE
    /\ steps = 0
    /\ phase = "run"
    /\ left = 0
-----------------------------------------------------------------------------
(* Backups *)

\* The entries a step finds: those of the run, or none, since LocalRunner gives
\* every step a fresh list.
Known == IF Driver = "l3" THEN entries ELSE <<>>

Names(es, p) == \E k \in 1..Len(es) : es[k].path = p
Recorded(p)  == Names(Known, p)

Entry(p) == [path |-> p, existed |-> fs[p] # "none"]

\* fs::copy refuses a directory, unless the path needs no copy any more.
CanBackUp(p) == Recorded(p) \/ fs[p] # "dir"

\* ensure_backup skips a path that the run has recorded.
Ensured(es, p) == IF Names(es, p) THEN es ELSE Append(es, Entry(p))

\* The paths that a step is about to change, p then q, are backed up.
BackUp(p, q) ==
    /\ entries' = Ensured(Ensured(Known, p), q)
    /\ copies' = [r \in Path |->
                    IF r \in {p, q} /\ ~Recorded(r) /\ fs[r] # "none"
                    THEN fs[r] ELSE copies[r]]

StepBegins == phase = "run" /\ steps < MaxSteps
StepEnds ==
    /\ steps' = steps + 1
    /\ UNCHANGED <<before, manifest, phase, left>>

\* create_parents: missing directories above a path are made, and not recorded.
CanMakeParents(p) == \A q \in Above[p] : fs[q] \in {"none", "dir"}
WithParents(p)    == [q \in Path |-> IF q \in Above[p] THEN "dir" ELSE fs[q]]
-----------------------------------------------------------------------------
(* The steps of a workflow *)

\* write_file and append_file.
WriteFile(p, c) ==
    /\ StepBegins
    /\ CanBackUp(p) /\ CanMakeParents(p) /\ fs[p] # "dir"
    /\ BackUp(p, p)
    /\ fs' = [WithParents(p) EXCEPT ![p] = c]
    /\ StepEnds
    /\ UNCHANGED foreign

\* mkdir: a directory that is not there is recorded first.
Mkdir(p) ==
    /\ StepBegins
    /\ CanMakeParents(p) /\ fs[p] \in {"none", "dir"}
    /\ IF fs[p] = "none" THEN BackUp(p, p) ELSE UNCHANGED <<entries, copies>>
    /\ fs' = [WithParents(p) EXCEPT ![p] = "dir"]
    /\ StepEnds
    /\ UNCHANGED foreign

CopyFile(p, q) ==
    /\ StepBegins
    /\ fs[p] \in File /\ CanBackUp(q) /\ CanMakeParents(q) /\ fs[q] # "dir"
    /\ BackUp(q, q)
    /\ fs' = [WithParents(q) EXCEPT ![q] = fs[p]]
    /\ StepEnds
    /\ UNCHANGED foreign

\* Mutant of MoveFile: only the end that is written is backed up.
MoveFileTarget(p, q) ==
    /\ StepBegins /\ p # q /\ fs[p] \in File
    /\ CanBackUp(q) /\ CanMakeParents(q) /\ fs[q] # "dir" /\ BackUp(q, q)
    /\ fs' = [WithParents(q) EXCEPT ![q] = fs[p], ![p] = "none"]
    /\ StepEnds /\ UNCHANGED foreign

\* Both ends are backed up: the source disappears, the target is overwritten.
MoveFile(p, q) ==
    /\ StepBegins
    /\ p # q /\ fs[p] \in File
    /\ CanBackUp(q) /\ CanMakeParents(q) /\ fs[q] # "dir"
    /\ BackUp(p, q)
    /\ fs' = [WithParents(q) EXCEPT ![q] = fs[p], ![p] = "none"]
    /\ StepEnds
    /\ UNCHANGED foreign

\* Deleting what is not there is recorded and changes nothing.
DeleteFile(p) ==
    /\ StepBegins
    /\ CanBackUp(p) /\ fs[p] # "dir"
    /\ BackUp(p, p)
    /\ fs' = [fs EXCEPT ![p] = "none"]
    /\ StepEnds
    /\ UNCHANGED foreign

\* exec: a program changes a file; the executor does not know which.  (Directories
\* that a program makes or removes are left out.)
ExecProgram(p, c) ==
    /\ StepBegins
    /\ fs[p] # "dir" /\ \A q \in Above[p] : fs[q] = "dir"
    /\ fs' = [fs EXCEPT ![p] = c]
    /\ foreign' = foreign \cup {p}
    /\ StepEnds
    /\ UNCHANGED <<entries, copies>>

\* A step fails: denied or rejected, or after the backup of its path (of both, in
\* a move), the making of the parents, or a write that was cut short.
StepFails(p, q) ==
    /\ StepBegins
    /\ \/ UNCHANGED <<fs, entries, copies>>
       \/ /\ CanBackUp(p) /\ CanBackUp(q) /\ (p # q => fs[p] \in File)
          /\ BackUp(p, q)
          /\ \/ UNCHANGED fs
             \/ CanMakeParents(q) /\ fs' = WithParents(q)
             \/ /\ p = q /\ CanMakeParents(q) /\ fs[q] # "dir"
                /\ fs' = [WithParents(q) EXCEPT ![q] = "torn"]
    /\ steps' = MaxSteps
    /\ UNCHANGED <<before, foreign, manifest, phase, left>>
-----------------------------------------------------------------------------
(* The end of the run, and its undoing *)

\* write_backup_manifest, whether the steps succeeded or not; the manifest has
\* the place under the backup root that a file of its name would have.
WriteManifest ==
    /\ Driver = "l3" /\ phase = "run"
    /\ manifest' = TRUE
    /\ copies' = [copies EXCEPT ![ManifestPath] = "manifest"]
    /\ phase' = "over"
    /\ UNCHANGED <<fs, before, foreign, entries, steps, left>>

\* The run is over without a manifest: the gate writes none, the server died, or
\* the disk is full, when a copy of that name is already cut short.
NoManifest ==
    /\ phase = "run"
    /\ \/ UNCHANGED copies
       \/ Driver = "l3" /\ copies' = [copies EXCEPT ![ManifestPath] = "torn"]
    /\ phase' = "over"
    /\ UNCHANGED <<fs, before, foreign, entries, manifest, steps, left>>

\* restore_from_manifest, also after one that did not get to its end.
BeginRestore ==
    /\ phase \in {"over", "stuck", "restored"} /\ manifest
    /\ phase' = "restore"
    /\ left' = Len(entries)
    /\ UNCHANGED <<fs, before, foreign, entries, copies, manifest, steps>>

\* Mutant of Reverted: what the run created is left where it is.
RevertedKeeps(e) ==
    IF e.existed THEN [WithParents(e.path) EXCEPT ![e.path] = copies[e.path]] ELSE fs

\* The workspace with one entry undone: the copy is copied back, or the path is
\* removed with all that is below it.
Reverted(e) ==
    IF e.existed
    THEN [WithParents(e.path) EXCEPT ![e.path] = copies[e.path]]
    ELSE [q \in Path |-> IF q = e.path \/ e.path \in Above[q] THEN "none" ELSE fs[q]]

\* A file is not copied onto a directory.
CanRevert(e) == e.existed => CanMakeParents(e.path) /\ fs[e.path] # "dir"

RestoreEntry ==
    /\ phase = "restore" /\ left > 0
    /\ CanRevert(entries[left])
    /\ fs' = Reverted(entries[left])
    /\ left' = left - 1
    /\ UNCHANGED <<before, foreign, entries, copies, manifest, steps, phase>>

\* The first entry that cannot be undone ends the restore.
RestoreStuck ==
    /\ phase = "restore" /\ left > 0
    /\ ~CanRevert(entries[left])
    /\ phase' = "stuck"
    /\ UNCHANGED <<fs, before, foreign, entries, copies, manifest, steps, left>>

\* remove_dir_all is cut short: some of what is below p is gone.
PartlyRemoved(p) ==
    /\ \E gone \in SUBSET {q \in Path : p \in Above[q]} :
          fs' = [q \in Path |-> IF q \in gone THEN "none" ELSE fs[q]]
    /\ Tree(fs')

\* The server dies, or a copy or a removal is cut short.
RestoreFails ==
    /\ phase = "restore" /\ left > 0
    /\ LET e == entries[left] IN
       \/ UNCHANGED fs
       \/ e.existed /\ CanMakeParents(e.path) /\ fs' = WithParents(e.path)
       \/ e.existed /\ CanRevert(e) /\ fs' = [WithParents(e.path) EXCEPT ![e.path] = "torn"]
       \/ ~e.existed /\ PartlyRemoved(e.path)
    /\ phase' = "stuck"
    /\ UNCHANGED <<before, foreign, entries, copies, manifest, steps, left>>

RestoreEnds ==
    /\ phase = "restore" /\ left = 0
    /\ phase' = "restored"
    /\ UNCHANGED <<fs, before, foreign, entries, copies, manifest, steps, left>>
-----------------------------------------------------------------------------
Next ==
    \/ \E p \in Path : Mkdir(p) \/ DeleteFile(p)
    \/ \E p \in Path, c \in Content : WriteFile(p, c)
    \/ \E p \in Path, c \in Content \cup {"none"} : ExecProgram(p, c)
    \/ \E p, q \in Path : CopyFile(p, q) \/ MoveFile(p, q) \/ StepFails(p, q)
    \/ WriteManifest \/ NoManifest
    \/ BeginRestore \/ RestoreEntry \/ RestoreStuck \/ RestoreFails \/ RestoreEnds

Spec == Init /\ [][Next]_vars
-----------------------------------------------------------------------------
(* Properties *)

\* Every variable has its type, the workspace is a tree, and no path is
\* recorded twice.
TypeOK ==
    /\ fs \in [Path -> State] /\ Tree(fs)
    /\ before \in [Path -> State]
    /\ foreign \subseteq Path
    /\ entries \in Seq([path : Path, existed : BOOLEAN])
    /\ \A j, k \in 1..Len(entries) : entries[j].path = entries[k].path => j = k
    /\ copies \in [Path -> File \cup {"none"}]
    /\ manifest \in BOOLEAN
    /\ steps \in 0..MaxSteps
    /\ phase \in {"run", "over", "restore", "restored", "stuck"}
    /\ left \in 0..Len(entries)

\* "backed up before its first mutation" (exec.rs:9): at any moment the
\* original of every file that the run's own steps have changed is under the
\* backup root.  A file called manifest.json loses its copy to the manifest.
OriginalKept ==
    \A p \in Path \ foreign :
        before[p] \in Content /\ fs[p] # before[p] =>
            copies[p] = before[p] \/ (p = ManifestPath /\ phase # "run")
\* The backups of a run are in order at every moment: the entries name each path
\* once (ensure_backup), the workspace is a tree, and the originals are there.
BackupsKept == TypeOK /\ OriginalKept

\* p is as it was before the run, or a directory is there that was not.
Undone(p) == fs[p] = before[p] \/ (before[p] = "none" /\ fs[p] = "dir")

\* "copies backups back and deletes paths that did not exist before the run"
\* (exec.rs:883): a restore that ends, be it the second one after an interrupted
\* first, has undone all that the run's own steps did, whichever of them failed,
\* but for directories made on the way and a file called manifest.json.
RestoreUndoes ==
    phase = "restored" => \A p \in Path \ (foreign \cup {ManifestPath}) : Undone(p)

\* The same of every path; a file called manifest.json refutes it.
RestoreUndoesAll == phase = "restored" => \A p \in Path \ foreign : Undone(p)
=============================================================================
