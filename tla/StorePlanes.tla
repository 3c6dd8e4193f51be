----------------------------- MODULE StorePlanes -----------------------------
(***************************************************************************)
(* One store file, several processes.  Management services (CLI runs, the  *)
(* app-server, the TUI) each keep a copy of the store, reload it before a  *)
(* change and save the whole of it: the canonical backend through          *)
(* `atomic_write` (a temporary file with a fixed name, then rename), the   *)
(* legacy backend by writing in place.  The execution plane creates the    *)
(* file when it is missing.  Nothing locks the file, so every file-system  *)
(* call is a step of its own; a process may die between any two.           *)
(*                                                                         *)
(* A store is abstracted to the set of edits that its contents reflect.    *)
(***************************************************************************)
EXTENDS Naturals, FiniteSets

CONSTANTS
    Manager,   \* management services
    Edit,      \* the changes they are asked to make, each once
    NoEdit,    \* a manager that is not making one
    Inode,     \* file objects; 0 is "no file"
    Present    \* the store file exists initially

\* There are file objects enough for two names and for every open writer.
ASSUME PlanesAssumption ==
    /\ NoEdit \notin Edit
    /\ Inode \subseteq Nat \ {0}
    /\ 1 \in Inode
    /\ IsFiniteSet(Manager) /\ IsFiniteSet(Inode)
    /\ Cardinality(Inode) >= Cardinality(Manager) + 3
    /\ Present \in BOOLEAN

VARIABLES
    inode,    \* the content of each file object
    store,    \* the file object store.json names
    temp,     \* the file object .store.json.tmp names
    pc,       \* the next file-system call of each manager
    backend,  \* which writer owns the file, as each manager detected it
    mem,      \* the edits in each manager's copy
    job,      \* the edit each manager is making
    fd,       \* the file object each writer has open for writing
    gate,     \* the execution plane's ensure_default_store
    begun,    \* history: the edits that were begun
    saved,    \* history: the edits whose save returned Ok
    overlap   \* history: has a manager begun a change while another was saving

vars == <<inode, store, temp, pc, backend, mem, job, fd, gate, begun, saved, overlap>>

None == 0
Gate == "gate"

Content == [format : {"canonical", "legacy", "empty", "torn"}, edits : SUBSET Edit]

Empty        == [format |-> "empty", edits |-> {}]
Torn         == [format |-> "torn", edits |-> {}]
Canonical(s) == [format |-> "canonical", edits |-> s]
Legacy(s)    == [format |-> "legacy", edits |-> s]

\* What a read of store.json finds; a missing file is read as Missing.
Missing   == [format |-> "missing", edits |-> {}]
StoreFile == IF store = None THEN Missing ELSE inode[store]

Unused(i) == i # store /\ i # temp /\ \A w \in DOMAIN fd : fd[w] # i

Init ==
    /\ inode = [i \in Inode |-> Canonical({})]
    /\ store = IF Present THEN 1 ELSE None
    /\ temp = None
    /\ pc = [m \in Manager |-> "closed"]
    /\ backend = [m \in Manager |-> "legacy"]
    /\ mem = [m \in Manager |-> {}]
    /\ job = [m \in Manager |-> NoEdit]
    /\ fd = [w \in Manager \cup {Gate} |-> None]
    /\ gate = "idle"
    /\ begun = {}
    /\ saved = {}
    /\ overlap = FALSE

files   == <<inode, store, temp, fd>>
history == <<begun, saved, overlap>>

Goto(m, l) == pc' = [pc EXCEPT ![m] = l]
-----------------------------------------------------------------------------
(* A management service is opened: detect_format, then the chosen reader *)

Detect(m) ==
    /\ pc[m] = "closed"
    /\ Goto(m, "detected")
    /\ backend' = [backend EXCEPT ![m] =
          IF StoreFile.format = "canonical" THEN "canonical" ELSE "legacy"]
    /\ UNCHANGED <<files, mem, job, gate, history>>

\* A canonical file that no longer opens falls back to the legacy view.
Open(m) ==
    /\ pc[m] = "detected"
    /\ Goto(m, "idle")
    /\ backend' = [backend EXCEPT ![m] =
          IF @ = "canonical" /\ StoreFile.format \in {"canonical", "missing"}
          THEN "canonical" ELSE "legacy"]
    /\ mem' = [mem EXCEPT ![m] =
          IF StoreFile.format = backend'[m] THEN StoreFile.edits ELSE {}]
    /\ UNCHANGED <<files, job, gate, history>>

\* Mutant of Reloaded: every change starts from an empty store.
ReloadedEmpty(m) == {}

(***************************************************************************)
(* reload: the canonical reader keeps the old copy when the file does not  *)
(* open, the legacy one starts from nothing; a missing file is an empty    *)
(* store for both.                                                         *)
(***************************************************************************)
Reloaded(m) ==
    IF StoreFile.format = backend[m] THEN StoreFile.edits
    ELSE IF backend[m] = "canonical" /\ StoreFile.format # "missing" THEN mem[m]
    ELSE {}

\* A mutating call: reload, change the copy, and go on to save it.
Begin(m, e) ==
    /\ pc[m] = "idle"
    /\ e \notin begun
    /\ Goto(m, IF backend[m] = "canonical" THEN "create" ELSE "legacy_create")
    /\ mem' = [mem EXCEPT ![m] = Reloaded(m) \cup {e}]
    /\ job' = [job EXCEPT ![m] = e]
    /\ begun' = begun \cup {e}
    /\ overlap' = (overlap \/ \E o \in Manager : job[o] # NoEdit)
    /\ UNCHANGED <<files, backend, gate, saved>>

\* Mutant of Returns: the edit is reported after it was forgotten.
ReturnsLate(m, ok) ==
    /\ Goto(m, "idle") /\ job' = [job EXCEPT ![m] = NoEdit]
    /\ saved' = IF ok THEN saved \cup {job'[m]} ELSE saved

\* The save of m's edit has returned.
Returns(m, ok) ==
    /\ Goto(m, "idle")
    /\ job' = [job EXCEPT ![m] = NoEdit]
    /\ saved' = IF ok THEN saved \cup {job[m]} ELSE saved

-----------------------------------------------------------------------------
(* fs::write: open with truncation, then one write *)

\* The file object the path names is truncated, or a new one is created.
Truncate(w, name) ==
    LET i == IF name # None THEN name ELSE CHOOSE j \in Inode : Unused(j)
    IN  /\ inode' = [inode EXCEPT ![i] = Empty]
        /\ fd' = [fd EXCEPT ![w] = i]

(***************************************************************************)
(* Written over what another writer put there meanwhile, the bytes replace *)
(* it only if they are at least as long.                                   *)
(***************************************************************************)
WriteAll(w, c) ==
    /\ \/ inode' = [inode EXCEPT ![fd[w]] = c]
       \/ /\ inode[fd[w]].format # "empty"
          /\ inode' = [inode EXCEPT ![fd[w]] = Torn]
    /\ fd' = [fd EXCEPT ![w] = None]

-----------------------------------------------------------------------------
(* atomic_write *)

\* Mutant of CreateTemp: the store itself is written, without a temporary file.
CreateInPlace(m) ==
    /\ pc[m] = "create" /\ Goto(m, "write")
    /\ Truncate(m, store) /\ store' = fd'[m]
    /\ UNCHANGED <<temp, backend, mem, job, gate, history>>

CreateTemp(m) ==
    /\ pc[m] = "create"
    /\ Goto(m, "write")
    /\ Truncate(m, temp)
    /\ temp' = fd'[m]
    /\ UNCHANGED <<store, backend, mem, job, gate, history>>

WriteTemp(m) ==
    /\ pc[m] = "write"
    /\ Goto(m, "rename")
    /\ WriteAll(m, Canonical(mem[m]))
    /\ UNCHANGED <<store, temp, backend, mem, job, gate, history>>

\* The write failed (disk full): the temporary file is removed.
WriteFails(m) ==
    /\ pc[m] = "write"
    /\ fd' = [fd EXCEPT ![m] = None]
    /\ temp' = None
    /\ Returns(m, FALSE)
    /\ UNCHANGED <<inode, store, backend, mem, gate, begun, overlap>>

Rename(m) ==
    /\ pc[m] = "rename"
    /\ temp # None
    /\ store' = temp
    /\ temp' = None
    /\ Returns(m, TRUE)
    /\ UNCHANGED <<inode, fd, backend, mem, gate, begun, overlap>>

\* The temporary file is gone: the error is taken for "destination exists".
RenameFails(m) ==
    /\ pc[m] = "rename"
    /\ temp = None
    /\ Goto(m, "remove")
    /\ UNCHANGED <<files, backend, mem, job, gate, history>>

RemoveDestination(m) ==
    /\ pc[m] = "remove"
    /\ Goto(m, IF store # None THEN "retry" ELSE "cleanup")
    /\ store' = None
    /\ UNCHANGED <<inode, temp, fd, backend, mem, job, gate, history>>

\* Mutant of Retry: the rename is retried for as long as it fails.
RetryForever(m) ==
    /\ pc[m] = "retry"
    /\ IF temp # None
       THEN store' = temp /\ temp' = None /\ Returns(m, TRUE)
       ELSE Goto(m, "retry") /\ UNCHANGED <<store, temp, job, saved>>
    /\ UNCHANGED <<inode, fd, backend, mem, gate, begun, overlap>>

Retry(m) ==
    /\ pc[m] = "retry"
    /\ IF temp # None
       THEN store' = temp /\ temp' = None /\ Returns(m, TRUE)
       ELSE Goto(m, "cleanup") /\ UNCHANGED <<store, temp, job, saved>>
    /\ UNCHANGED <<inode, fd, backend, mem, gate, begun, overlap>>

Cleanup(m) ==
    /\ pc[m] = "cleanup"
    /\ temp' = None
    /\ Returns(m, FALSE)
    /\ UNCHANGED <<inode, store, fd, backend, mem, gate, begun, overlap>>

-----------------------------------------------------------------------------
(* The legacy backend writes the store file in place *)

LegacyCreate(m) ==
    /\ pc[m] = "legacy_create"
    /\ Goto(m, "legacy_write")
    /\ Truncate(m, store)
    /\ store' = fd'[m]
    /\ UNCHANGED <<temp, backend, mem, job, gate, history>>

LegacyWrite(m) ==
    /\ pc[m] = "legacy_write"
    /\ WriteAll(m, Legacy(mem[m]))
    /\ Returns(m, TRUE)
    /\ UNCHANGED <<store, temp, backend, mem, gate, begun, overlap>>

\* The process dies; what it wrote stays.
Crash(m) ==
    /\ pc[m] # "closed"
    /\ Goto(m, "closed")
    /\ backend' = [backend EXCEPT ![m] = "legacy"]
    /\ mem' = [mem EXCEPT ![m] = {}]
    /\ job' = [job EXCEPT ![m] = NoEdit]
    /\ fd' = [fd EXCEPT ![m] = None]
    /\ UNCHANGED <<inode, store, temp, gate, history>>

-----------------------------------------------------------------------------
(* The execution plane: ensure_default_store *)

GateFindsMissing ==
    /\ gate = "idle"
    /\ store = None
    /\ gate' = "create"
    /\ UNCHANGED <<files, pc, backend, mem, job, history>>

GateCreates ==
    /\ gate = "create"
    /\ Truncate(Gate, store)
    /\ store' = fd'[Gate]
    /\ gate' = "write"
    /\ UNCHANGED <<temp, pc, backend, mem, job, history>>

GateWrites ==
    /\ gate = "write"
    /\ WriteAll(Gate, Canonical({}))
    /\ gate' = "idle"
    /\ UNCHANGED <<store, temp, pc, backend, mem, job, history>>

-----------------------------------------------------------------------------
Save(m) ==
    \/ CreateTemp(m) \/ WriteTemp(m) \/ WriteFails(m) \/ Rename(m)
    \/ RenameFails(m) \/ RemoveDestination(m) \/ Retry(m) \/ Cleanup(m)

LegacySave(m) == LegacyCreate(m) \/ LegacyWrite(m)

Manage(m) ==
    \/ Detect(m) \/ Open(m) \/ Crash(m)
    \/ \E e \in Edit : Begin(m, e)

\* Management alone, on a store that exists.
ManageNext == \E m \in Manager : Manage(m) \/ Save(m) \/ LegacySave(m)

Next ==
    \/ ManageNext
    \/ GateFindsMissing \/ GateCreates \/ GateWrites

\* A process that does not die carries the save it has begun to its end.
Fairness == \A m \in Manager : WF_vars(Save(m) \/ LegacySave(m))

ManageSpec == Init /\ [][ManageNext]_vars /\ Fairness

Spec == Init /\ [][Next]_vars /\ Fairness
-----------------------------------------------------------------------------
(* Correctness *)

TypeOK ==
    /\ inode \in [Inode -> Content]
    /\ store \in Inode \cup {None}
    /\ temp \in Inode \cup {None}
    /\ pc \in [Manager -> {"closed", "detected", "idle", "create", "write", "rename",
                           "remove", "retry", "cleanup", "legacy_create", "legacy_write"}]
    /\ backend \in [Manager -> {"canonical", "legacy"}]
    /\ mem \in [Manager -> SUBSET Edit]
    /\ job \in [Manager -> Edit \cup {NoEdit}]
    /\ fd \in [Manager \cup {Gate} -> Inode \cup {None}]
    /\ gate \in {"idle", "create", "write"}
    /\ begun \subseteq Edit
    /\ saved \subseteq begun
    /\ overlap \in BOOLEAN

(***************************************************************************)
(* As long as no change was begun while another was being saved, whatever  *)
(* moment a reader opens the file at and wherever a writer died, it finds  *)
(* a whole canonical store (atomic_write).                                 *)
(***************************************************************************)
ReadersSeeWhole == ~overlap => StoreFile.format = "canonical"

(***************************************************************************)
(* Under the same condition an edit whose save returned Ok stays in the    *)
(* file, whichever managers follow, however stale their copies and however *)
(* many of them die (reload, persist).                                     *)
(***************************************************************************)
TurnsKeepEdits == ~overlap => saved \subseteq StoreFile.edits

(***************************************************************************)
(* "Never overwrite a store the running agent just changed" (reload): an   *)
(* edit whose save returned Ok stays in the file.                          *)
(***************************************************************************)
SavedEditsKept == saved \subseteq StoreFile.edits

(***************************************************************************)
(* A save always returns, also when other managers keep taking its         *)
(* temporary file away: the fallback of atomic_write is bounded.           *)
(***************************************************************************)
SaveReturns == \A m \in Manager : (job[m] # NoEdit) ~> (job[m] = NoEdit)

(***************************************************************************)
(* "No silent data loss" (ExperienceStore::open): since a missing file     *)
(* opens as an empty store, a store file that exists must not vanish.  Two *)
(* managers that share the temporary file refute it.                       *)
(***************************************************************************)
StoreNeverVanishes == [][store # None => store' # None]_vars
=============================================================================
