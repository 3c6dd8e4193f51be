------------------------ MODULE ServerLearningProofs ------------------------
(***************************************************************************)
(* Proofs about ServerLearning, for any number of sessions, management     *)
(* threads, experiences and crashes.                                       *)
(*                                                                         *)
(* None of the properties is inductive.  The two files stay complete       *)
(* because a process between the halves of its usage record holds `audit`  *)
(* and its copy is still the file (CopyInv).  The ledger tells the status  *)
(* because a record that is still to be written belongs to the holder of   *)
(* `store` (RecordInv).  A restart does no harm because store.json is at   *)
(* most some experiences short of the memory (DiskInv).                    *)
(***************************************************************************)
EXTENDS ServerLearning, TLAPS

Executable == {"validated", "active", "decaying"}

\* A usage record in the making is made under `audit`, from the file as it is.
CopyInv ==
    \A p \in Process : loaded[p] # None =>
        pc[p] = "usage" /\ lock.audit = p /\ loaded[p] = usage

\* Where a process has an experience to deal with, it has a name; a status to
\* record is that of the store, which its recorder has locked.
RecordInv ==
    \A p \in Process :
        /\ pc[p] \in {"run", "log_exec", "usage", "decay"} => job[p].name \in Name
        /\ job[p].to # "none" =>
             /\ lock.store = p /\ pc[p] # "log_exec"
             /\ job[p].name \in Name
             /\ job[p].to = store[job[p].name].status

\* The last word on an experience is its status, or about to be.
LedgerInv ==
    ~lost => \A n \in said :
        \/ ledger.last[n] = store[n].status
        \/ lock.store # None /\ job[lock.store].to # "none" /\ job[lock.store].name = n

\* store.json lacks at most what a failed import left in memory.
DiskInv == \A n \in Name : disk[n] = store[n] \/ disk[n].status = "absent"

\* A score below the one it starts with is somebody's fault.
BlameInv ==
    /\ \A n \in Name : usage[n].score < DefaultScore => n \in blamed
    /\ \A p \in Process : pc[p] = "decay" => job[p].name \in blamed

LearnInv ==
    /\ TypeOK /\ CopyInv /\ RecordInv /\ LedgerInv /\ DiskInv /\ BlameInv
    /\ NothingDropped /\ LearnedIsQualified
-----------------------------------------------------------------------------
\* A store of supplied experiences, empty files, and nobody at work.
LEMMA InitInv == Init => LearnInv
  <1> SUFFICES ASSUME Init PROVE LearnInv
    OBVIOUS
  <1>1. store \in [Name -> {Absent, Supplied}]
    BY DEF Init
  <1>2. Absent \in Experience /\ Supplied \in Experience
    BY DEF Experience, Absent, Supplied, ExperienceStatus
  <1>a. store \in [Name -> Experience] /\ disk \in [Name -> Experience]
    BY <1>1, <1>2 DEF Init
  <1>b. usage \in UsageFile /\ ledger \in LedgerFile
    BY DEF Init, NoUsage, NoLedger, UsageFile, LedgerFile, DefaultScore
  <1>c. NoJob \in Job
    BY DEF NoJob, Job
  <1>d. lock \in [{"store", "audit"} -> Process \cup {None}]
    BY DEF Init
  <1>e. told \in [usage : [Name -> Nat], ledger : Nat] /\ lock.store = None
    BY DEF Init
  <1>f. /\ pc \in [Process -> Logging \cup {"idle", "run", "usage", "decay", "turn", "sink", "done"}]
        /\ job \in [Process -> Job] /\ loaded \in [Process -> UsageFile \cup {None}]
    BY <1>c DEF Init
  <1>g. requests \in 0..MaxRequests /\ faults \in 0..MaxFaults
    BY LearningAssumption DEF Init
  <1>i. /\ checked \subseteq Name /\ hand \subseteq Name /\ said \subseteq Name
        /\ blamed \subseteq Name /\ lost \in BOOLEAN
    BY DEF Init
  <1>h. TypeOK
    BY <1>a, <1>b, <1>d, <1>e, <1>f, <1>g, <1>i DEF TypeOK
  <1>3. CopyInv /\ RecordInv /\ LedgerInv /\ DiskInv
    BY DEF Init, CopyInv, RecordInv, LedgerInv, DiskInv, NoJob
  <1>4. BlameInv
    BY DEF Init, BlameInv, NoUsage, DefaultScore
  <1>5. NothingDropped
    BY DEF Init, NothingDropped, NoUsage, NoLedger
  <1>6. LearnedIsQualified
    BY <1>1 DEF Init, LearnedIsQualified, Present, Absent
  <1> QED
    BY <1>h, <1>3, <1>4, <1>5, <1>6 DEF LearnInv

Places == Logging \cup {"idle", "run", "usage", "decay", "turn", "sink", "done"}

\* A change of the store with its record: the holder of the lock owes the record
\* of what it changed, and everything else is as before.
LEMMA ChangeKeeps ==
    ASSUME LearnInv, NEW p \in Process, NEW s \in [Name -> Experience], NEW j \in Job,
           NEW next \in Logging \ {"log_exec"},
           ChangeAndRecord(p, s, j, next),
           loaded[p] = None,
           j.to # "none" => j.name \in Name /\ j.to = s[j.name].status,
           requests' \in 0..MaxRequests,
           checked' \subseteq Name, hand' \subseteq Name, said' \subseteq said,
           \A n \in said' : s[n].status = store[n].status \/ (j.to # "none" /\ n = j.name),
           \A n \in Name : s[n].status \in Executable => n \in checked' \cup hand'
    PROVE  LearnInv'
  <1> USE DEF ChangeAndRecord
  <1>1. /\ lock.store = None /\ lock'.store = p /\ lock'.audit = lock.audit
        /\ lock' \in [{"store", "audit"} -> Process \cup {None}]
    BY DEF LearnInv, TypeOK, StoreFree
  <1>2. /\ job' \in [Process -> Job] /\ job'[p] = j
        /\ \A q \in Process : q # p => job'[q] = job[q]
        /\ pc' \in [Process -> Places] /\ pc'[p] = next
        /\ \A q \in Process : q # p => pc'[q] = pc[q]
    BY DEF LearnInv, TypeOK, Places
  <1>3. TypeOK'
    BY <1>1, <1>2 DEF LearnInv, TypeOK, Places
  <1>4. CopyInv'
    BY <1>1, <1>2 DEF LearnInv, CopyInv
  <1>5. \A q \in Process : job[q].to = "none"
    BY <1>1, LearningAssumption DEF LearnInv, RecordInv, Process
  <1>6. RecordInv'
    BY <1>1, <1>2, <1>5 DEF LearnInv, RecordInv, Logging
  <1>7. LedgerInv'
    BY <1>1, <1>2, LearningAssumption DEF LearnInv, LedgerInv, Process
  <1>8. DiskInv' /\ NothingDropped'
    BY DEF LearnInv, DiskInv, NothingDropped
  <1>9. BlameInv'
    BY <1>2 DEF LearnInv, BlameInv, Logging
  <1>10. LearnedIsQualified'
    BY DEF LearnedIsQualified, Executable
  <1> QED
    BY <1>3, <1>4, <1>6, <1>7, <1>8, <1>9, <1>10 DEF LearnInv

\* A change without a record.
LEMMA PlainChangeKeeps ==
    ASSUME LearnInv, NEW s \in [Name -> Experience], Change(s),
           requests' \in 0..MaxRequests,
           checked' \subseteq Name, hand' \subseteq Name, said' \subseteq said,
           \A n \in said' : s[n].status = store[n].status,
           \A n \in Name : s[n].status \in Executable => n \in checked' \cup hand'
    PROVE  LearnInv'
  <1> USE DEF Change
  <1>1. \A q \in Process : job[q].to = "none"
    BY LearningAssumption DEF LearnInv, RecordInv, Process, StoreFree
  <1>2. TypeOK'
    BY DEF LearnInv, TypeOK
  <1>3. CopyInv' /\ BlameInv' /\ NothingDropped' /\ DiskInv'
    BY DEF LearnInv, CopyInv, BlameInv, NothingDropped, DiskInv
  <1>4. RecordInv'
    BY <1>1 DEF LearnInv, RecordInv
  <1>5. LedgerInv'
    BY DEF LearnInv, LedgerInv, StoreFree
  <1>6. LearnedIsQualified'
    BY DEF LearnedIsQualified, Executable
  <1> QED
    BY <1>2, <1>3, <1>4, <1>5, <1>6 DEF LearnInv
-----------------------------------------------------------------------------
(* One lemma per step that leaves the store alone *)

\* A record is appended: what was owed is paid.
LEMMA AppendKeeps ==
    ASSUME LearnInv, NEW p \in Process, AppendLedger(p)
    PROVE  LearnInv'
  <1> USE DEF AppendLedger
  <1> DEFINE n == job[p].name
             to == job[p].to
  <1>1. /\ lock \in [{"store", "audit"} -> Process \cup {None}]
        /\ lock' \in [{"store", "audit"} -> Process \cup {None}]
        /\ lock'.audit = None
        /\ lock'.store = IF lock.store = p THEN None ELSE lock.store
    BY DEF LearnInv, TypeOK, Released
  <1>2. After(p) \in Places /\ After(p) \notin {"run", "log_exec", "decay"}
        /\ (pc[p] # "log_exec" => After(p) # "usage")
    BY DEF After, Places, Logging
  <1>3. /\ pc' \in [Process -> Places] /\ pc'[p] = After(p)
        /\ \A q \in Process : q # p => pc'[q] = pc[q] /\ job'[q] = job[q]
    BY <1>2 DEF LearnInv, TypeOK, Places
  <1>4. /\ Rest(p) \in Job /\ Rest(p).to = "none"
        /\ job' \in [Process -> Job]
        /\ job'[p] = IF pc[p] = "log_exec" THEN job[p] ELSE Rest(p)
    BY DEF LearnInv, TypeOK, Rest, NoJob, Job
  <1>5. to # "none" => lock.store = p /\ n \in Name /\ to = store[n].status /\ pc[p] # "log_exec"
    BY DEF LearnInv, RecordInv
  <1>6. to \in ExperienceStatus \cup {"none"}
    BY DEF LearnInv, TypeOK, Job
  <1>7. /\ ledger' \in LedgerFile /\ ledger'.count = ledger.count + 1
        /\ to = "none" => ledger'.last = ledger.last
        /\ to # "none" => \A m \in Name : ledger'.last[m] = IF m = n THEN to ELSE ledger.last[m]
    BY <1>5, <1>6 DEF LearnInv, TypeOK, LedgerFile, Appended
  <1>8. told' \in [usage : [Name -> Nat], ledger : Nat]
        /\ told'.ledger = told.ledger + 1 /\ told'.usage = told.usage
    BY DEF LearnInv, TypeOK
  <1>9. \A q \in Process : loaded[q] = None
    BY LearningAssumption DEF LearnInv, CopyInv, Process
  <1>10. said' \subseteq Name
    BY <1>5 DEF LearnInv, TypeOK
  <1>11. lock'.store # None => pc'[lock'.store] \in Logging
    BY <1>1, <1>3 DEF LearnInv, TypeOK
  <1>12. TypeOK'
    BY <1>1, <1>3, <1>4, <1>7, <1>8, <1>10, <1>11 DEF LearnInv, TypeOK, Places
  <1>13. CopyInv'
    BY <1>9 DEF CopyInv
  <1>14. RecordInv'
    BY <1>1, <1>2, <1>3, <1>4, <1>5 DEF LearnInv, RecordInv
  <1>15. LedgerInv'
    <2> SUFFICES ASSUME ~lost, NEW m \in said'
                 PROVE  \/ ledger'.last[m] = store[m].status
                        \/ lock'.store # None /\ job'[lock'.store].to # "none" /\ job'[lock'.store].name = m
      BY DEF LedgerInv
    <2>1. m \in Name
      BY <1>10
    <2>2. CASE to # "none"
      BY <2>1, <2>2, <1>5, <1>7 DEF LearnInv, LedgerInv
    <2>3. CASE to = "none"
      BY <2>1, <2>3, <1>1, <1>3, <1>7 DEF LearnInv, LedgerInv
    <2> QED
      BY <2>2, <2>3
  <1>16. DiskInv' /\ LearnedIsQualified'
    BY DEF LearnInv, DiskInv, LearnedIsQualified
  <1>17. BlameInv'
    BY <1>2, <1>3 DEF LearnInv, BlameInv
  <1>18. NothingDropped'
    BY <1>7, <1>8 DEF LearnInv, NothingDropped
  <1> QED
    BY <1>12, <1>13, <1>14, <1>15, <1>16, <1>17, <1>18 DEF LearnInv

\* A step of p that moves p only, without a lock and without a record to write.
LEMMA MoveKeeps ==
    ASSUME LearnInv, NEW p \in Process, NEW j \in Job, NEW next \in Places,
           UNCHANGED <<store, disk, usage, ledger, loaded, requests, faults, history>>,
           job' = [job EXCEPT ![p] = j], pc' = [pc EXCEPT ![p] = next],
           loaded[p] = None, j.to = "none", lock.store # p,
           next \in {"run", "log_exec", "usage", "decay"} => j.name \in Name,
           next = "decay" => j.name \in blamed,
           \/ UNCHANGED lock
           \/ next \in Logging /\ lock.store = None /\ lock' = [lock EXCEPT !.store = p]
    PROVE  LearnInv'
  <1> USE DEF history
  <1>1. /\ pc' \in [Process -> Places] /\ job' \in [Process -> Job]
        /\ pc'[p] = next /\ job'[p] = j
        /\ \A q \in Process : q # p => pc'[q] = pc[q] /\ job'[q] = job[q]
    BY DEF LearnInv, TypeOK, Places
  <1>2. /\ lock' \in [{"store", "audit"} -> Process \cup {None}]
        /\ lock'.audit = lock.audit
        /\ lock'.store \in {lock.store, p}
        /\ lock'.store # lock.store => lock.store = None /\ next \in Logging
    BY DEF LearnInv, TypeOK
  <1>3. lock'.store # None => pc'[lock'.store] \in Logging
    BY <1>1, <1>2 DEF LearnInv, TypeOK
  <1>4. TypeOK'
    BY <1>1, <1>2, <1>3 DEF LearnInv, TypeOK, Places
  <1>5. CopyInv'
    BY <1>1, <1>2 DEF LearnInv, CopyInv
  <1>6. RecordInv'
    BY <1>1, <1>2, LearningAssumption DEF LearnInv, RecordInv, Process
  <1>7. LedgerInv'
    <2> SUFFICES ASSUME ~lost, NEW m \in said
                 PROVE  \/ ledger.last[m] = store[m].status
                        \/ lock'.store # None /\ job'[lock'.store].to # "none" /\ job'[lock'.store].name = m
      BY DEF LedgerInv
    <2>1. \/ ledger.last[m] = store[m].status
          \/ lock.store # None /\ job[lock.store].to # "none" /\ job[lock.store].name = m
      BY DEF LearnInv, LedgerInv
    <2>2. lock.store # None => lock.store \in Process
      BY DEF LearnInv, TypeOK
    <2> QED
      BY <2>1, <2>2, <1>1, <1>2
  <1>8. DiskInv' /\ NothingDropped' /\ LearnedIsQualified'
    BY DEF LearnInv, DiskInv, NothingDropped, LearnedIsQualified
  <1>9. BlameInv'
    BY <1>1 DEF LearnInv, BlameInv
  <1> QED
    BY <1>4, <1>5, <1>6, <1>7, <1>8, <1>9 DEF LearnInv

\* The first half of a usage record: the lock and a copy of the file.
LEMMA LoadKeeps ==
    ASSUME LearnInv, NEW p \in Process, UsageLoads(p)
    PROVE  LearnInv'
  <1> USE DEF UsageLoads, history
  <1>1. /\ lock' \in [{"store", "audit"} -> Process \cup {None}]
        /\ lock.audit = None /\ lock'.audit = p /\ lock'.store = lock.store
    BY DEF LearnInv, TypeOK
  <1>2. loaded' \in [Process -> UsageFile \cup {None}] /\ loaded'[p] = usage
        /\ \A q \in Process : q # p => loaded'[q] = loaded[q]
    BY DEF LearnInv, TypeOK
  <1>3. TypeOK'
    BY <1>1, <1>2 DEF LearnInv, TypeOK
  <1>4. \A q \in Process : loaded[q] = None
    BY <1>1, LearningAssumption DEF LearnInv, CopyInv, Process
  <1>5. CopyInv'
    BY <1>1, <1>2, <1>4 DEF CopyInv
  <1>6. RecordInv' /\ LedgerInv'
    BY <1>1 DEF LearnInv, RecordInv, LedgerInv
  <1>7. DiskInv' /\ BlameInv' /\ NothingDropped' /\ LearnedIsQualified'
    BY DEF LearnInv, DiskInv, BlameInv, NothingDropped, LearnedIsQualified
  <1> QED
    BY <1>3, <1>5, <1>6, <1>7 DEF LearnInv

\* Scores stay in their range, and only blame lowers one.
LEMMA ScoredFacts ==
    ASSUME NEW score \in 0..100, NEW o \in Outcome \cup {"none"}
    PROVE  /\ Scored(score, o) \in 0..100
           /\ o # "invalid" => Scored(score, o) >= score
  BY DEF Scored, Outcome

\* The second half: the copy is the file, so the save adds one outcome to it and
\* forgets none; a score at the floor has blame behind it.
LEMMA SaveKeeps ==
    ASSUME LearnInv, NEW p \in Process, UsageSaves(p)
    PROVE  LearnInv'
  <1> DEFINE n == job[p].name
             u == UsageAfter(p)
  <1> USE DEF UsageSaves, UsageSaved
  <1>1. loaded[p] = usage /\ lock.audit = p /\ n \in Name /\ job[p].to = "none"
    <2>1. loaded[p] = usage /\ lock.audit = p /\ n \in Name
      BY DEF LearnInv, CopyInv, RecordInv
    <2>2. lock.store # p
      BY LearningAssumption DEF LearnInv, TypeOK, Logging, Process
    <2> QED
      BY <2>1, <2>2 DEF LearnInv, RecordInv
  <1>2. job[p].outcome \in Outcome \cup {"none"} /\ usage[n].score \in 0..100 /\ usage[n].total \in Nat
    BY <1>1 DEF LearnInv, TypeOK, Job, UsageFile
  <1>3. /\ Scored(usage[n].score, job[p].outcome) \in 0..100
        /\ job[p].outcome # "invalid" => Scored(usage[n].score, job[p].outcome) >= usage[n].score
    BY <1>2, ScoredFacts
  <1>4. /\ u \in UsageFile /\ u[n].score = Scored(usage[n].score, job[p].outcome)
        /\ u[n].total = usage[n].total + 1
        /\ \A m \in Name : m # n => u[m] = usage[m]
    <2>1. usage \in [Name -> [score : 0..100, total : Nat]]
      BY DEF LearnInv, TypeOK, UsageFile
    <2>2. u = [usage EXCEPT ![n].score = Scored(@, job[p].outcome), ![n].total = @ + 1]
      BY <1>1 DEF UsageAfter
    <2>3. u = [m \in Name |->
                 IF m = n THEN [score |-> Scored(usage[n].score, job[p].outcome), total |-> usage[n].total + 1]
                 ELSE usage[m]]
      BY <2>1, <2>2, <1>1
    <2>4. usage[n].total + 1 \in Nat
      BY <1>2
    <2>5. /\ u[n] = [score |-> Scored(usage[n].score, job[p].outcome), total |-> usage[n].total + 1]
          /\ \A m \in Name : m # n => u[m] = usage[m]
      BY <2>3, <1>1
    <2>6. \A m \in Name : u[m] \in [score : 0..100, total : Nat]
      BY <2>1, <2>4, <2>5, <1>3
    <2> HIDE DEF u
    <2>7. u \in UsageFile
      BY <2>3, <2>6 DEF UsageFile
    <2> QED
      BY <2>5, <2>7
  <1>5. /\ lock' \in [{"store", "audit"} -> Process \cup {None}]
        /\ lock'.audit = None /\ lock'.store = lock.store
    BY <1>1, LearningAssumption DEF LearnInv, TypeOK, Released, Logging, Process
  <1>6. Rest(p) \in Job /\ Rest(p).to = "none"
    BY DEF LearnInv, TypeOK, Rest, NoJob, Job
  <1>7. /\ pc' \in [Process -> Places] /\ job' \in [Process -> Job]
        /\ pc'[p] \in {"log_delegate", "decay"}
        /\ job'[p].to = "none"
        /\ pc'[p] = "decay" => job'[p] = job[p] /\ ~(u[n].score > DECAY_SCORE_FLOOR)
        /\ \A q \in Process : q # p => pc'[q] = pc[q] /\ job'[q] = job[q]
    BY <1>1, <1>6 DEF LearnInv, TypeOK, Places, Logging
  <1>8. /\ told' \in [usage : [Name -> Nat], ledger : Nat]
        /\ told'.ledger = told.ledger /\ told'.usage[n] = told.usage[n] + 1
        /\ \A m \in Name : m # n => told'.usage[m] = told.usage[m]
    BY <1>1 DEF LearnInv, TypeOK
  <1>9. /\ loaded' \in [Process -> UsageFile \cup {None}] /\ loaded'[p] = None
        /\ \A q \in Process : q # p => loaded'[q] = loaded[q]
    BY DEF LearnInv, TypeOK
  <1>10. blamed \subseteq blamed' /\ blamed' \subseteq Name /\ (job[p].outcome = "invalid" => n \in blamed')
    BY <1>1 DEF LearnInv, TypeOK
  <1>11. lock'.store # None => pc'[lock'.store] \in Logging
    BY <1>5, <1>7 DEF LearnInv, TypeOK, Logging
  <1>12. TypeOK'
    BY <1>4, <1>5, <1>7, <1>8, <1>9, <1>10, <1>11 DEF LearnInv, TypeOK, Places
  <1>13. CopyInv'
    BY <1>1, <1>9 DEF LearnInv, CopyInv
  <1>14. RecordInv'
    BY <1>1, <1>5, <1>7 DEF LearnInv, RecordInv
  <1>15. LedgerInv'
    <2> SUFFICES ASSUME ~lost, NEW m \in said
                 PROVE  \/ ledger.last[m] = store[m].status
                        \/ lock'.store # None /\ job'[lock'.store].to # "none" /\ job'[lock'.store].name = m
      BY DEF LedgerInv
    <2>1. \/ ledger.last[m] = store[m].status
          \/ lock.store # None /\ job[lock.store].to # "none" /\ job[lock.store].name = m
      BY DEF LearnInv, LedgerInv
    <2>2. lock.store # None => lock.store \in Process
      BY DEF LearnInv, TypeOK
    <2> QED
      BY <2>1, <2>2, <1>1, <1>5, <1>7
  <1>16. DiskInv' /\ LearnedIsQualified'
    BY DEF LearnInv, DiskInv, LearnedIsQualified
  <1>17. \A m \in Name : usage'[m].score < DefaultScore => m \in blamed'
    <2> SUFFICES ASSUME NEW m \in Name, u[m].score < DefaultScore
                 PROVE  m \in blamed'
      OBVIOUS
    <2> HIDE DEF u
    <2>1. \A k \in Name : usage[k].score < DefaultScore => k \in blamed
      BY DEF LearnInv, BlameInv
    <2>2. CASE m # n
      BY <2>1, <2>2, <1>4, <1>10
    <2>3. CASE m = n /\ job[p].outcome # "invalid"
      <3>1. usage[n].score < DefaultScore
        BY <2>3, <1>2, <1>3, <1>4 DEF DefaultScore
      <3> QED
        BY <3>1, <2>1, <2>3, <1>10
    <2>4. CASE m = n /\ job[p].outcome = "invalid"
      BY <2>4, <1>10
    <2> QED
      BY <2>2, <2>3, <2>4
  <1>18. BlameInv'
    <2>1. pc'[p] = "decay" => job'[p].name \in blamed'
      <3> SUFFICES ASSUME pc'[p] = "decay" PROVE n \in blamed'
        BY <1>7
      <3>1. u[n].score < DefaultScore
        BY <1>3, <1>4, <1>7 DEF DefaultScore, DECAY_SCORE_FLOOR
      <3> QED
        BY <3>1, <1>1, <1>17
    <2>2. \A q \in Process : q # p => (pc'[q] = "decay" => job'[q].name \in blamed')
      BY <1>7, <1>10 DEF LearnInv, BlameInv
    <2> QED
      BY <2>1, <2>2, <1>17 DEF BlameInv
  <1>19. NothingDropped'
    BY <1>4, <1>8 DEF LearnInv, NothingDropped
  <1> QED
    BY <1>12, <1>13, <1>14, <1>15, <1>16, <1>18, <1>19 DEF LearnInv

\* An import that fails half-way: the memory is ahead of store.json by what it
\* has inserted.
LEMMA HalfImportKeeps ==
    ASSUME LearnInv, NEW n \in Name, NEW e \in Experience,
           StoreFree, ~Present(n), store' = [store EXCEPT ![n] = e],
           UNCHANGED <<disk, usage, ledger, lock, pc, job, loaded, faults, told, blamed, lost>>,
           requests' \in 0..MaxRequests,
           hand' = hand \cup {n}, checked' = checked \ {n}, said' = said \ {n}
    PROVE  LearnInv'
  <1>1. \A q \in Process : job[q].to = "none"
    BY LearningAssumption DEF LearnInv, RecordInv, Process, StoreFree
  <1>2. TypeOK'
    BY DEF LearnInv, TypeOK
  <1>3. CopyInv' /\ BlameInv' /\ NothingDropped'
    BY DEF LearnInv, CopyInv, BlameInv, NothingDropped
  <1>4. RecordInv'
    BY <1>1 DEF LearnInv, RecordInv
  <1>5. LedgerInv'
    BY DEF LearnInv, LedgerInv, StoreFree, TypeOK
  <1>6. DiskInv' /\ LearnedIsQualified'
    BY DEF LearnInv, DiskInv, LearnedIsQualified, Present, TypeOK
  <1> QED
    BY <1>2, <1>3, <1>4, <1>5, <1>6 DEF LearnInv

\* A crash costs a record only where it hits a write or an unsaved store.
LEMMA CrashKeeps ==
    ASSUME LearnInv, Crash
    PROVE  LearnInv'
  <1> USE DEF Crash
  <1>1. usage' \in UsageFile /\ ledger' \in LedgerFile
    BY DEF LearnInv, TypeOK, NoUsage, NoLedger, UsageFile, LedgerFile, DefaultScore
  <1>2. NoJob \in Job /\ NoJob.to = "none"
    BY DEF NoJob, Job
  <1>3. /\ lock' \in [{"store", "audit"} -> Process \cup {None}]
        /\ lock'.store = None /\ lock'.audit = None
    OBVIOUS
  <1>4. /\ pc' \in [Process -> Places] /\ \A p \in Process : pc'[p] \in {"idle", "done"}
        /\ job' \in [Process -> Job] /\ \A p \in Process : job'[p].to = "none"
        /\ loaded' \in [Process -> UsageFile \cup {None}] /\ \A p \in Process : loaded'[p] = None
    BY <1>2 DEF Places
  <1>5. lost' \in BOOLEAN /\ faults' \in 0..MaxFaults
    BY LearningAssumption DEF LearnInv, TypeOK
  <1>6. TypeOK'
    BY <1>1, <1>3, <1>4, <1>5 DEF LearnInv, TypeOK, Places
  <1>7. CopyInv' /\ RecordInv'
    BY <1>4 DEF CopyInv, RecordInv
  <1>8. ~lost' => ~lost /\ lock.store = None /\ lock.audit = None /\ store = disk /\ ledger' = ledger
    <2> SUFFICES ASSUME ~lost'
                 PROVE  ~lost /\ lock.store = None /\ lock.audit = None /\ store = disk /\ ledger' = ledger
      OBVIOUS
    <2>1. ~lost /\ lock = [store |-> None, audit |-> None] /\ store = disk /\ ledger' = ledger
      BY Zenon
    <2> QED
      BY <2>1
  <1>9. ~lost' => usage' = usage
    BY <1>8, LearningAssumption DEF LearnInv, CopyInv, Process
  <1>10. LedgerInv'
    BY <1>8 DEF LearnInv, LedgerInv
  <1>11. DiskInv' /\ NothingDropped'
    BY <1>8, <1>9 DEF LearnInv, DiskInv, NothingDropped
  <1>12. LearnedIsQualified'
    BY DEF LearnInv, DiskInv, LearnedIsQualified
  <1>13. BlameInv'
    BY <1>4 DEF LearnInv, BlameInv, NoUsage, DefaultScore
  <1> QED
    BY <1>6, <1>7, <1>10, <1>11, <1>12, <1>13 DEF LearnInv
-----------------------------------------------------------------------------
(* The actions *)

\* A process that is not about to write a record owes none and has no lock on
\* the store.
LEMMA NotLogging ==
    ASSUME LearnInv, NEW p \in Process, pc[p] \notin Logging
    PROVE  /\ lock.store # p /\ job[p].to = "none"
           /\ pc[p] # "usage" => loaded[p] = None
  <1>1. lock.store # p
    BY LearningAssumption DEF LearnInv, TypeOK, Process
  <1> QED
    BY <1>1 DEF LearnInv, RecordInv, CopyInv

\* The jobs that the actions hand out have the type of a job.
LEMMA JobFacts ==
    ASSUME LearnInv, NEW p \in Process
    PROVE  /\ job[p] \in Job /\ NoJob \in Job /\ NoJob.to = "none"
           /\ Rest(p) \in Job /\ Rest(p).to = "none"
  <1>1. job[p] \in Job
    BY DEF LearnInv, TypeOK
  <1>2. job[p].planned \in BOOLEAN
    BY <1>1 DEF Job
  <1> QED
    BY <1>1, <1>2 DEF NoJob, Rest, Job

\* A job with a status to record.
LEMMA JobTells ==
    ASSUME NEW j \in Job, NEW st \in ExperienceStatus
    PROVE  /\ [j EXCEPT !.to = st] \in Job
           /\ [j EXCEPT !.to = st].name = j.name /\ [j EXCEPT !.to = st].to = st
  BY DEF Job

LEMMA SelectKeeps ==
    ASSUME LearnInv, NEW p \in Process, Select(p)
    PROVE  LearnInv'
  <1> DEFINE active == {n \in Name : store[n].status = "active"}
  <1> USE DEF Select
  <1>1. pc[p] = "idle" /\ lock.store # p /\ loaded[p] = None
    BY NotLogging DEF Logging
  <1>2. CASE \E n \in active :
               /\ job' = [job EXCEPT ![p] = [NoJob EXCEPT !.name = n, !.planned = TRUE]]
               /\ pc' = [pc EXCEPT ![p] = "run"]
    <2>1. PICK n \in active :
               /\ job' = [job EXCEPT ![p] = [NoJob EXCEPT !.name = n, !.planned = TRUE]]
               /\ pc' = [pc EXCEPT ![p] = "run"]
      BY <1>2
    <2> DEFINE j == [NoJob EXCEPT !.name = n, !.planned = TRUE]
    <2>2. j \in Job /\ j.to = "none" /\ j.name \in Name
      BY DEF NoJob, Job
    <2>3. "run" \in Places
      BY DEF Places
    <2> HIDE DEF j
    <2> QED
      BY <1>1, <2>1, <2>2, <2>3, MoveKeeps DEF j
  <1>3. CASE /\ job' = [job EXCEPT ![p] = [NoJob EXCEPT !.planned = active # {}]]
             /\ pc' = [pc EXCEPT ![p] = IF active = {} THEN "turn" ELSE "log_delegate"]
    <2> DEFINE j == [NoJob EXCEPT !.planned = active # {}]
               next == IF active = {} THEN "turn" ELSE "log_delegate"
    <2>1. j \in Job /\ j.to = "none"
      BY DEF NoJob, Job
    <2>2. next \in Places /\ next \notin {"run", "log_exec", "usage", "decay"}
      BY DEF Places, Logging
    <2> HIDE DEF active
    <2>3. job' = [job EXCEPT ![p] = j] /\ pc' = [pc EXCEPT ![p] = next]
      BY <1>3
    <2> HIDE DEF j, next
    <2> QED
      BY <1>1, <2>1, <2>2, <2>3, MoveKeeps
  <1> QED
    BY <1>2, <1>3

LEMMA RunKeeps ==
    ASSUME LearnInv, NEW p \in Process, NEW o \in Outcome, Run(p, o)
    PROVE  LearnInv'
  <1> DEFINE j == [job[p] EXCEPT !.outcome = o]
  <1>1. pc[p] = "run" /\ lock.store # p /\ loaded[p] = None /\ job[p].to = "none"
    BY NotLogging DEF Run, Logging
  <1>2. job[p].name \in Name
    BY <1>1 DEF LearnInv, RecordInv
  <1>3. j \in Job /\ j.to = "none" /\ j.name \in Name
    <2>1. job[p] \in Job
      BY JobFacts
    <2> QED
      BY <1>1, <1>2, <2>1 DEF Job
  <1>4. job' = [job EXCEPT ![p] = j] /\ pc' = [pc EXCEPT ![p] = "log_exec"]
    BY DEF Run, LearnInv, TypeOK
  <1>5. "log_exec" \in Places
    BY DEF Places, Logging
  <1>6. UNCHANGED <<store, disk, usage, ledger, lock, loaded, requests, faults, history>>
    BY DEF Run
  <1> HIDE DEF j
  <1> QED
    BY <1>1, <1>3, <1>4, <1>5, <1>6, MoveKeeps

LEMMA DecayKeeps ==
    ASSUME LearnInv, NEW p \in Process, MaybeAutoDecay(p)
    PROVE  LearnInv'
  <1> DEFINE n == job[p].name
  <1> USE DEF MaybeAutoDecay
  <1>1. /\ pc[p] = "decay" /\ lock.store # p /\ loaded[p] = None
        /\ job[p].to = "none" /\ n \in Name
    BY NotLogging DEF Logging, LearnInv, RecordInv
  <1>2. CASE Decays(n)
    <2> DEFINE s == [store EXCEPT ![n].status = Target("decay")]
               j == [job[p] EXCEPT !.to = Target("decay")]
    <2>1. Target("decay") = "decaying"
      BY DEF Target
    <2>2. s \in [Name -> Experience] /\ s[n].status = "decaying" /\ \A m \in Name : m # n => s[m] = store[m]
      BY <1>1, <2>1 DEF LearnInv, TypeOK, Experience, ExperienceStatus
    <2>3. j \in Job /\ j.name = n /\ j.to = "decaying"
      <3>1. job[p] \in Job /\ Target("decay") \in ExperienceStatus
        BY <2>1, JobFacts DEF ExperienceStatus
      <3> QED
        BY <2>1, <3>1, JobTells, Zenon
    <2>4. ChangeAndRecord(p, s, j, "log_decay")
      BY <1>2
    <2>5. "log_decay" \in Logging \ {"log_exec"}
      BY DEF Logging
    <2>6. requests' \in 0..MaxRequests /\ checked' \subseteq Name /\ hand' \subseteq Name /\ said' \subseteq said
      BY DEF LearnInv, TypeOK
    <2> HIDE DEF s, j
    <2>7. \A m \in Name : s[m].status \in Executable => m \in checked' \cup hand'
      BY <1>2, <2>2 DEF LearnInv, LearnedIsQualified, Executable, Decays
    <2>8. \A m \in said' : s[m].status = store[m].status \/ (j.to # "none" /\ m = j.name)
      BY <2>2, <2>3 DEF LearnInv, TypeOK
    <2> QED
      BY <1>1, <2>2, <2>3, <2>4, <2>5, <2>6, <2>7, <2>8, ChangeKeeps
  <1>3. CASE ~Decays(n)
    <2>1. "log_delegate" \in Places
      BY DEF Places, Logging
    <2>2. UNCHANGED <<store, disk, usage, ledger, lock, loaded, requests, faults, history>>
      BY <1>3 DEF history
    <2>3. pc' = [pc EXCEPT ![p] = "log_delegate"] /\ job' = [job EXCEPT ![p] = Rest(p)]
      BY <1>3
    <2> QED
      BY <1>1, <2>1, <2>2, <2>3, JobFacts, MoveKeeps
  <1> QED
    BY <1>2, <1>3

LEMMA TurnEndsKeeps ==
    ASSUME LearnInv, NEW p \in Process, TurnEnds(p)
    PROVE  LearnInv'
  <1>1. pc[p] = "turn" /\ lock.store # p /\ loaded[p] = None /\ job[p].to = "none"
    BY NotLogging DEF TurnEnds, Logging
  <1>2. PICK next \in {"sink", "log_end", "done"} : pc' = [pc EXCEPT ![p] = next]
    BY DEF TurnEnds
  <1>3. next \in Places /\ next \notin {"run", "log_exec", "usage", "decay"}
    BY DEF Places, Logging
  <1>4. job' = [job EXCEPT ![p] = job[p]]
    BY DEF TurnEnds, LearnInv, TypeOK
  <1>5. UNCHANGED <<store, disk, usage, ledger, lock, loaded, requests, faults, history>>
    BY DEF TurnEnds
  <1> QED
    BY <1>1, <1>2, <1>3, <1>4, <1>5, JobFacts, MoveKeeps

LEMMA SinkRejectsKeeps ==
    ASSUME LearnInv, NEW p \in Process, SinkRejects(p)
    PROVE  LearnInv'
  <1>1. pc[p] = "sink" /\ lock.store # p /\ loaded[p] = None /\ job[p].to = "none"
    BY NotLogging DEF SinkRejects, Logging
  <1>2. "log_sink" \in Places /\ "log_sink" \in Logging
    BY DEF Places, Logging
  <1>3. job' = [job EXCEPT ![p] = job[p]] /\ pc' = [pc EXCEPT ![p] = "log_sink"]
    BY DEF SinkRejects, LearnInv, TypeOK
  <1>4. /\ UNCHANGED <<store, disk, usage, ledger, loaded, requests, faults, history>>
        /\ lock.store = None /\ lock' = [lock EXCEPT !.store = p]
    BY DEF SinkRejects, StoreFree
  <1> QED
    BY <1>1, <1>2, <1>3, <1>4, JobFacts, MoveKeeps

\* What is learned is a candidate, so its body need not have been looked at.
LEMMA SinkWritesKeeps ==
    ASSUME LearnInv, NEW p \in Process, NEW n \in Name, NEW d \in Name, NEW sound \in BOOLEAN,
           SinkWrites(p, n, d, sound)
    PROVE  LearnInv'
  <1> DEFINE s == [store EXCEPT ![d] = [status |-> "candidate", sound |-> sound, pinned |-> FALSE]]
             j == [job[p] EXCEPT !.name = n]
  <1>1. pc[p] = "sink" /\ loaded[p] = None /\ job[p].to = "none"
    BY NotLogging DEF SinkWrites, Logging
  <1>2. s \in [Name -> Experience] /\ s[d].status = "candidate" /\ \A m \in Name : m # d => s[m] = store[m]
    BY DEF LearnInv, TypeOK, Experience, ExperienceStatus
  <1>3. j \in Job /\ j.name = n /\ j.to = "none"
    <2>1. job[p] \in Job
      BY JobFacts
    <2> QED
      BY <1>1, <2>1 DEF Job
  <1>4. "log_sink" \in Logging \ {"log_exec"}
    BY DEF Logging
  <1>5. ChangeAndRecord(p, s, j, "log_sink")
    BY DEF SinkWrites
  <1>6. /\ requests' \in 0..MaxRequests
        /\ checked' = checked \ {d} /\ hand' = hand \ {d} /\ said' = said \ {d}
        /\ checked' \subseteq Name /\ hand' \subseteq Name /\ said' \subseteq said /\ said \subseteq Name
    BY DEF SinkWrites, LearnInv, TypeOK
  <1> HIDE DEF s, j
  <1>7. \A m \in Name : s[m].status \in Executable => m \in checked' \cup hand'
    BY <1>2, <1>6 DEF LearnInv, LearnedIsQualified, Executable
  <1>8. \A m \in said' : s[m].status = store[m].status \/ (j.to # "none" /\ m = j.name)
    BY <1>2, <1>6
  <1> QED
    BY <1>1, <1>2, <1>3, <1>4, <1>5, <1>6, <1>7, <1>8, ChangeKeeps

\* A request comes from a thread without a usage record in the making.
LEMMA RequestFacts ==
    ASSUME LearnInv, NEW p \in Process, Request(p)
    PROVE  loaded[p] = None /\ requests' \in 0..MaxRequests
  <1>1. loaded[p] = None
    BY NotLogging DEF Request, Logging
  <1> QED
    BY <1>1, LearningAssumption DEF Request, LearnInv, TypeOK

\* A request whose record names no experience: what the ledger has told of a
\* status must still be true.
LEMMA RequestKeeps ==
    ASSUME LearnInv, NEW p \in Process, Request(p), NEW s \in [Name -> Experience],
           ChangeAndRecord(p, s, NoJob, "log_request"),
           checked' \subseteq Name, hand' \subseteq Name, said' \subseteq said,
           \A n \in said' : s[n].status = store[n].status,
           \A n \in Name : s[n].status \in Executable => n \in checked' \cup hand'
    PROVE  LearnInv'
  <1>1. NoJob \in Job /\ NoJob.to = "none"
    BY JobFacts
  <1>2. "log_request" \in Logging \ {"log_exec"}
    BY DEF Logging
  <1> QED
    BY <1>1, <1>2, RequestFacts, ChangeKeeps

\* What is inserted or imported is the user's.
LEMMA InsertKeeps ==
    ASSUME LearnInv, NEW p \in Process, NEW n \in Name, NEW st \in Given, NEW sound \in BOOLEAN,
           Insert(p, n, st, sound) \/ Import(p, n, st, sound)
    PROVE  LearnInv'
  <1> DEFINE e == [status |-> st, sound |-> sound, pinned |-> FALSE]
             s == [store EXCEPT ![n] = e]
  <1>1. e \in Experience
    BY LearningAssumption DEF Experience
  <1> HIDE DEF e
  <1>2. s \in [Name -> Experience] /\ \A m \in Name : m # n => s[m] = store[m]
    BY <1>1 DEF LearnInv, TypeOK
  <1>3. Request(p) /\ ~Present(n)
        /\ hand' = hand \cup {n} /\ checked' = checked \ {n} /\ said' = said \ {n}
    BY DEF Insert, Import
  <1>4. checked' \subseteq Name /\ hand' \subseteq Name /\ said' \subseteq said /\ said \subseteq Name
    BY <1>3 DEF LearnInv, TypeOK
  <1>5. Change(s) \/ ChangeAndRecord(p, s, NoJob, "log_request")
        \/ /\ StoreFree /\ store' = s
           /\ UNCHANGED <<disk, usage, ledger, lock, pc, job, loaded, faults, told, blamed, lost>>
    BY DEF Insert, Import, e
  <1>6. CASE /\ StoreFree /\ store' = s
             /\ UNCHANGED <<disk, usage, ledger, lock, pc, job, loaded, faults, told, blamed, lost>>
    BY <1>1, <1>3, <1>6, RequestFacts, HalfImportKeeps
  <1> HIDE DEF s
  <1>7. \A m \in said' : s[m].status = store[m].status
    BY <1>2, <1>3, <1>4
  <1>8. \A m \in Name : s[m].status \in Executable => m \in checked' \cup hand'
    BY <1>2, <1>3 DEF LearnInv, LearnedIsQualified, Executable
  <1>9. CASE Change(s)
    BY <1>2, <1>3, <1>4, <1>7, <1>8, <1>9, RequestFacts, PlainChangeKeeps
  <1>10. CASE ChangeAndRecord(p, s, NoJob, "log_request")
    BY <1>2, <1>3, <1>4, <1>7, <1>8, <1>10, RequestKeeps
  <1> QED
    BY <1>5, <1>6, <1>9, <1>10

LEMMA DeleteKeeps ==
    ASSUME LearnInv, NEW p \in Process, NEW n \in Name, Delete(p, n)
    PROVE  LearnInv'
  <1> DEFINE s == [store EXCEPT ![n] = Absent]
  <1>1. Absent \in Experience /\ Absent.status \notin Executable
    BY DEF Absent, Experience, Executable
  <1>2. s \in [Name -> Experience] /\ s[n] = Absent /\ \A m \in Name : m # n => s[m] = store[m]
    BY <1>1 DEF LearnInv, TypeOK
  <1>3. Change(s) /\ Request(p)
        /\ hand' = hand /\ checked' = checked \ {n} /\ said' = said \ {n}
    BY DEF Delete
  <1>4. checked' \subseteq Name /\ hand' \subseteq Name /\ said' \subseteq said /\ said \subseteq Name
    BY <1>3 DEF LearnInv, TypeOK
  <1> HIDE DEF s
  <1>5. \A m \in said' : s[m].status = store[m].status
    BY <1>2, <1>3, <1>4
  <1>6. \A m \in Name : s[m].status \in Executable => m \in checked' \cup hand'
    BY <1>1, <1>2, <1>3 DEF LearnInv, LearnedIsQualified, Executable
  <1> QED
    BY <1>2, <1>3, <1>4, <1>5, <1>6, RequestFacts, PlainChangeKeeps

\* A pin and a body may change under a status; a body that a user edits is the
\* user's.
LEMMA PinOrEditKeeps ==
    ASSUME LearnInv, NEW p \in Process, NEW n \in Name, NEW on \in BOOLEAN,
           Pin(p, n, on) \/ EditBody(p, n, on)
    PROVE  LearnInv'
  <1> PICK s \in {[store EXCEPT ![n].pinned = on], [store EXCEPT ![n].sound = on]} :
        ChangeAndRecord(p, s, NoJob, "log_request")
    BY DEF Pin, EditBody
  <1>1. s \in [Name -> Experience] /\ \A m \in Name : s[m].status = store[m].status
    <2>1. CASE s = [store EXCEPT ![n].pinned = on]
      BY <2>1 DEF LearnInv, TypeOK, Experience
    <2>2. CASE s = [store EXCEPT ![n].sound = on]
      <3>1. store \in [Name -> Experience] /\ [store[n] EXCEPT !.sound = on] \in Experience
            /\ [store[n] EXCEPT !.sound = on].status = store[n].status
        BY DEF LearnInv, TypeOK, Experience
      <3> QED
        BY <2>2, <3>1
    <2> QED
      BY <2>1, <2>2
  <1>2. /\ Request(p) /\ said' = said /\ hand \subseteq hand'
        /\ checked \cup hand \subseteq checked' \cup hand'
        /\ checked' \subseteq Name /\ hand' \subseteq Name /\ said \subseteq Name
    BY DEF Pin, EditBody, LearnInv, TypeOK
  <1>3. \A m \in Name : s[m].status \in Executable => m \in checked' \cup hand'
    BY <1>1, <1>2 DEF LearnInv, LearnedIsQualified, Executable
  <1>4. \A m \in said' : s[m].status = store[m].status
    BY <1>1, <1>2
  <1> QED
    BY <1>1, <1>2, <1>3, <1>4, RequestKeeps

\* The copy of an experience is a draft, whatever the experience is.
LEMMA DraftKeeps ==
    ASSUME LearnInv, NEW p \in Process, NEW n \in Name, Draft(p, n)
    PROVE  LearnInv'
  <1> DEFINE d == DraftOf[n]
             s == [store EXCEPT ![d] = [status |-> "draft", sound |-> store[n].sound, pinned |-> FALSE]]
  <1>1. d \in Name
    BY LearningAssumption DEF Draft
  <1> HIDE DEF d
  <1>2. store[n].sound \in BOOLEAN
    BY DEF LearnInv, TypeOK, Experience
  <1>3. s \in [Name -> Experience] /\ s[d].status = "draft" /\ \A m \in Name : m # d => s[m] = store[m]
    BY <1>1, <1>2 DEF LearnInv, TypeOK, Experience, ExperienceStatus
  <1>4. /\ ChangeAndRecord(p, s, NoJob, "log_request") /\ Request(p)
        /\ checked' \in {checked \cup {d}, checked \ {d}}
        /\ hand' \in {hand \cup {d}, hand \ {d}} /\ said' = said \ {d}
    BY DEF Draft, d
  <1>5. checked' \subseteq Name /\ hand' \subseteq Name /\ said' \subseteq said /\ said \subseteq Name
    BY <1>1, <1>4 DEF LearnInv, TypeOK
  <1> HIDE DEF s
  <1>6. \A m \in Name : s[m].status \in Executable => m \in checked' \cup hand'
    BY <1>3, <1>4 DEF LearnInv, LearnedIsQualified, Executable
  <1>7. \A m \in said' : s[m].status = store[m].status
    BY <1>3, <1>4, <1>5
  <1> QED
    BY <1>3, <1>4, <1>5, <1>6, <1>7, RequestKeeps

\* The adopted body is the user's choice.
LEMMA AdoptKeeps ==
    ASSUME LearnInv, NEW p \in Process, NEW n \in Name, Adopt(p, n)
    PROVE  LearnInv'
  <1> DEFINE d == DraftOf[n]
             s == [store EXCEPT ![n].sound = store[d].sound, ![d] = Absent]
  <1>1. d \in Name /\ d # n
    BY LearningAssumption DEF Adopt
  <1> HIDE DEF d
  <1>2. store[d].sound \in BOOLEAN /\ Absent \in Experience /\ Absent.status \notin Executable
    BY <1>1 DEF LearnInv, TypeOK, Experience, Absent, Executable
  <1>3. s \in [Name -> Experience] /\ s[d] = Absent /\ \A m \in Name : m # d => s[m].status = store[m].status
    BY <1>1, <1>2 DEF LearnInv, TypeOK, Experience
  <1>4. /\ ChangeAndRecord(p, s, NoJob, "log_request") /\ Request(p)
        /\ checked' = (IF d \in checked THEN checked \cup {n} ELSE checked \ {n}) \ {d}
        /\ hand' = hand \cup {n} /\ said' = said \ {d}
    BY DEF Adopt, d
  <1>5. checked' \subseteq Name /\ hand' \subseteq Name /\ said' \subseteq said /\ said \subseteq Name
    BY <1>1, <1>4 DEF LearnInv, TypeOK
  <1> HIDE DEF s
  <1>6. \A m \in Name : s[m].status \in Executable => m \in checked' \cup hand'
    BY <1>2, <1>3, <1>4 DEF LearnInv, LearnedIsQualified, Executable
  <1>7. \A m \in said' : s[m].status = store[m].status
    BY <1>3, <1>4, <1>5
  <1> QED
    BY <1>3, <1>4, <1>5, <1>6, <1>7, RequestKeeps

\* The lifecycle verbs lead to an executable status from one, or through
\* `qualify`; none leads to DECAYING.
LEMMA VerbFacts ==
    ASSUME LearnInv, NEW n \in Name, NEW a \in QualificationAction, a # "decay", Present(n),
           Qualifies(n, a), NoOp(n, a) \/ CanTransition(store[n].status, a),
           NEW to, to = IF NoOp(n, a) THEN store[n].status ELSE Target(a)
    PROVE  /\ to \in ExperienceStatus \ {"decaying"}
           /\ \/ to \notin Executable
              \/ store[n].status \in Executable
              \/ a \in {"validate", "revalidate"} /\ store[n].sound
  <1>1. CASE NoOp(n, a)
    BY <1>1 DEF NoOp, ExperienceStatus
  <1>2. CASE ~NoOp(n, a)
    BY <1>2 DEF QualificationAction, CanTransition, Sources, Target, ExperienceStatus, Executable, Qualifies
  <1> QED
    BY <1>1, <1>2

LEMMA PatchKeeps ==
    ASSUME LearnInv, NEW p \in Process, NEW n \in Name, NEW a \in QualificationAction,
           PatchStatus(p, n, a)
    PROVE  LearnInv'
  <1> DEFINE to == IF NoOp(n, a) THEN store[n].status ELSE Target(a)
             s  == [store EXCEPT ![n].status = to]
             j  == [NoJob EXCEPT !.name = n, !.to = to]
  <1>1. /\ to \in ExperienceStatus
        /\ \/ to \notin Executable
           \/ store[n].status \in Executable
           \/ a \in {"validate", "revalidate"} /\ store[n].sound
    BY VerbFacts DEF PatchStatus
  <1>2. /\ ChangeAndRecord(p, s, j, "log_request") /\ Request(p)
        /\ checked' = IF a \in {"validate", "revalidate"} /\ store[n].sound THEN checked \cup {n} ELSE checked
        /\ hand' = hand /\ said' = said
    BY DEF PatchStatus
  <1> HIDE DEF to
  <1>3. s \in [Name -> Experience] /\ s[n].status = to /\ \A m \in Name : m # n => s[m] = store[m]
    BY <1>1 DEF LearnInv, TypeOK, Experience
  <1>4. j \in Job /\ j.name = n /\ j.to = to
    BY <1>1 DEF NoJob, Job
  <1>5. "log_request" \in Logging \ {"log_exec"}
    BY DEF Logging
  <1>6. checked' \subseteq Name /\ hand' \subseteq Name /\ said' \subseteq said /\ said \subseteq Name
    BY <1>2 DEF LearnInv, TypeOK
  <1> HIDE DEF s, j
  <1>7. \A m \in Name : s[m].status \in Executable => m \in checked' \cup hand'
    BY <1>1, <1>2, <1>3 DEF LearnInv, LearnedIsQualified, Executable
  <1>8. to # "none"
    BY <1>1 DEF ExperienceStatus
  <1>9. \A m \in said' : s[m].status = store[m].status \/ (j.to # "none" /\ m = j.name)
    BY <1>2, <1>3, <1>4, <1>6, <1>8
  <1> QED
    BY <1>2, <1>3, <1>4, <1>5, <1>6, <1>7, <1>9, RequestFacts, ChangeKeeps
-----------------------------------------------------------------------------
(* The theorems *)

LEMMA StepInv == LearnInv /\ [Next]_vars => LearnInv'
  <1> SUFFICES ASSUME LearnInv, [Next]_vars PROVE LearnInv'
    OBVIOUS
  <1>1. ASSUME NEW p \in Session, SessionStep(p) PROVE LearnInv'
    <2>1. p \in Process
      BY DEF Process
    <2>2. CASE AppendLedger(p) \/ UsageLoads(p) \/ UsageSaves(p)
      BY <2>1, <2>2, AppendKeeps, LoadKeeps, SaveKeeps
    <2>3. CASE Select(p) \/ MaybeAutoDecay(p) \/ TurnEnds(p) \/ SinkRejects(p)
      BY <2>1, <2>3, SelectKeeps, DecayKeeps, TurnEndsKeeps, SinkRejectsKeeps
    <2>4. CASE \E o \in Outcome : Run(p, o)
      BY <2>1, <2>4, RunKeeps
    <2>5. CASE \E n \in Name \ Drafts, d \in Name, sound \in BOOLEAN : SinkWrites(p, n, d, sound)
      BY <2>1, <2>5, SinkWritesKeeps
    <2> QED
      BY <1>1, <2>2, <2>3, <2>4, <2>5 DEF SessionStep
  <1>2. ASSUME NEW p \in Manager, ManagerStep(p) PROVE LearnInv'
    <2>1. p \in Process
      BY DEF Process
    <2>2. CASE AppendLedger(p)
      BY <2>1, <2>2, AppendKeeps
    <2>3. CASE \E n \in GivenNames, s \in Given, sound \in BOOLEAN :
                 Insert(p, n, s, sound) \/ Import(p, n, s, sound)
      BY <2>1, <2>3, InsertKeeps, LearningAssumption
    <2>4. CASE \E n \in Name : Delete(p, n) \/ Draft(p, n) \/ Adopt(p, n)
      BY <2>1, <2>4, DeleteKeeps, DraftKeeps, AdoptKeeps
    <2>5. CASE \E n \in Name, on \in BOOLEAN : Pin(p, n, on) \/ EditBody(p, n, on)
      BY <2>1, <2>5, PinOrEditKeeps
    <2>6. CASE \E n \in Name, a \in QualificationAction : PatchStatus(p, n, a)
      BY <2>1, <2>6, PatchKeeps
    <2> QED
      BY <1>2, <2>2, <2>3, <2>4, <2>5, <2>6 DEF ManagerStep
  <1>3. CASE Crash
    BY <1>3, CrashKeeps
  <1>4. CASE UNCHANGED vars
    BY <1>4 DEF vars, LearnInv, TypeOK, CopyInv, RecordInv, LedgerInv, DiskInv, BlameInv,
                NothingDropped, LearnedIsQualified
  <1> QED
    BY <1>1, <1>2, <1>3, <1>4 DEF Next

LEMMA InvHolds == Spec => []LearnInv
  <1>1. Init => LearnInv
    BY InitInv
  <1>2. LearnInv /\ [Next]_vars => LearnInv'
    BY StepInv
  <1> QED
    BY <1>1, <1>2, PTL DEF Spec

\* Types, and the holder of the store's lock always has its record before it.
THEOREM LearningTypeOK == Spec => []TypeOK
  <1>1. LearnInv => TypeOK
    BY DEF LearnInv
  <1> QED
    BY <1>1, InvHolds, PTL

\* usage.json and learning-l1.json miss no outcome and no record that was
\* written, with any number of concurrent sessions and requests.
THEOREM LearningNothingDropped == Spec => []NothingDropped
  <1>1. LearnInv => NothingDropped
    BY DEF LearnInv
  <1> QED
    BY <1>1, InvHolds, PTL

\* The last transition told of an experience led to its status, whenever the store
\* is free.
THEOREM LearningLedgerTells == Spec => []LedgerTellsStatus
  <1>1. LearnInv => LedgerTellsStatus
    BY DEF LearnInv, LedgerInv, LedgerTellsStatus
  <1> QED
    BY <1>1, InvHolds, PTL

\* What the pipeline learned is executable only after `qualify`, or when a user
\* adopted it.
THEOREM LearningIsQualified == Spec => []LearnedIsQualified
  <1>1. LearnInv => LearnedIsQualified
    BY DEF LearnInv
  <1> QED
    BY <1>1, InvHolds, PTL

\* An ACTIVE experience decays in maybe_auto_decay only.
LEMMA OnlyDecayDecays ==
    ASSUME LearnInv, [Next]_vars, NEW n \in Name, Decayed(n)
    PROVE  \E p \in Process : MaybeAutoDecay(p) /\ Decays(job[p].name) /\ n = job[p].name
  <1>t. store \in [Name -> Experience]
    BY DEF LearnInv, TypeOK
  <1>1. ASSUME NEW p \in Session, SessionStep(p)
        PROVE  MaybeAutoDecay(p) /\ Decays(job[p].name) /\ n = job[p].name
    <2>1. store' # store
      BY DEF Decayed
    <2>2. CASE MaybeAutoDecay(p)
      BY <2>1, <2>2, <1>t DEF MaybeAutoDecay, ChangeAndRecord, Decayed
    <2>3. ASSUME NEW m \in Name, NEW d \in Name, NEW sound \in BOOLEAN,
                 SinkWrites(p, m, d, sound)
          PROVE  FALSE
      BY <2>3, <1>t DEF SinkWrites, ChangeAndRecord, Decayed
    <2> QED
      BY <1>1, <2>1, <2>2, <2>3
         DEF SessionStep, AppendLedger, Select, Run, UsageLoads, UsageSaves, UsageSaved, TurnEnds, SinkRejects
  <1>2. ASSUME NEW p \in Manager, ManagerStep(p) PROVE FALSE
    <2>1. ~AppendLedger(p)
      BY DEF AppendLedger, Decayed
    <2>2. ASSUME NEW m \in Name, NEW s \in Given, NEW sound \in BOOLEAN,
                 Insert(p, m, s, sound) \/ Import(p, m, s, sound)
          PROVE  FALSE
      <3>1. ~Present(m) /\ store' = [store EXCEPT ![m] = [status |-> s, sound |-> sound, pinned |-> FALSE]]
        BY <2>2 DEF Insert, Import, Change, ChangeAndRecord
      <3> QED
        BY <3>1, <1>t DEF Present, Decayed
    <2>3. ASSUME NEW m \in Name, Delete(p, m) PROVE FALSE
      BY <2>3, <1>t DEF Delete, Change, Decayed, Absent
    <2>4. ASSUME NEW m \in Name, Draft(p, m) PROVE FALSE
      BY <2>4, <1>t, LearningAssumption DEF Draft, ChangeAndRecord, Decayed
    <2>5. ASSUME NEW m \in Name, Adopt(p, m) PROVE FALSE
      <3>1. /\ DraftOf[m] \in Name
            /\ store' = [store EXCEPT ![m].sound = store[DraftOf[m]].sound, ![DraftOf[m]] = Absent]
        BY <2>5, LearningAssumption DEF Adopt, ChangeAndRecord
      <3>2. store'[n].status \in {store[n].status, "absent"}
        BY <3>1, <1>t DEF Absent, Experience
      <3> QED
        BY <3>2 DEF Decayed
    <2>6. ASSUME NEW m \in Name, NEW on \in BOOLEAN, Pin(p, m, on) \/ EditBody(p, m, on) PROVE FALSE
      <3>1. CASE Pin(p, m, on)
        BY <3>1, <1>t DEF Pin, ChangeAndRecord, Decayed, Experience
      <3>2. CASE EditBody(p, m, on)
        BY <3>2, <1>t DEF EditBody, ChangeAndRecord, Decayed, Experience
      <3> QED
        BY <2>6, <3>1, <3>2
    <2>7. ASSUME NEW m \in Name, NEW a \in QualificationAction, PatchStatus(p, m, a) PROVE FALSE
      <3> DEFINE to == IF NoOp(m, a) THEN store[m].status ELSE Target(a)
      <3>1. to \in ExperienceStatus \ {"decaying"}
        BY <2>7, VerbFacts DEF PatchStatus
      <3>2. store' = [store EXCEPT ![m].status = to]
        BY <2>7 DEF PatchStatus, ChangeAndRecord
      <3> HIDE DEF to
      <3> QED
        BY <3>1, <3>2, <1>t DEF Decayed, Experience
    <2> QED
      BY LearningAssumption, <1>2, <2>1, <2>2, <2>3, <2>4, <2>5, <2>6, <2>7 DEF ManagerStep
  <1>3. ~Crash
    BY DEF Crash, Decayed, LearnInv, DiskInv
  <1>4. ~UNCHANGED vars
    BY DEF vars, Decayed
  <1> QED
    BY <1>1, <1>2, <1>3, <1>4 DEF Next, Process

\* What decays was not pinned when maybe_auto_decay looked, and somebody had
\* blamed it, however many sessions, edits and restarts came in between.
THEOREM LearningDecayNeedsBlame == Spec => DecayNeedsBlame
  <1>1. LearnInv /\ [Next]_vars
          => [\A n \in Name : Decayed(n) => ~store[n].pinned /\ n \in blamed]_vars
    <2> SUFFICES ASSUME LearnInv, [Next]_vars, NEW n \in Name, Decayed(n)
                 PROVE  ~store[n].pinned /\ n \in blamed
      OBVIOUS
    <2>1. PICK p \in Process : MaybeAutoDecay(p) /\ Decays(job[p].name) /\ n = job[p].name
      BY OnlyDecayDecays
    <2> QED
      BY <2>1 DEF MaybeAutoDecay, Decays, LearnInv, BlameInv
  <1> QED
    BY <1>1, InvHolds, PTL DEF Spec, DecayNeedsBlame
=============================================================================
