---------------------------- MODULE GateHostProofs ----------------------------
(***************************************************************************)
(* Proofs about GateHost, for any number of turns, any experiences and any *)
(* limits of the fuse: usage.json loses no takeover to another turn, the   *)
(* fuse bounds the takeovers in every stretch of time, and a turn on its   *)
(* own acts on what is so.                                                 *)
(*                                                                         *)
(* UsageKeepsRecords is not inductive: a save writes what its turn has     *)
(* loaded, so the invariant has to say that between the two halves of the  *)
(* record the turn holds the lock and its copy is still the file, unless a *)
(* management call, which takes no lock, has spoiled the file.  Nor is     *)
(* FuseBoundsHits: how many hits a stretch may still get depends on where  *)
(* it lies relative to the window that is open (FuseInv).                  *)
(***************************************************************************)
EXTENDS GateHost, TLAPS

\* Only the holder of GATE_USAGE_LOCK is between load and save.
LockInv == \A t \in Turn : pc[t] = "save" => lock = t

\* What it has loaded is what the file holds, while nothing spoils it.
CopyInv == \A t \in Turn : pc[t] = "save" => spoiled \/ loaded[t] = usage

Acting == {"fuse", "execute", "load", "save", "answer"}

\* A turn past its decision has a takeover to record, a runtime that made it, and
\* (outside the dispatch) the state seat still has one free.
HitAt(t) ==
    /\ pc[t] \in Acting => hit[t] \in Takeover
    /\ pc[t] \in Acting \cup {"prefix", "again"} => runtime # NoCache
    /\ pc[t] \in {"task", "prefix", "state", "again"} => taken[t] < MAX_STATE_TAKEOVERS
    /\ pc[t] \in Acting /\ hit[t].seat # "tool" => taken[t] < MAX_STATE_TAKEOVERS

HitInv == \A t \in Turn : HitAt(t)

UsageInv == TypeOK /\ HitInv /\ LockInv /\ CopyInv /\ UsageKeepsRecords
-----------------------------------------------------------------------------
\* A process starts with empty counts and nobody at the gate.
LEMMA InitInv == Init => UsageInv
  <1> SUFFICES ASSUME Init PROVE UsageInv
    OBVIOUS
  <1> USE HostAssumption DEF Init
  <1>1. TypeOK
    <2>1. /\ clock \in 0..MaxTime
          /\ fuse \in [start : 0..MaxTime, count : 0..MAX_GATE_HITS]
          /\ granted \in [0..MaxTime -> Nat]
      OBVIOUS
    <2>2. /\ usage \in [Experience -> Nat] /\ recorded \in [Experience -> Nat]
          /\ loaded \in [Turn -> [Experience -> Nat]]
          /\ copies \subseteq [Experience -> Nat]
      BY DEF Zero
    <2>3. spoiled \in BOOLEAN
      OBVIOUS
    <2>4. /\ pc \in [Turn -> Place]
          /\ hit \in [Turn -> {NoHit} \cup Takeover]
          /\ taken \in [Turn -> 0..MAX_STATE_TAKEOVERS]
          /\ calls \in [Turn -> 0..MaxCalls]
          /\ lock \in Turn \cup {NoTurn}
      BY DEF Place
    <2> QED
      BY <2>1, <2>2, <2>3, <2>4 DEF TypeOK
  <1>2. HitInv
    BY DEF HitInv, HitAt, Acting
  <1>3. LockInv /\ CopyInv /\ UsageKeepsRecords
    BY DEF LockInv, CopyInv, UsageKeepsRecords
  <1> QED
    BY <1>1, <1>2, <1>3 DEF UsageInv

\* Every seat hands the turn on to a place that exists.
LEMMA SeatTypes ==
    /\ \A l \in Seats \cup {"again"} :
          /\ SeatOf(l) \in Seats
          /\ SeatOf(l) = "tool" => l = "tool"
          /\ Declined(l) \in {"prefix", "state", "sample", "dispatch"}
          /\ Degraded(l) \in {"state", "sample", "dispatch"}
          /\ l = "tool" => Declined(l) = "dispatch" /\ Degraded(l) = "dispatch"
    /\ Seats \cup {"again"} \cup Acting \cup {"prefix", "state", "sample", "dispatch", "idle"}
          \subseteq Place
  BY DEF Seats, SeatOf, Declined, Degraded, Place, Acting

\* The fuse never counts past its limit.
LEMMA FuseTypes ==
    ASSUME TypeOK, ~Blown
    PROVE  FuseAfterHit \in [start : 0..MaxTime, count : 0..MAX_GATE_HITS]
  <1>1. fuse \in [start : 0..MaxTime, count : 0..MAX_GATE_HITS] /\ clock \in 0..MaxTime
    BY DEF TypeOK
  <1>2. CASE InWindow
    <2>1. fuse.count + 1 \in 0..MAX_GATE_HITS
      BY <1>1, <1>2, HostAssumption DEF Blown
    <2> QED
      BY <1>1, <1>2, <2>1 DEF FuseAfterHit
  <1>3. CASE ~InWindow
    BY <1>1, <1>3, HostAssumption DEF FuseAfterHit
  <1> QED
    BY <1>2, <1>3

\* What a takeover and its result look like.
LEMMA TakeoverTypes ==
    /\ \A s \in Seats, e \in Experience, b \in BOOLEAN :
          LET h == [seat |-> s, exp |-> e, satisfied |-> b, result |-> "none"]
          IN  h \in Takeover /\ h.seat = s
    /\ \A h \in Takeover :
          /\ h.seat \in Seats
          /\ h.exp \in Experience
          /\ \A r \in Result : [h EXCEPT !.result = r] \in Takeover
                               /\ [h EXCEPT !.result = r].seat = h.seat
  BY DEF Takeover
\* Entering a seat leaves a runtime in the cache: the first seat asked loads it.
LEMMA RuntimeTypes ==
    ASSUME TypeOK, HitInv, NEW t \in Turn, pc[t] \in Seats \cup {"again"}, Resolve(pc[t])
    PROVE  runtime' \in {NoCache} \cup SUBSET Experience /\ runtime' # NoCache
  BY HostAssumption DEF TypeOK, HitInv, HitAt, Acting, Resolve, Seats

\* Every step keeps the types: one case per action.
LEMMA TypeStep == TypeOK /\ HitInv /\ [Next]_vars => TypeOK'
  <1> SUFFICES ASSUME TypeOK, HitInv, [Next]_vars PROVE TypeOK'
    OBVIOUS
  <1>0. /\ Seats \cup {"again"} \cup Acting \subseteq Place
        /\ {"prefix", "state", "sample", "dispatch", "idle"} \subseteq Place
    BY SeatTypes
  <1> USE DEF TypeOK, time, store, world, counts, Goto
  <1>1. ASSUME NEW t \in Turn, StartTurn(t) PROVE TypeOK'
    <2>1. taken' \in [Turn -> 0..MAX_STATE_TAKEOVERS] /\ calls' \in [Turn -> 0..MaxCalls]
      BY ONLY TypeOK, <1>1, HostAssumption DEF TypeOK, StartTurn
    <2> QED
      BY <1>0, <1>1, <2>1 DEF StartTurn, Seats
  <1>2. ASSUME NEW t \in Turn, GateStep(t) PROVE TypeOK'
    <2>1. CASE NoRuntime(t)
      <3>1. Degraded(pc[t]) \in Place
        BY <2>1, SeatTypes DEF NoRuntime, Seats
      <3> QED
        BY <2>1, <3>1 DEF NoRuntime
    <2>2. CASE Miss(t)
      <3>1. Declined(pc[t]) \in Place
        BY <2>2, SeatTypes DEF Miss
      <3>2. runtime' \in {NoCache} \cup SUBSET Experience
        BY <2>2, RuntimeTypes DEF Miss
      <3> QED
        BY <2>2, <3>1, <3>2 DEF Miss
    <2>3. CASE StateSatisfied(t)
      <3>1. runtime' \in {NoCache} \cup SUBSET Experience
        BY <2>3, RuntimeTypes DEF StateSatisfied, Seats
      <3> QED
        BY <1>0, <2>3, <3>1 DEF StateSatisfied
    <2>4. CASE \E e \in Experience : TakeOver(t, e)
      <3>1. PICK e \in Experience : TakeOver(t, e)
        BY <2>4
      <3>2. hit'[t] \in Takeover /\ hit' = [hit EXCEPT ![t] = hit'[t]]
        BY <3>1, TakeoverTypes, SeatTypes DEF TakeOver
      <3>3. runtime' \in {NoCache} \cup SUBSET Experience
        BY <3>1, RuntimeTypes DEF TakeOver
      <3>4. pc' \in [Turn -> Place]
        BY <1>0, <3>1 DEF TakeOver, Acting
      <3> QED
        BY <3>1, <3>2, <3>3, <3>4 DEF TakeOver
    <2>5. CASE FuseAllows(t)
      <3>1. fuse' \in [start : 0..MaxTime, count : 0..MAX_GATE_HITS]
        <4>1. FuseAfterHit \in [start : 0..MaxTime, count : 0..MAX_GATE_HITS]
          BY ONLY TypeOK, <2>5, FuseTypes DEF FuseAllows
        <4> QED
          BY ONLY <2>5, <4>1 DEF FuseAllows
      <3>2. granted' \in [0..MaxTime -> Nat]
        <4>1. granted \in [0..MaxTime -> Nat]
          BY ONLY TypeOK DEF TypeOK
        <4>2. \A i \in 0..MaxTime : granted[i] + (IF Within(i) THEN 1 ELSE 0) \in Nat
          BY ONLY <4>1
        <4> QED
          BY ONLY <2>5, <4>2 DEF FuseAllows
      <3>3. pc' \in [Turn -> Place]
        BY <1>0, <2>5 DEF FuseAllows, Acting
      <3> QED
        BY <2>5, <3>1, <3>2, <3>3 DEF FuseAllows
    <2>6. CASE FuseBlocks(t)
      <3>1. Degraded(hit[t].seat) \in Place
        BY <2>6, SeatTypes, TakeoverTypes DEF FuseBlocks, HitInv, HitAt, Acting
      <3> QED
        BY <2>6, <3>1 DEF FuseBlocks
    <2>7. CASE \E r \in Result : Execute(t, r)
      <3>1. PICK r \in Result : Execute(t, r)
        BY <2>7
      <3>2. hit[t] \in Takeover /\ hit[t].exp \in Experience
        BY <3>1, TakeoverTypes DEF Execute, HitInv, HitAt, Acting
      <3>3. hit'[t] \in Takeover /\ hit' = [hit EXCEPT ![t] = hit'[t]]
        BY <3>1, <3>2, TakeoverTypes DEF Execute
      <3>4. pre' \in SUBSET Experience /\ done' \in SUBSET Experience
        BY ONLY TypeOK, <3>1, <3>2 DEF TypeOK, Execute, world
      <3>5. pc' \in [Turn -> Place]
        BY <1>0, <3>1 DEF Execute, Acting
      <3> QED
        BY <3>1, <3>3, <3>4, <3>5 DEF Execute
    <2>8. CASE NoUsageFile(t)
      BY <1>0, <2>8 DEF NoUsageFile, Acting
    <2>9. CASE LoadUsage(t)
      <3>1. pc' \in [Turn -> Place] /\ lock' \in Turn \cup {NoTurn}
        BY <1>0, <2>9 DEF LoadUsage, Acting
      <3>2. loaded' \in [Turn -> [Experience -> Nat]]
        <4>1. PICK u \in [Experience -> Nat] : loaded' = [loaded EXCEPT ![t] = u]
          BY ONLY TypeOK, <2>9 DEF TypeOK, LoadUsage, Zero
        <4> QED
          BY ONLY TypeOK, <4>1 DEF TypeOK
      <3>3. recorded' \in [Experience -> Nat] /\ spoiled' \in BOOLEAN
        <4>1. UNCHANGED <<recorded, spoiled>> \/ Spoils(usage # Zero)
          BY ONLY <2>9 DEF LoadUsage
        <4>2. recorded \in [Experience -> Nat] /\ Zero \in [Experience -> Nat]
          BY ONLY TypeOK DEF TypeOK, Zero
        <4>3. recorded' \in {recorded, Zero}
          BY ONLY <4>1 DEF Spoils
        <4>4. spoiled' \in BOOLEAN
          BY ONLY TypeOK, <4>1 DEF TypeOK, Spoils
        <4> QED
          BY ONLY <4>2, <4>3, <4>4
      <3> QED
        BY <2>9, <3>1, <3>2, <3>3 DEF LoadUsage
    <2>10. CASE SaveUsage(t)
      <3>1. hit[t].exp \in Experience
        BY <2>10, TakeoverTypes DEF SaveUsage, HitInv, HitAt, Acting
      <3>2. usage' \in [Experience -> Nat] /\ recorded' \in [Experience -> Nat]
        <4>1. loaded[t] \in [Experience -> Nat] /\ recorded \in [Experience -> Nat]
          OBVIOUS
        <4> QED
          BY ONLY <2>10, <3>1, <4>1 DEF SaveUsage, Recorded, Zero
      <3>3. loaded' \in [Turn -> [Experience -> Nat]]
        BY ONLY TypeOK, <2>10 DEF TypeOK, SaveUsage, Zero
      <3> QED
        BY <1>0, <2>10, <3>2, <3>3 DEF SaveUsage, Acting
    <2>11. CASE Completed(t)
      BY <1>0, <2>11 DEF Completed
    <2>12. CASE Handoff(t)
      BY <1>0, <2>12 DEF Handoff
    <2>13. CASE StateTakeover(t)
      <3>1. taken[t] \in Nat /\ taken[t] < MAX_STATE_TAKEOVERS
        BY <2>13 DEF StateTakeover, HitInv, HitAt, Acting
      <3>2. taken' \in [Turn -> 0..MAX_STATE_TAKEOVERS]
        <4>1. taken \in [Turn -> 0..MAX_STATE_TAKEOVERS]
          BY DEF TypeOK
        <4>2. taken[t] + 1 \in 0..MAX_STATE_TAKEOVERS
          BY ONLY <3>1, HostAssumption
        <4> QED
          BY ONLY <2>13, <4>1, <4>2 DEF StateTakeover
      <3>3. pc' \in [Turn -> Place]
        BY <1>0, <2>13 DEF StateTakeover
      <3> QED
        BY <2>13, <3>2, <3>3 DEF StateTakeover
    <2>14. CASE ToolAnswered(t)
      BY <1>0, <2>14 DEF ToolAnswered
    <2> QED
      BY <1>2, <2>1, <2>2, <2>3, <2>4, <2>5, <2>6, <2>7, <2>8, <2>9, <2>10, <2>11, <2>12,
         <2>13, <2>14 DEF GateStep
  <1>3. ASSUME NEW t \in Turn, CallTool(t) \/ EndTurn(t) \/ Dispatch(t) PROVE TypeOK'
    <2>1. CASE CallTool(t)
      <3>1. calls' \in [Turn -> 0..MaxCalls]
        <4>1. calls \in [Turn -> 0..MaxCalls]
          BY DEF TypeOK
        <4>2. calls[t] \in 0..MaxCalls /\ calls[t] < MaxCalls
          BY ONLY <2>1, <4>1 DEF CallTool
        <4>3. calls[t] + 1 \in 0..MaxCalls
          BY ONLY <4>2, HostAssumption
        <4> QED
          BY ONLY <2>1, <4>1, <4>3 DEF CallTool
      <3> QED
        BY <1>0, <2>1, <3>1 DEF CallTool, Seats
    <2>2. CASE EndTurn(t)
      BY <1>0, <2>2 DEF EndTurn
    <2>3. CASE Dispatch(t)
      BY <1>0, <2>3 DEF Dispatch
    <2> QED
      BY <1>3, <2>1, <2>2, <2>3
  <1>4. CASE ChangeFile
    BY <1>4 DEF ChangeFile
  <1>5. CASE Tick
    <2>1. clock' \in 0..MaxTime
      BY ONLY TypeOK, <1>5, HostAssumption DEF TypeOK, Tick
    <2> QED
      BY <1>5, <2>1 DEF Tick
  <1>6. CASE UNCHANGED vars
    BY <1>6 DEF vars
  <1>7. CASE Reload
    <2>1. copies' \subseteq [Experience -> Nat]
      BY ONLY TypeOK, <1>7 DEF TypeOK, Reload, Zero
    <2> QED
      BY <1>7, <2>1 DEF Reload
  <1>8. ASSUME NEW u \in copies, Persist(u) PROVE TypeOK'
    <2>1. usage' \in [Experience -> Nat] /\ copies' \subseteq [Experience -> Nat]
      BY ONLY TypeOK, <1>8 DEF TypeOK, Persist
    <2>2. recorded' \in [Experience -> Nat] /\ spoiled' \in BOOLEAN
      BY ONLY TypeOK, <1>8 DEF TypeOK, Persist, Spoils, Zero
    <2>3. file' \in {NoFile} \cup SUBSET Experience
      BY ONLY <1>8 DEF Persist
    <2> QED
      BY <1>8, <2>1, <2>2, <2>3 DEF Persist
  <1>9. ASSUME NEW u \in copies, Forgo(u) PROVE TypeOK'
    <2>1. copies' \subseteq [Experience -> Nat]
      BY ONLY TypeOK, <1>9 DEF TypeOK, Forgo
    <2> QED
      BY <1>9, <2>1 DEF Forgo
  <1> QED
    BY <1>1, <1>2, <1>3, <1>4, <1>5, <1>6, <1>7, <1>8, <1>9 DEF Next

\* A step of one turn keeps HitInv if it keeps that turn's part of it.
LEMMA OneTurn ==
    ASSUME TypeOK, HitInv, NEW t \in Turn, HitAt(t)',
           \A u \in Turn \ {t} : pc'[u] = pc[u] /\ hit'[u] = hit[u] /\ taken'[u] = taken[u],
           runtime # NoCache => runtime' # NoCache
    PROVE  HitInv'
  <1> SUFFICES ASSUME NEW u \in Turn \ {t} PROVE HitAt(u)'
    BY DEF HitInv
  <1> QED
    BY DEF HitInv, HitAt, Acting

\* Every step keeps HitInv: one case per action.
LEMMA HitStep == TypeOK /\ HitInv /\ [Next]_vars => HitInv'
  <1> SUFFICES ASSUME TypeOK, HitInv, [Next]_vars PROVE HitInv'
    OBVIOUS
  <1>0. /\ pc \in [Turn -> Place]
        /\ hit \in [Turn -> {NoHit} \cup Takeover]
        /\ taken \in [Turn -> 0..MAX_STATE_TAKEOVERS]
    BY DEF TypeOK
  <1> USE <1>0 DEF time, store, world, counts, Goto
  <1>1. ASSUME NEW t \in Turn, StartTurn(t) PROVE HitInv'
    <2>1. HitAt(t)'
      BY <1>1, HostAssumption DEF StartTurn, HitAt, Acting
    <2> QED
      BY <1>1, <2>1, OneTurn DEF StartTurn
  <1>2. ASSUME NEW t \in Turn, GateStep(t) PROVE HitInv'
    <2>0. HitAt(t)
      BY DEF HitInv
    <2>1. CASE NoRuntime(t)
      <3>1. HitAt(t)'
        BY <2>0, <2>1 DEF NoRuntime, HitAt, Acting, Degraded, Declined
      <3> QED
        BY <2>1, <3>1, OneTurn DEF NoRuntime
    <2>2. CASE Miss(t)
      <3>1. runtime' # NoCache
        BY <2>2, RuntimeTypes DEF Miss
      <3>2. HitAt(t)'
        BY <2>0, <2>2, <3>1 DEF Miss, HitAt, Acting, Declined, Seats
      <3> QED
        BY <2>2, <3>1, <3>2, OneTurn DEF Miss
    <2>3. CASE StateSatisfied(t)
      <3>1. runtime' # NoCache
        BY <2>3, RuntimeTypes DEF StateSatisfied, Seats
      <3>2. HitAt(t)'
        BY <2>3 DEF StateSatisfied, HitAt, Acting
      <3> QED
        BY <2>3, <3>1, <3>2, OneTurn DEF StateSatisfied
    <2>4. CASE \E e \in Experience : TakeOver(t, e)
      <3>1. PICK e \in Experience : TakeOver(t, e)
        BY <2>4
      <3>2. runtime' # NoCache
        BY <3>1, RuntimeTypes DEF TakeOver
      <3>3. hit'[t] \in Takeover /\ hit'[t].seat = SeatOf(pc[t])
        BY <3>1, TakeoverTypes, SeatTypes DEF TakeOver
      <3>4. hit'[t].seat # "tool" => taken[t] < MAX_STATE_TAKEOVERS
        BY <2>0, <3>1, <3>3 DEF TakeOver, HitAt, SeatOf, Seats
      <3>5. HitAt(t)'
        BY <3>1, <3>2, <3>3, <3>4 DEF TakeOver, HitAt, Acting
      <3> QED
        BY <3>1, <3>2, <3>5, OneTurn DEF TakeOver
    <2>5. CASE FuseAllows(t)
      <3>1. HitAt(t)'
        BY <2>0, <2>5 DEF FuseAllows, HitAt, Acting
      <3> QED
        BY <2>5, <3>1, OneTurn DEF FuseAllows
    <2>6. CASE FuseBlocks(t)
      <3>1. hit[t].seat \in Seats
        BY <2>0, <2>6, TakeoverTypes DEF FuseBlocks, HitAt, Acting
      <3>2. HitAt(t)'
        BY <2>0, <2>6, <3>1 DEF FuseBlocks, HitAt, Acting, Degraded, Declined, Seats
      <3> QED
        BY <2>6, <3>2, OneTurn DEF FuseBlocks
    <2>7. CASE \E r \in Result : Execute(t, r)
      <3>1. PICK r \in Result : Execute(t, r)
        BY <2>7
      <3>2. hit[t] \in Takeover
        BY <2>0, <3>1 DEF Execute, HitAt, Acting
      <3>3. hit'[t] \in Takeover /\ hit'[t].seat = hit[t].seat
        BY <3>1, <3>2, TakeoverTypes DEF Execute
      <3>4. HitAt(t)'
        BY <2>0, <3>1, <3>3 DEF Execute, HitAt, Acting
      <3> QED
        BY <3>1, <3>4, OneTurn DEF Execute
    <2>8. CASE NoUsageFile(t) \/ LoadUsage(t) \/ SaveUsage(t)
      <3>1. HitAt(t)'
        BY <2>0, <2>8 DEF NoUsageFile, LoadUsage, SaveUsage, HitAt, Acting
      <3> QED
        BY <2>8, <3>1, OneTurn DEF NoUsageFile, LoadUsage, SaveUsage
    <2>9. CASE Completed(t) \/ ToolAnswered(t)
      <3>1. HitAt(t)'
        BY <2>9 DEF Completed, ToolAnswered, HitAt, Acting
      <3> QED
        BY <2>9, <3>1, OneTurn DEF Completed, ToolAnswered
    <2>10. CASE Handoff(t)
      <3>1. HitAt(t)'
        BY <2>0, <2>10 DEF Handoff, HitAt, Acting
      <3> QED
        BY <2>10, <3>1, OneTurn DEF Handoff
    <2>11. CASE StateTakeover(t)
      <3>1. HitAt(t)'
        BY <2>0, <2>11 DEF StateTakeover, HitAt, Acting
      <3> QED
        BY <2>11, <3>1, OneTurn DEF StateTakeover
    <2> QED
      BY <1>2, <2>1, <2>2, <2>3, <2>4, <2>5, <2>6, <2>7, <2>8, <2>9, <2>10, <2>11 DEF GateStep
  <1>3. ASSUME NEW t \in Turn, CallTool(t) \/ EndTurn(t) \/ Dispatch(t) PROVE HitInv'
    <2>1. HitAt(t)'
      BY <1>3 DEF CallTool, EndTurn, Dispatch, HitAt, Acting
    <2> QED
      BY <1>3, <2>1, OneTurn DEF CallTool, EndTurn, Dispatch
  <1>4. CASE ChangeFile \/ Tick \/ UNCHANGED vars
    BY <1>4 DEF ChangeFile, Tick, vars, HitInv, HitAt
  <1>5. CASE Reload \/ \E u \in copies : Persist(u) \/ Forgo(u)
    BY <1>5 DEF Reload, Persist, Forgo, HitInv, HitAt
  <1> QED
    BY <1>1, <1>2, <1>3, <1>4, <1>5 DEF Next

\* The two halves of a record exclude each other; a management call either writes
\* back what is there or spoils the file.
LEMMA UsageStep ==
    /\ TypeOK /\ HitInv /\ LockInv /\ CopyInv /\ UsageKeepsRecords
    /\ [Next]_vars
    => LockInv' /\ CopyInv' /\ UsageKeepsRecords'
  <1> SUFFICES ASSUME TypeOK, HitInv, LockInv, CopyInv, UsageKeepsRecords, [Next]_vars
               PROVE  LockInv' /\ CopyInv' /\ UsageKeepsRecords'
    OBVIOUS
  <1>0. /\ pc \in [Turn -> Place]
        /\ usage \in [Experience -> Nat]
        /\ loaded \in [Turn -> [Experience -> Nat]]
        /\ NoTurn \notin Turn
    BY HostAssumption DEF TypeOK
  <1> USE DEF LockInv, CopyInv, UsageKeepsRecords, counts
  <1>1. ASSUME NEW t \in Turn, LoadUsage(t)
        PROVE  LockInv' /\ CopyInv' /\ UsageKeepsRecords'
    <2>1. \A u \in Turn : pc'[u] = "save" => u = t
      BY <1>0, <1>1 DEF LoadUsage, Goto
    <2>2. lock' = t /\ usage' = usage
      BY <1>1 DEF LoadUsage
    <2>3. CASE loaded' = [loaded EXCEPT ![t] = usage] /\ UNCHANGED <<recorded, spoiled>>
      BY <1>0, <2>1, <2>2, <2>3
    <2>4. CASE loaded' = [loaded EXCEPT ![t] = Zero] /\ Spoils(usage # Zero)
      BY <1>0, <2>1, <2>2, <2>4 DEF Spoils
    <2> QED
      BY <1>1, <2>3, <2>4 DEF LoadUsage
  <1>2. ASSUME NEW t \in Turn, SaveUsage(t)
        PROVE  LockInv' /\ CopyInv' /\ UsageKeepsRecords'
    <2>1. lock = t /\ (spoiled \/ (loaded[t] = usage /\ usage = recorded))
      BY <1>2 DEF SaveUsage
    <2>2. \A u \in Turn : pc'[u] # "save"
      BY <1>0, <1>2, <2>1 DEF SaveUsage, Goto
    <2>3. spoiled' \/ usage' = recorded'
      BY <1>2, <2>1 DEF SaveUsage, Recorded
    <2> QED
      BY <2>2, <2>3
  <1>3. ASSUME NEW t \in Turn, NEW l \in Place \ {"save"}, pc' = [pc EXCEPT ![t] = l],
               UNCHANGED counts
        PROVE  LockInv' /\ CopyInv' /\ UsageKeepsRecords'
    BY <1>0, <1>3
  <1>4. ASSUME UNCHANGED <<pc, counts>>
        PROVE  LockInv' /\ CopyInv' /\ UsageKeepsRecords'
    BY <1>4
  <1>5. ASSUME NEW t \in Turn, StartTurn(t) \/ CallTool(t) \/ EndTurn(t) \/ Dispatch(t)
        PROVE  LockInv' /\ CopyInv' /\ UsageKeepsRecords'
    BY <1>3, <1>5 DEF StartTurn, CallTool, EndTurn, Dispatch, Goto, Place, Seats
  <1>6. ASSUME NEW t \in Turn, GateStep(t), ~LoadUsage(t), ~SaveUsage(t)
        PROVE  LockInv' /\ CopyInv' /\ UsageKeepsRecords'
    <2> SUFFICES \E l \in Place \ {"save"} : pc' = [pc EXCEPT ![t] = l] /\ UNCHANGED counts
      BY <1>3
    <2>1. CASE NoRuntime(t) \/ Miss(t)
      BY <2>1, SeatTypes DEF NoRuntime, Miss, Goto, Seats
    <2>2. CASE FuseBlocks(t)
      <3>1. hit[t].seat \in Seats
        BY <2>2, TakeoverTypes DEF FuseBlocks, HitInv, HitAt, Acting
      <3> QED
        BY <2>2, <3>1, SeatTypes DEF FuseBlocks, Goto
    <2>3. CASE StateSatisfied(t) \/ FuseAllows(t) \/ NoUsageFile(t)
      BY <2>3 DEF StateSatisfied, FuseAllows, NoUsageFile, Goto, Place
    <2>4. CASE \E e \in Experience : TakeOver(t, e)
      BY <2>4 DEF TakeOver, Goto, Place
    <2>5. CASE \E r \in Result : Execute(t, r)
      BY <2>5 DEF Execute, Goto, Place
    <2>6. CASE Completed(t) \/ Handoff(t) \/ StateTakeover(t) \/ ToolAnswered(t)
      BY <2>6 DEF Completed, Handoff, StateTakeover, ToolAnswered, Goto, Place, Seats
    <2> QED
      BY <1>6, <2>1, <2>2, <2>3, <2>4, <2>5, <2>6 DEF GateStep
  <1>7. CASE ChangeFile \/ Tick \/ UNCHANGED vars
    BY <1>4, <1>7 DEF ChangeFile, Tick, vars
  <1>8. ASSUME NEW u \in copies, Persist(u)
        PROVE  LockInv' /\ CopyInv' /\ UsageKeepsRecords'
    BY <1>8 DEF Persist, Spoils
  <1>9. ASSUME NEW u \in copies, Forgo(u)
        PROVE  LockInv' /\ CopyInv' /\ UsageKeepsRecords'
    BY <1>9 DEF Forgo
  <1>10. CASE Reload
    BY <1>10 DEF Reload
  <1> QED
    BY <1>1, <1>2, <1>5, <1>6, <1>7, <1>8, <1>9, <1>10 DEF Next
-----------------------------------------------------------------------------
\* The inductive invariant holds of every behaviour of the host.
THEOREM HostInvariant == Spec => []UsageInv
  <1>1. UsageInv /\ [Next]_vars => UsageInv'
    BY TypeStep, HitStep, UsageStep DEF UsageInv
  <1> QED
    BY InitInv, <1>1, PTL DEF Spec

(***************************************************************************)
(* The fuse, the seats and the takeover count of each turn stay within     *)
(* their types: at most MAX_GATE_HITS are counted in a window and at most  *)
(* MAX_STATE_TAKEOVERS taken by the state seat in a turn.                  *)
(***************************************************************************)
THEOREM HostTypeOK == Spec => []TypeOK
  <1>1. UsageInv => TypeOK
    BY DEF UsageInv
  <1> QED
    BY HostInvariant, <1>1, PTL

(***************************************************************************)
(* However many turns record their takeovers at once, usage.json holds     *)
(* every one of them (record_gate_usage, GATE_USAGE_LOCK) until a          *)
(* management call writes back an outdated copy or is read while writing.  *)
(***************************************************************************)
THEOREM HostUsageKeepsRecords == Spec => []UsageKeepsRecords
  <1>1. UsageInv => UsageKeepsRecords
    BY DEF UsageInv
  <1> QED
    BY HostInvariant, <1>1, PTL
-----------------------------------------------------------------------------
(* The fuse *)

(***************************************************************************)
(* The stretch from instant i has g hits, the clock is at c, and a window  *)
(* of k hits is open since s.  A stretch that begins after the window did  *)
(* has missed the hit that opened it; one that was running then has at     *)
(* most MAX_GATE_HITS - 1 hits of the window before, and those of this.    *)
(***************************************************************************)
Stretch(i, g, c, s, k) ==
    /\ k = 0 \/ c < i => g = 0
    /\ k > 0 /\ s < i => g <= k - 1
    /\ i <= s /\ s < i + GATE_WINDOW => g <= MAX_GATE_HITS - 1 + k
    /\ g <= MAX_GATE_HITS + MAX_GATE_HITS - 1

FuseInv ==
    /\ fuse.start <= clock
    /\ \A i \in 0..MaxTime : Stretch(i, granted[i], clock, fuse.start, fuse.count)

\* The hit is one more of the open window.
LEMMA HitInOpenWindow ==
    ASSUME NEW i \in Nat, NEW g \in Nat, NEW c \in Nat, NEW s \in Nat, NEW k \in Nat,
           s <= c, c - s < GATE_WINDOW, 0 < k, k < MAX_GATE_HITS, Stretch(i, g, c, s, k)
    PROVE  Stretch(i, IF i <= c /\ c < i + GATE_WINDOW THEN g + 1 ELSE g, c, s, k + 1)
  BY HostAssumption DEF Stretch

\* The hit opens a window at the present instant.
LEMMA HitOpensWindow ==
    ASSUME NEW i \in Nat, NEW g \in Nat, NEW c \in Nat, NEW s \in Nat, NEW k \in 0..MAX_GATE_HITS,
           s <= c, k = 0 \/ s + GATE_WINDOW <= c, Stretch(i, g, c, s, k)
    PROVE  Stretch(i, IF i <= c /\ c < i + GATE_WINDOW THEN g + 1 ELSE g, c, c, 1)
  BY HostAssumption DEF Stretch

\* A hit that the fuse lets through, in the open window or as the first of a new one.
LEMMA HitKeepsFuse ==
    ASSUME TypeOK, FuseInv, NEW t \in Turn, FuseAllows(t)
    PROVE  FuseInv'
  <1>1. /\ clock \in Nat /\ clock' = clock
        /\ fuse.start \in Nat /\ fuse.count \in 0..MAX_GATE_HITS
        /\ granted \in [0..MaxTime -> Nat]
        /\ MAX_GATE_HITS \in Nat \ {0} /\ GATE_WINDOW \in Nat \ {0} /\ MaxTime \in Nat
        /\ fuse.start <= clock
    BY HostAssumption DEF TypeOK, FuseAllows, FuseInv
  <1>2. \A i \in 0..MaxTime :
           granted'[i] = IF i <= clock /\ clock < i + GATE_WINDOW THEN granted[i] + 1 ELSE granted[i]
    BY <1>1 DEF FuseAllows, Within
  <1>3. \A i \in 0..MaxTime : i \in Nat /\ granted[i] \in Nat
                              /\ Stretch(i, granted[i], clock, fuse.start, fuse.count)
    BY <1>1 DEF FuseInv, Stretch
  <1>4. CASE InWindow
    <2>1. fuse' = [fuse EXCEPT !.count = @ + 1]
      BY <1>4 DEF FuseAllows, FuseAfterHit
    <2>2. fuse'.start = fuse.start /\ fuse'.count = fuse.count + 1
      BY <2>1 DEF TypeOK
    <2>3. 0 < fuse.count /\ fuse.count < MAX_GATE_HITS /\ clock - fuse.start < GATE_WINDOW
      BY <1>1, <1>4 DEF FuseAllows, Blown, InWindow
    <2>4. ASSUME NEW i \in 0..MaxTime
          PROVE  Stretch(i, granted'[i], clock, fuse.start, fuse.count + 1)
      <3>1. Stretch(i, IF i <= clock /\ clock < i + GATE_WINDOW THEN granted[i] + 1 ELSE granted[i],
                    clock, fuse.start, fuse.count + 1)
        <4> HIDE DEF Stretch
        <4>1. fuse.count \in Nat /\ i \in Nat /\ granted[i] \in Nat
              /\ Stretch(i, granted[i], clock, fuse.start, fuse.count)
          BY <1>1, <1>3
        <4> QED
          BY <1>1, <4>1, <2>3, HitInOpenWindow
      <3> QED
        BY <1>2, <3>1
    <2> QED
      BY <1>1, <2>2, <2>4 DEF FuseInv, Stretch
  <1>5. CASE ~InWindow
    <2>1. fuse' = [start |-> clock, count |-> 1]
      BY <1>5 DEF FuseAllows, FuseAfterHit
    <2>2. fuse'.start = clock /\ fuse'.count = 1
      BY <2>1
    <2>3. fuse.count = 0 \/ fuse.start + GATE_WINDOW <= clock
      BY <1>1, <1>5 DEF InWindow
    <2>4. \A i \in 0..MaxTime : Stretch(i, granted'[i], clock, clock, 1)
      BY <1>1, <1>2, <1>3, <2>3, HitOpensWindow
    <2> QED
      BY <1>1, <2>2, <2>4 DEF FuseInv, Stretch
  <1> QED
    BY <1>4, <1>5

\* Every other step leaves the fuse alone, and time only goes forward.
LEMMA FuseStep == TypeOK /\ FuseInv /\ [Next]_vars => FuseInv'
  <1> SUFFICES ASSUME TypeOK, FuseInv, [Next]_vars PROVE FuseInv'
    OBVIOUS
  <1>1. ASSUME NEW t \in Turn, FuseAllows(t) PROVE FuseInv'
    BY <1>1, HitKeepsFuse
  <1>2. CASE Tick
    <2>1. clock \in Nat /\ clock' = clock + 1 /\ UNCHANGED <<fuse, granted>> /\ fuse.start \in Nat
      BY <1>2 DEF Tick, TypeOK
    <2>2. MaxTime \in Nat
      BY HostAssumption
    <2> QED
      BY <2>1, <2>2 DEF FuseInv, Stretch
  <1>3. CASE UNCHANGED time
    BY <1>3 DEF time, FuseInv
  <1>4. ASSUME NEW t \in Turn, GateStep(t), ~FuseAllows(t) PROVE UNCHANGED time
    BY <1>4 DEF GateStep, NoRuntime, Miss, StateSatisfied, TakeOver, FuseBlocks, Execute,
                NoUsageFile, LoadUsage, SaveUsage, Completed, Handoff, StateTakeover, ToolAnswered
  <1>5. ASSUME NEW t \in Turn, StartTurn(t) \/ CallTool(t) \/ EndTurn(t) \/ Dispatch(t)
        PROVE  UNCHANGED time
    BY <1>5 DEF StartTurn, CallTool, EndTurn, Dispatch
  <1>6. CASE ChangeFile \/ UNCHANGED vars
    BY <1>6, <1>3 DEF ChangeFile, vars, time
  <1>7. CASE Reload \/ \E u \in copies : Persist(u) \/ Forgo(u)
    BY <1>7, <1>3 DEF Reload, Persist, Forgo, time
  <1> QED
    BY <1>1, <1>2, <1>3, <1>4, <1>5, <1>6, <1>7 DEF Next

(***************************************************************************)
(* For any number of turns and any limits: no stretch of GATE_WINDOW sees  *)
(* more than 2 * MAX_GATE_HITS - 1 takeovers (gate_hit_allowed).           *)
(***************************************************************************)
THEOREM HostFuseBoundsHits == Spec => []FuseBoundsHits
  <1>1. Init => FuseInv
    <2> SUFFICES ASSUME Init PROVE FuseInv
      OBVIOUS
    <2>1. MAX_GATE_HITS \in Nat \ {0} /\ MaxTime \in Nat /\ GATE_WINDOW \in Nat
      BY HostAssumption
    <2> QED
      BY <2>1 DEF Init, FuseInv, Stretch
  <1>2. FuseInv => FuseBoundsHits
    BY HostAssumption DEF FuseInv, Stretch, FuseBoundsHits
  <1> QED
    BY <1>1, <1>2, FuseStep, HostTypeOK, PTL DEF Spec
-----------------------------------------------------------------------------
(* One turn alone *)

\* What a turn on its own is about to execute is as its seat found it.
LEMMA FreshStep ==
    ASSUME \A t, u \in Turn : t = u, TypeOK, HitInv, ActsOnFreshDecision, [Next]_vars
    PROVE  ActsOnFreshDecision'
  <1>0. /\ pc \in [Turn -> Place] /\ hit \in [Turn -> {NoHit} \cup Takeover]
    BY DEF TypeOK
  <1> USE DEF time, store, world, counts, Goto
  <1>1. ASSUME NEW t \in Turn, pc'[t] \notin {"fuse", "execute"} PROVE ActsOnFreshDecision'
    BY <1>1 DEF ActsOnFreshDecision
  <1>2. ASSUME NEW t \in Turn, StartTurn(t) \/ CallTool(t) \/ EndTurn(t) \/ Dispatch(t)
        PROVE  pc'[t] \notin {"fuse", "execute"}
    BY <1>0, <1>2 DEF StartTurn, CallTool, EndTurn, Dispatch
  <1>3. ASSUME NEW t \in Turn, GateStep(t) PROVE ActsOnFreshDecision'
    <2>1. CASE \E e \in Experience : TakeOver(t, e)
      <3>1. PICK e \in Experience : TakeOver(t, e)
        BY <2>1
      <3>2. /\ hit'[t].exp = e /\ hit'[t].satisfied = (e \notin pre)
            /\ e \in pre \cup done /\ UNCHANGED <<pre, done>>
        BY <1>0, <3>1 DEF TakeOver
      <3> QED
        BY <3>2 DEF ActsOnFreshDecision
    <2>2. CASE FuseAllows(t)
      BY <1>0, <2>2 DEF FuseAllows, ActsOnFreshDecision
    <2>3. CASE NoRuntime(t) \/ Miss(t)
      <3>1. pc'[t] \notin {"fuse", "execute"}
        <4>1. CASE NoRuntime(t)
          BY <1>0, <4>1, SeatTypes DEF NoRuntime, Seats
        <4>2. CASE Miss(t)
          BY <1>0, <4>2, SeatTypes DEF Miss
        <4> QED
          BY <2>3, <4>1, <4>2
      <3> QED
        BY <3>1, <1>1
    <2>4. CASE FuseBlocks(t)
      <3>1. hit[t].seat \in Seats
        BY <2>4, TakeoverTypes DEF FuseBlocks, HitInv, HitAt, Acting
      <3>2. pc'[t] \notin {"fuse", "execute"}
        BY <1>0, <2>4, <3>1, SeatTypes DEF FuseBlocks
      <3> QED
        BY <3>2, <1>1
    <2>5. CASE \E r \in Result : Execute(t, r)
      <3>1. pc'[t] \notin {"fuse", "execute"}
        BY <1>0, <2>5 DEF Execute
      <3> QED
        BY <3>1, <1>1
    <2>6. CASE StateSatisfied(t) \/ NoUsageFile(t) \/ LoadUsage(t) \/ SaveUsage(t)
      <3>1. pc'[t] \notin {"fuse", "execute"}
        BY <1>0, <2>6 DEF StateSatisfied, NoUsageFile, LoadUsage, SaveUsage
      <3> QED
        BY <3>1, <1>1
    <2>7. CASE Completed(t) \/ Handoff(t) \/ StateTakeover(t) \/ ToolAnswered(t)
      <3>1. pc'[t] \notin {"fuse", "execute"}
        BY <1>0, <2>7 DEF Completed, Handoff, StateTakeover, ToolAnswered
      <3> QED
        BY <3>1, <1>1
    <2> QED
      BY <1>3, <2>1, <2>2, <2>3, <2>4, <2>5, <2>6, <2>7 DEF GateStep
  <1>4. CASE ChangeFile \/ Tick \/ UNCHANGED vars
    BY <1>4 DEF ChangeFile, Tick, vars, ActsOnFreshDecision
  <1>5. CASE Reload \/ \E u \in copies : Persist(u) \/ Forgo(u)
    BY <1>5 DEF Reload, Persist, Forgo, ActsOnFreshDecision
  <1> QED
    BY <1>1, <1>2, <1>3, <1>4, <1>5 DEF Next

(***************************************************************************)
(* A process with one turn at a time executes only what is applicable when *)
(* it is executed, also when the state seat asks again (try_state_gate).   *)
(***************************************************************************)
THEOREM HostActsOnFreshDecision ==
    ASSUME \A t, u \in Turn : t = u
    PROVE  Spec => []ActsOnFreshDecision
  <1>1. Init => ActsOnFreshDecision
    BY DEF Init, ActsOnFreshDecision
  <1>2. UsageInv /\ ActsOnFreshDecision /\ [Next]_vars => ActsOnFreshDecision'
    BY FreshStep DEF UsageInv
  <1> QED
    BY <1>1, <1>2, HostInvariant, PTL DEF Spec
=============================================================================
