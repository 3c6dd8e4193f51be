SPECIFICATION Spec
CONSTANTS
    e1 = e1
    e2 = e2
    e3 = e3
    NoFile = NoFile
    NoCache = NoCache
    NoTurn = NoTurn
    Turn = {t1, t2}
    Experience = {e1}
    Seat <- TaskSeat
    MAX_GATE_HITS = 2
    GATE_WINDOW = 2
    MAX_STATE_TAKEOVERS = 2
    MaxTime = 2
    MaxCalls = 0
    MaxManagers = 1
INVARIANTS
    TypeOK
    FuseBoundsHits
    UsageKeepsRecords
PROPERTIES
    LoopResumes
