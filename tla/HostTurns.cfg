SPECIFICATION Spec
CONSTANTS
    e1 = e1
    e2 = e2
    e3 = e3
    NoFile = NoFile
    NoCache = NoCache
    NoTurn = NoTurn
    Turn = {t1}
    Experience = {e1, e2, e3}
    Seat <- OtherSeats
    MAX_GATE_HITS = 2
    GATE_WINDOW = 1
    MAX_STATE_TAKEOVERS = 2
    MaxTime = 0
    MaxCalls = 1
    MaxManagers = 0
INVARIANTS
    ActsOnFreshDecision
