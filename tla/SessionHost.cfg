SPECIFICATION Spec
CONSTANTS
    MaxRuns = 2
    MaxChatter = 1
    NoTurn = NoTurn
    LiveTurn = LiveTurn
INVARIANTS
    NothingLeftBehind
    SuccessIsOwnWork
PROPERTIES
    CancelEndsRun
    TurnEndEndsRun
    KeepsContract
CHECK_DEADLOCK FALSE
