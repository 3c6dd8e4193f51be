SPECIFICATION Spec
CONSTANTS
    NoTask = NoTask
    NoRow = NoRow
    NoTurn = NoTurn
    LiveTurn = LiveTurn
    Item = {i1, i2, i3}
    Invalid = {i3}
    Task = {t1, t2}
    MAX_QUEUE_ITEMS = 2
    MaxEdits = 1
    MaxFaults = 1
INVARIANTS
    TypeOK
PROPERTIES
    StartsWhatIsQueued
    KeepsContract
    QueuedMessageLeaves
