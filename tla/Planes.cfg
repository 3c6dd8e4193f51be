SPECIFICATION Spec
CONSTANTS
    Manager = {m1, m2}
    Edit = {e1, e2, e3}
    NoEdit = NoEdit
    Inode <- FiveInodes
    Present = TRUE
INVARIANTS
    TypeOK
    ReadersSeeWhole
    TurnsKeepEdits
PROPERTIES
    SaveReturns
