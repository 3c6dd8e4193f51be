SPECIFICATION ManageSpec
CONSTANTS
    Manager = {m1, m2}
    Edit = {e1, e2}
    NoEdit = NoEdit
    Inode <- FiveInodes
    Present = TRUE
INVARIANTS
    SavedEditsKept
