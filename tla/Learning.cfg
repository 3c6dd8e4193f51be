SPECIFICATION Spec
CONSTANTS
    exp = exp
    draft = draft
    None = None
    Name = {exp, draft}
    DraftOf <- OneDraft
    Session = {s1, s2}
    Manager = {m}
    Given = {"active"}
    GivenNames = {exp}
    MaxRequests = 2
    MaxFaults = 1
INVARIANTS
    TypeOK
    NothingDropped
    LedgerTellsStatus
    LearnedIsQualified
PROPERTIES
    DecayNeedsBlame
    Settles
CHECK_DEADLOCK FALSE
