SPECIFICATION SessionSpec
CONSTANTS
    s1 = s1
    s2 = s2
    NoSession = NoSession
    Session <- OneSession
    Channel <- ExecOnly
PROPERTIES
    CancelReturns
