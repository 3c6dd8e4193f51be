SPECIFICATION ConfiguredSpec
CONSTANTS
    s1 = s1
    s2 = s2
    NoSession = NoSession
    Session <- TwoSessions
    Channel <- BothKinds
INVARIANTS
    SessionsTypeOK
    RunningIsAttended
    NoStaleHandle
    OneRoundAtATime

    
