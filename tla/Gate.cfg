SPECIFICATION Spec
CONSTANTS
    f1 = f1
    f2 = f2
    c1 = c1
    c2 = c2
    Absent = Absent
    Directory = Directory
    Unobserved = Unobserved
    File <- TwoFiles
    Content <- TwoContents
    Experiences <- TwoExperiences
    Templates <- UnboundTemplates
INVARIANTS
    TypeOK
    HonestReport
    FirstApplicable
    Accounted
PROPERTIES
    KeepsContract
