SPECIFICATION Spec
CONSTANTS
    n1 = n1
    n2 = n2
    bodyA = bodyA
    bodyB = bodyB
    bodyBad = bodyBad
    toolA = toolA
    toolB = toolB
    sceneA = sceneA
    Name <- MCName
    Body <- MCBody
    Tool <- MCTool
    ToolOf <- MCToolOf
    Malformed <- MCMalformed
    Scope <- MCScope
    MaxArtifacts = 2
    MaxEntries = 3
CONSTRAINT
    SmallStore
INVARIANTS
    TypeOK
    IndexesFaithful
    SavedStoreOpens
    NoOrphanMetadata
