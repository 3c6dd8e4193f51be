SPECIFICATION Spec
CONSTANTS
    a = a
    d = d
    x = x
    m = m
    Path = {a, d, x, m}
    Above <- Tree4
    ManifestPath = m
    Content = {"u", "v"}
    Driver = "l3"
    MaxSteps = 3
INVARIANTS
    BackupsKept
    RestoreUndoes
CHECK_DEADLOCK FALSE
