INIT MCInit
NEXT Next
CONSTANTS
    Files = {1}
    Loaders = {r1, r2}
    Requests = {r1, r2}
    Ids = {a, b}
    None = None
    MaxWrites = 1
    MaxUpdates = 1
    MaxFaults = 2
INVARIANT IdentityKept
PROPERTY Coordinated
SYMMETRY Symmetry
CHECK_DEADLOCK FALSE
