SPECIFICATION FairSpec
CONSTANTS
    Features = {1}
    Tags = {}
    MaxId = 2
    MaxRev = 2
    NoBanner = NoBanner
    Handlers = {h1, h2}
    Faults = {"postgres", "crash"}
    MaxConns = 2
    Selects <- MCSelects
    Inputs <- MCInputs
INVARIANTS
    TypeOK
    ConnectionsAreKept
    NobodyDeadlocks
PROPERTIES
    IsAtomic
    CallsRunOut
    CallsReturn
