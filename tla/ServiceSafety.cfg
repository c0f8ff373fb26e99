\* Two handlers and the refresher on one banner, everything may fail.
CONSTANTS
    Features = {1}
    Tags = {t1}
    MaxId = 1
    MaxRev = 2
    NoBanner = NoBanner
    ExpTime = 2
    MaxLag = 1
    Handlers = {h1, h2}
    Refresher = refresher
    Faults = {"redis", "postgres", "crash"}
    Asked = {1}
    Inputs <- MCInputs
SPECIFICATION Spec
SYMMETRY Symmetry
INVARIANTS
    TypeOK
    CacheStaleness
    ServedStaleness
    FreshReads
    NoFalseMiss
    OffNeverServed
PROPERTY ImplementsStore
