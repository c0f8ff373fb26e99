\* Two banners with two tags each, nothing fails.
CONSTANTS
    Features = {1}
    Tags = {t1, t2}
    MaxId = 2
    MaxRev = 1
    NoBanner = NoBanner
    ExpTime = 2
    MaxLag = 1
    Handlers = {h1}
    Refresher = refresher
    Faults = {}
    Asked = {1}
    Inputs <- MCInputs
SPECIFICATION Spec
INVARIANTS
    IndexComplete
    NobodyIsStuck
    NoFalseMiss
PROPERTIES
    WorkRunsOut
    RefreshRepairs
