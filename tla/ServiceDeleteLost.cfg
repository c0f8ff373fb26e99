\* DELETE fails in PostgreSQL and is reported as done.
CONSTANTS
    Features = {1}
    Tags = {t1}
    MaxId = 1
    MaxRev = 2
    NoBanner = NoBanner
    ExpTime = 2
    MaxLag = 1
    Handlers = {h1}
    Refresher = refresher
    Faults = {"postgres"}
    Asked = {1}
    Inputs <- MCInputs
SPECIFICATION Spec
INVARIANT DeletedIsGone
