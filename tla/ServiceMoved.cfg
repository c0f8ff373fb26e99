\* A banner moved to another feature is served for the old one.
CONSTANTS
    Features = {1, 2}
    Tags = {t1}
    MaxId = 1
    MaxRev = 2
    NoBanner = NoBanner
    ExpTime = 2
    MaxLag = 1
    Handlers = {h1}
    Refresher = refresher
    Faults = {}
    Asked = {1}
    Inputs <- MCInputsTwoFeatures
SPECIFICATION Spec
INVARIANT ServedAsAsked
