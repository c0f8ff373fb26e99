\* One banner, nothing fails, fair scheduling.
CONSTANTS
    Features = {1}
    Tags = {t1}
    MaxId = 1
    MaxRev = 2
    NoBanner = NoBanner
    ExpTime = 2
    MaxLag = 1
    Handlers = {h1}
    Refresher = refresher
    Faults = {}
    Asked = {1}
    Inputs <- MCInputs
SPECIFICATION FairSpec
PROPERTIES
    ForgottenForGood
    DeletedIsForgotten
    CacheCatchesUp
    Answered
