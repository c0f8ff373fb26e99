\* Two handlers and the refresher, the operator and another client.
CONSTANTS
    Features = {0, 1}
    Tags = {t1}
    MaxId = 1
    MaxRev = 2
    NoBanner = NoBanner
    ExpTime = 1
    MaxLag = 0
    Handlers = {h1, h2}
    Refresher = refresher
    Faults = {"crash"}
    Asked = {1}
    Inputs <- MCInputs
    Clients = {operator, client}
    Operator = operator
    Names = {"Admin", "new"}
    Roles = {"admin", "user"}
    TTL = 1
    NoUser = NoUser
    NoSignup = NoSignup
    BadToken = BadToken
    Bodies <- MCBodies
    Absent = Absent
    NoToken = NoToken
    NoCall = NoCall
    NoResponse = NoResponse
SYMMETRY Symmetry
VIEW View
SPECIFICATION ServerSpec
INVARIANT ServerTypeOK
PROPERTIES
    OnlyAdminsWrite
    UsersSeeWhatWasOn
    NamesHaveOneOwner
