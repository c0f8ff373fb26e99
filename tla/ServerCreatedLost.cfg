\* COMMIT of the INSERT into users fails.
CONSTANTS
    Features = {0, 1}
    Tags = {t1}
    MaxId = 1
    MaxRev = 2
    NoBanner = NoBanner
    ExpTime = 1
    MaxLag = 0
    Handlers = {h1}
    Refresher = refresher
    Faults = {"postgres"}
    Asked = {1}
    Inputs <- MCInputs
    Clients = {operator, client}
    Operator = operator
    Names = {"Admin", "new"}
    Roles = {"admin", "user", ""}
    TTL = 1
    NoUser = NoUser
    NoSignup = NoSignup
    BadToken = BadToken
    Bodies <- MCBodies
    Absent = Absent
    NoToken = NoToken
    NoCall = NoCall
    NoResponse = NoResponse
SPECIFICATION ServerSpec
PROPERTY CreatedIsStored
