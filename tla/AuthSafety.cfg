\* Two handlers, the operator and another client, two names to sign up with.
CONSTANTS
    Handlers = {h1, h2}
    Faults = {"postgres", "crash"}
    Clients = {operator, client}
    Operator = operator
    Names = {"Admin", n1, n2}
    Roles = {"admin", "user", ""}
    TTL = 2
    NoUser = NoUser
    NoSignup = NoSignup
    BadToken = BadToken
SPECIFICATION AuthSpec
INVARIANT NoEscalation
