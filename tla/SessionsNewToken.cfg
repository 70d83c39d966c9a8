SPECIFICATION Spec
CONSTANTS
    Users = {u1}
    Handlers = {h1, h2}
    None = None
    UserBind = TRUE
    TTL = 2
    MaxTime = 1
    MaxRestarts = 0
SYMMETRY Symmetry
INVARIANT NewTokenIsValid
