SPECIFICATION Spec
CONSTANTS
    Users = {u1}
    Handlers = {h1, h2, h3}
    None = None
    UserBind = TRUE
    TTL = 2
    MaxTime = 2
    MaxRestarts = 1
SYMMETRY Symmetry
INVARIANTS SessionsInv LiveSessionHasCredential
PROPERTIES LogoutIsFinal ServiceBindHasCause
