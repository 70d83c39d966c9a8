SPECIFICATION FairSpec
CONSTANTS
    u1 = u1
    u2 = u2
    Users = {u1, u2}
    None = None
    Groups <- UserGroups
    Configs <- Settings
    MaxLogins = 2
    MaxSubmits = 1
    MaxRequests = 1
INVARIANTS
    BrowserInv
    ProfileIsOfToken
    OffersAreServed
    RequestsActForShownUser
PROPERTIES
    SpinnerEnds
