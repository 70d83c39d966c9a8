SPECIFICATION FairSpec
CONSTANTS
    Employees = {e1}
    Handlers = {h1, h2}
    None = None
    Requests = {"get", "put"}
    Bodies <- Both
    OutsideAttrs = {"physicalDeliveryOfficeName"}
    MaxMods = 2
    MaxPuts = 2
    MaxCrashes = 1
INVARIANTS
    StaleOnlyIfLate
    TrailMatchesDirectory
    AuditedOldWasHeld
PROPERTY
    CacheConverges
