SPECIFICATION MdFairSpec
CONSTANTS
    e1 = e1
    Employees = {e1}
    Handlers = {h1}
    Technicians = {w1, w2}
    None = None
    Ghost = Ghost
    Requests = {"get"}
    Bodies <- NoBodies
    OutsideAttrs = {}
    Documents <- TwoDocuments
    MaxMods = 3
    MaxReports = 1
    MaxPuts = 0
    MaxCrashes = 1
INVARIANTS
    MdInv
    ModificationsAreReported
    ReportsMatchDirectory
    OldValuesUndo
PROPERTY
    CacheConverges
