SPECIFICATION Spec
CONSTANTS
    e1 = e1
    e2 = e2
    r1 = r1
    r2 = r2
    Employees = {e1, e2}
    Runners = {r1, r2}
    None = None
    SyncAttrs = {"mail"}
    MaxMods = 1
    MaxRuns = 3
    MaxCrashes = 1
INVARIANTS
    SyncInv
    TableIsWhole
    AnsweredSyncIsVisible
    LastResultIsRecent
SYMMETRY EmployeesAndRunners
