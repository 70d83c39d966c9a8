SPECIFICATION FairSpec
CONSTANTS
    Employees = {e1, e2}
    Contents = {x1, x2}
    None = None
    Ticker = Ticker
    Callers = {r1}
    Failures = {"list", "read", "save", "gone", "stop", "crash"}
INVARIANTS
    CheckerInv
    ReportMatchesBaseline
PROPERTIES
    DriftRecordedIfRead
    ResetOverwrites
    SuccessMeansMatch
    LockIsReleased
