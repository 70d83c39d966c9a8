SPECIFICATION Spec
CONSTANTS
    Handlers = {h1}
    BufSize = 2
    Failures = {}
    MaxEvents = 1
    MaxRuns = 1
    MaxViolations = 0
CHECK_DEADLOCK FALSE
INVARIANT
    CloseDrains
