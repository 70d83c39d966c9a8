SPECIFICATION FairSpec
CONSTANTS
    Handlers = {h1, h2}
    BufSize = 2
    Failures = {"file", "db", "timeout", "listen", "kill"}
    MaxEvents = 3
    MaxRuns = 1
    MaxViolations = 1
CHECK_DEADLOCK FALSE
INVARIANTS
    PipelineInv
    TrailsInOrder
    CloseDrainsWithoutChecker
PROPERTIES
    ImplementsChannel
    ShutdownEnds
    AcceptedIsOffered
