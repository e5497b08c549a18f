CONSTANTS
    a = a
    b = b
    Pages <- OnePage
    Physical = {a, b}
    MaxItems = 2
    Outcomes = {"succeeded", "retry"}
    MaxFailures = 2
    HighWater = 2
    LowWater = 1
    ChunkSize = 2
    Widths = {0}
    MaxAttempts = 2
    MaxInvocations = 4
    Handlers = {h1, h2}
    NoHandler = NoHandler
    NoJob = NoJob
    Faults = {"physical", "throttle", "late"}
    MaxFaults = 1
SPECIFICATION FairSpec
INVARIANTS
    MembersFit
    NoneLeftOut
PROPERTIES
    BatchSettles
CHECK_DEADLOCK FALSE
