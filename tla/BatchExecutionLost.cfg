CONSTANTS
    a = a
    b = b
    Pages <- OnePage
    Physical = {}
    MaxItems = 1
    Outcomes = {"succeeded", "skipped"}
    MaxFailures = 2
    HighWater = 2
    LowWater = 1
    ChunkSize = 2
    Widths = {0}
    MaxAttempts = 2
    MaxInvocations = 4
    Handlers = {h1, h2}
    NoHandler = NoHandler
    NoJob = NoJob
    Faults = {"crash"}
    MaxFaults = 1
SPECIFICATION FairSpec
PROPERTIES BatchSettles
CHECK_DEADLOCK FALSE
