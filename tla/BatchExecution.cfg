CONSTANTS
    a = a
    b = b
    Pages <- TwoPages
    Physical = {b}
    MaxItems = 1
    Outcomes = {"succeeded", "failed"}
    MaxFailures = 2
    HighWater = 1
    LowWater = 1
    ChunkSize = 1
    Widths = {1, 2}
    MaxAttempts = 2
    MaxInvocations = 2
    Handlers = {h1, h2}
    NoHandler = NoHandler
    NoJob = NoJob
    Faults = {"source", "item", "start", "write", "finalize", "physical", "crash", "pause", "cancel", "stall", "database"}
    MaxFaults = 1
SPECIFICATION Spec
SYMMETRY MCSymmetry
INVARIANTS
    TypeOK
    CountsExact
    SinkSeesAll
    SinkWindow
    StateThreaded
    ParkedWhilePaused
PROPERTIES
    OutcomesAreFinal
CHECK_DEADLOCK FALSE
