SPECIFICATION FairSpec
CONSTANTS
    Root = root
    Kids = {k1, k2}
    Steps <- OneStep
    MaxAttempts <- RootTwice
    Transitions = {"child"}
    Names = {}
    MaxReceipts = 0
    MaxPending = 0
    Handlers = {h1, h2}
    NoHandler = NoHandler
    NoAttempt = NoAttempt
    NoName = NoName
    MaxFaults = 1
\* A run that ended, or waits for someone to act, stands still.
CHECK_DEADLOCK FALSE
INVARIANTS TypeOK OneLiveAttempt Driven OneChildPerAttempt
PROPERTIES OutcomesAreFinal RunsSettle
