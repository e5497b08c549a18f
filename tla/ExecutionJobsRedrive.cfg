SPECIFICATION Spec
CONSTANTS
    Jobs = {j1}
    Loops = {l1}
    Drivers = {}
    NoWorker = NoWorker
    NoJob = NoJob
    MaxAttempts = 1
    MaxLeaseExpiries = 1
    ClaimLimit = 1
    MaxGeneration = 2
    MaxRevivals = 1
    MaxFaults = 0
\* A queue with nothing left to do stands still.
CHECK_DEADLOCK FALSE
INVARIANT ReceiptMeansHandled
