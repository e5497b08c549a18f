SPECIFICATION FairSpec
CONSTANTS
    Jobs = {j1}
    Loops = {l1, l2}
    Drivers = {}
    NoWorker = NoWorker
    NoJob = NoJob
    MaxAttempts = 1
    MaxLeaseExpiries = 2
    ClaimLimit = 1
    MaxGeneration = 2
    MaxRevivals = 0
    MaxFaults = 2
\* A queue with nothing left to do stands still.
CHECK_DEADLOCK FALSE
INVARIANT ReceiptMeansHandled
PROPERTIES LeaseEnds ExhaustionHandled
