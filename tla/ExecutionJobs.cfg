SPECIFICATION Spec
CONSTANTS
    Jobs = {j1}
    Loops = {l1, l2}
    Drivers = {d1}
    NoWorker = NoWorker
    NoJob = NoJob
    MaxAttempts = 2
    MaxLeaseExpiries = 2
    ClaimLimit = 1
    MaxGeneration = 3
    MaxRevivals = 1
    MaxFaults = 1
\* A queue with nothing left to do stands still.
CHECK_DEADLOCK FALSE
SYMMETRY MCSymmetry
INVARIANTS TypeOK LeaseUnique InvocationFenced Budget
PROPERTY ImplementsJobLease
