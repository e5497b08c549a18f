SPECIFICATION Spec
CONSTANTS
    Calls = {c1, c2}
    NoCall = NoCall
    Ttl = 2
    MaxTime = 6
\* Time is bounded.
CHECK_DEADLOCK FALSE
SYMMETRY MCSymmetry
INVARIANT RenewedWorkHolds
