SPECIFICATION Spec
CONSTANTS
    Root = root
    Kids = {}
    Steps <- TwoSteps
    MaxAttempts <- Once
    Transitions = {"pause"}
    Names = {n}
    MaxReceipts = 2
    MaxPending = 2
    Handlers = {h1, h2}
    NoHandler = NoHandler
    NoAttempt = NoAttempt
    NoName = NoName
    MaxFaults = 1
\* A run that ended, or waits for someone to act, stands still.
CHECK_DEADLOCK FALSE
SYMMETRY MCSymmetry
INVARIANTS StepsInOrder Driven NoMissedSignal SignalsInOrder
PROPERTY OutcomesAreFinal
