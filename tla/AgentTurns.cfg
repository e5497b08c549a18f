SPECIFICATION Spec
CONSTANTS
    Messages = {m1, m2}
    Holders = {h1, h2}
    Harnesses = {x1, x2}
    None = None
    Modes = {"queue", "steer"}
    Acts = {"stop", "cancel", "hold", "send_now", "steer_now", "retry", "switch"}
    MaxActs = 1
    Faults = {"crash", "stall", "stop", "refuse", "deaf", "error", "finalize", "unsteerable", "nameless", "failed", "transient", "exit", "vanish"}
    MaxFaults = 1
    MaxTries = 2
\* A session with nothing to do stands still.
CHECK_DEADLOCK FALSE
SYMMETRY MCSymmetry
INVARIANTS TypeOK SteersKept ReadOnce HarnessAccounted
PROPERTIES StopStands SettledIsFinal
