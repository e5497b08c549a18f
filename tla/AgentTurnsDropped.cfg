SPECIFICATION Spec
CONSTANTS
    Messages = {m1, m2}
    Holders = {h1}
    Harnesses = {x1}
    None = None
    Modes = {"steer"}
    Acts = {"cancel"}
    MaxActs = 1
    Faults = {"transient"}
    MaxFaults = 1
    MaxTries = 2
\* A session with nothing to do stands still.
CHECK_DEADLOCK FALSE
INVARIANT MessagesNeverDropped
