SPECIFICATION FairSpec
CONSTANTS
    Messages = {m1, m2}
    Holders = {h1, h2}
    Harnesses = {x1}
    None = None
    Modes = {"steer", "interrupt"}
    Acts = {"steer_now"}
    MaxActs = 1
    Faults = {"crash", "stop", "refuse", "deaf", "error", "finalize", "unsteerable", "nameless", "failed", "transient", "exit", "vanish"}
    MaxFaults = 1
    MaxTries = 2
\* A session with nothing to do stands still.
CHECK_DEADLOCK FALSE
PROPERTY TurnsSettle
