SPECIFICATION Spec
CONSTANTS
    Line = {l1}
    Closer = {c1}
    Recovered = {}
    MaxAttempts = 3
    PerTick = 1
    MaxResets = 0
    MaxCrashes = 1
PROPERTIES
    ClaimSettles
CHECK_DEADLOCK FALSE
