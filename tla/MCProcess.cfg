SPECIFICATION ProcessSpec
CONSTANTS
    p1 = p1
    p2 = p2
    p3 = p3
    Starts <- ThreeStarts
    Workspace = {w1}
    Nobody = Nobody
    MaxFaults = 1
INVARIANTS
    OneServing
PROPERTIES
    LoneStarterServes
CHECK_DEADLOCK FALSE
