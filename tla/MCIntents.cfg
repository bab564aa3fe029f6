SPECIFICATION Spec
CONSTANTS
    Line = {l1, l2}
    Closer = {c1, c2}
    Recovered <- OneRecovered
    MaxAttempts = 3
    PerTick = 1
    MaxResets = 2
    MaxCrashes = 1
INVARIANTS
    TypeOK
    OneSender
    WithinBudget
    SpentIsReported
PROPERTIES
    ReceiptIsFinal
    PendingSettles
CHECK_DEADLOCK FALSE
