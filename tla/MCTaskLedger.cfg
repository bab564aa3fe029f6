SPECIFICATION Spec
CONSTANTS
    Task = {t1, t2}
    Handle = {h1, h2}
    NoHandle = NoHandle
    Blob = Blob
    Threads <- PumpOnly
    MaxAttempts = 0
    Speech <- PumpSpeech
    Faults <- PumpFaults
    Orders = {}
    MaxTicks = 0
    MaxCrashes = 1
SYMMETRY Symmetric
INVARIANTS
    TypeOK
    NoOrphan
    OneResult
    LedgerAgrees
    TabServesOne
PROPERTIES
    SettledStays
CHECK_DEADLOCK FALSE
