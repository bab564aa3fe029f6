SPECIFICATION Spec
CONSTANTS
    Task = {t1}
    Handle = {h1}
    NoHandle = NoHandle
    Blob = Blob
    Threads <- AllThreads
    MaxAttempts = 3
    Speech <- WatchSpeech
    Faults = {}
    Orders <- AllOrders
    MaxTicks = 1
    MaxCrashes = 0
INVARIANTS
    BusyHasPayload
CHECK_DEADLOCK FALSE
