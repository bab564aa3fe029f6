CONSTANTS
    Task = {t1, r1}
    Work = {t1}
    NoTask = NoTask
    NoRow = NoRow
    IsolateAfter = 1
    TerminateAfter = 2
    Threads = {"pump", "reaper", "conn"}
    Frames = {"fail"}
    Results = {"done"}
    FrameSeq = {9}
    Orders = {"retry", "fail", "close", "ack", "adopt", "rebind"}
    Faults = {"probe", "spawn", "close"}
    MaxGen = 2
    MaxEvents = 1
SPECIFICATION Spec
PROPERTIES LostSessionEnds
CHECK_DEADLOCK FALSE
