CONSTANTS
    Task = {t1, r1, r2}
    Work = {t1}
    NoTask = NoTask
    NoRow = NoRow
    IsolateAfter = 1
    TerminateAfter = 2
    Threads = {"pump", "reaper", "conn"}
    Frames = {"fail"}
    Results = {"done"}
    FrameSeq = {9}
    Orders = {"retry", "fail", "close", "ack", "adopt", "rebind"}
    Faults = {"probe", "spawn", "close"}
    MaxEvents = 1
    MaxGen = 2
SPECIFICATION Spec
INVARIANTS TypeOK SingleLayer FaultOnce
PROPERTIES LossIsQueued
CHECK_DEADLOCK FALSE
