SPECIFICATION Spec
CONSTANTS
    IsolateAfter = 1
    TerminateAfter = 3
    NoRow = NoRow
    Worker = {w1, w2}
    Handlers <- ReportedHandlers
    Reports <- AgentReports
    MaxGen = 2
    MaxSeq = 4
INVARIANTS
    FeedsSerialise
PROPERTIES
    WatermarkAdvances
