SPECIFICATION Spec
CONSTANTS
    IsolateAfter = 1
    TerminateAfter = 3
    NoRow = NoRow
    Feeds <- SequentialFeeds
    Reports <- AllReports
    MayCorrupt = TRUE
    MaxGen = 2
    MaxSeq = 9
INVARIANTS
    TypeOK
    LegalRow
    DeathRecordable
    
PROPERTIES
    LadderTerminates
    WatermarkNeverRewinds
    DeadStaysDead
    
