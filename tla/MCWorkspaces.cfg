SPECIFICATION Spec
CONSTANTS
    Dirs <- TwoDirs
    Words <- TwoWords
    MaxEdits = 3
    MaxCrashes = 2
INVARIANTS
    TypeOK
    Complete
    
    SnapshotRoundTrips
