SPECIFICATION Spec
CONSTANTS
    Roles <- TwoRoles
    Arrivals <- Work
    Targets = {"."}
    Outcomes = {"closed"}
    Hits = {1}
    Old = {2}
    Height = 10
    PageSize = 1
    ListCap = 2
    Keys <- AllKeys
    MaxTasks = 2
    MaxEvents = 2
INVARIANTS
    TypeOK
    DetailFollows
    RowsMatchFilter
    
PROPERTIES
    ViewCatchesUp
CHECK_DEADLOCK FALSE
