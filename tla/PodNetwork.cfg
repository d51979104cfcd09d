SPECIFICATION FairSpec
CONSTANTS
    p1 = p1
    p2 = p2
    Torn = Torn
    NoOne = NoOne
    Processes <- TwoProcesses
    MaxMessages = 3
    MaxFailures = 2
    MaxClears = 1
INVARIANTS
    DeliveredOnce
    AuthorKeeps
PROPERTIES
    FileReachesAll
CHECK_DEADLOCK FALSE
