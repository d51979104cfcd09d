SPECIFICATION FairSpec
CONSTANTS
    p1 = p1
    p2 = p2
    f1 = f1
    f2 = f2
    f3 = f3
    NoReport = NoReport
    Processes <- TwoProcesses
    Reports <- ThreeReports
    Author <- TwoAndOne
    Armed <- TwoProcesses
    GitRepo = TRUE
    MaxMishaps = 2
INVARIANTS
    TypeOK
    OwnReportsRecovered
PROPERTIES
    ExportIsCommitted
CHECK_DEADLOCK FALSE
