SPECIFICATION FairSpec
CONSTANTS
    p1 = p1
    p2 = p2
    b1 = b1
    b2 = b2
    Unset = Unset
    Processes <- TwoProcesses
    Converging <- OneProcess
    WorkItems <- ThreeItems
    Branches <- BothBranches
    FinalStatuses <- DoneOrBlocked
    InitialRows <- LeftBehind
    MaxRuns = 2
    MaxEvents = 2
INVARIANTS
    TypeOK
    MergedWereVerified
PROPERTIES
    VerdictFollowsBranches
CHECK_DEADLOCK FALSE
