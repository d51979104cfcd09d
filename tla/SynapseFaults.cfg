CONSTANTS
    r1 = r1
    r2 = r2
    r3 = r3
    Unset = Unset
    NumOps = 2
    NumMissions = 2
    Operatives <- OperativeIds
    Missions <- MissionIds
    MissionOf <- TeamOfOne
    Runs <- TwoRuns
    OpOf <- FirstTwo
    Gated <- None
    Cap = 2
    Costs <- CheapOrDear
    ToolUsers <- Second
    ToolItems <- Second
    Faults <- AllFaults
    MaxRequests = 0
    MaxZombies = 1
    MaxCompactions = 1
    MaxCrashes = 1
SPECIFICATION FairSpec
INVARIANTS SuspensionHasReason StanddownEnds OverspendBound
PROPERTIES OnlyTimerAndCatchResume  ActiveMissionsSettle
CHECK_DEADLOCK FALSE
