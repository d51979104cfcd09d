CONSTANTS
    r1 = r1
    r2 = r2
    r3 = r3
    Unset = Unset
    NumOps = 2
    NumMissions = 2
    Operatives <- OperativeIds
    Missions <- MissionIds
    MissionOf <- DeployedMissionOf
    Runs <- ThreeRuns
    OpOf <- FirstTwoAndOther
    Gated <- First
    Cap = 4
    Costs <- CheapOrDear
    ToolUsers <- None
    ToolItems <- None
    Faults <- None
    MaxRequests = 1
    MaxZombies = 1
    MaxCompactions = 0
    MaxCrashes = 0
SPECIFICATION Spec
INVARIANTS SingleFlight BudgetBound FreeItemsAgree WorkIsClaimed
PROPERTY SortieContractSpec
CHECK_DEADLOCK FALSE
