CONSTANTS
    p1 = p1
    p2 = p2
    o1 = o1
    o2 = o2
    i1 = i1
    Unset = Unset
    Processes <- TwoProcesses
    Operatives <- TwoOperatives
    WorkItems <- OneItem
    Limit = 1
    Statuses <- AnyStatus
    RowIds <- FiveIds
    MaxDispatch = 3
    MaxPending = 1
    MaxCrashes = 1
SPECIFICATION Spec
INVARIANT MutualExclusion
