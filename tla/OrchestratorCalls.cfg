SPECIFICATION FairSpec
CONSTANTS
    c1 = c1
    c2 = c2
    c3 = c3
    earlier = earlier
    Loaded <- EarlierSession
    NoRun = NoRun
    Calls <- ThreeCalls
    Tasks <- OneTask
    Threshold = 2
INVARIANTS OneRunPerTask SessionNamesLastRun
PROPERTIES SharesLiveRun EveryCallEnds
CHECK_DEADLOCK FALSE
