SPECIFICATION FairSpec
CONSTANTS
    d1 = d1
    d2 = d2
    a1 = a1
    NoPatch = NoPatch
    Garbled = Garbled
    Calls <- TwoCalls
    Automations <- OneAutomation
    Matching <- FirstMatches
    Coders <- TwoCoders
    Approach <- Differ
    Diffs <- SecondVaries
    Patches <- TwoPatches
    MaxMishaps = 1
INVARIANTS
    TypeOK
    RepoHoldsMerged
    ReviewedMergeVerified
    
    LatestRunIsTrue
PROPERTIES
    CallsEnd
CHECK_DEADLOCK FALSE
