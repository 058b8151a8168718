CONSTANTS
    NumRanks = 2
    LocalExperts = 2
    SubWarps = 2
    Rank = 0
    Layouts <- MCLayouts
    Tokens = 2
    Needs <- MCNeeds
    Timeouts = TRUE
    LaunchAttrs = {TRUE, FALSE}
SPECIFICATION FairSpec
INVARIANTS
    TypeOK
    SignalAfterClean
    FlagRestored
    ReducesArrivedRows
PROPERTIES
    CooperativeReturns
