CONSTANTS
    NumRanks = 2
    LocalExperts = 1
    QpPerRank = 1
    LastRound = 3
    Kind <- MCKind
    Count <- MCCount
    NVLink <- AllNVLink
    DoubleBuffered = TRUE
    Timeouts = TRUE
    MayCrash = {1}
    FreshWords = {0}
SPECIFICATION FairSpec
INVARIANT FreshBetweenActive
PROPERTIES EveryLaunchReturns
