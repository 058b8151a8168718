CONSTANTS
    NumRanks = 2
    LocalExperts = 1
    QpPerRank = 1
    LastRound = 2
    Kind <- MCKind
    Count <- MCCount
    NVLink <- AllRdma
    DoubleBuffered = FALSE
    Timeouts = FALSE
    MayCrash = {}
    FreshWords = {0}
SPECIFICATION FairSpec
INVARIANT ConsumesOwnRound
