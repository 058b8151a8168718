CONSTANTS
    NumRanks = 2
    LocalExperts = 1
    QpPerRank = 1
    LastRound = 3
    Kind <- MCKind
    Count <- MCCount
    NVLink <- AllRdma
    DoubleBuffered = TRUE
    Timeouts = TRUE
    MayCrash = {}
    FreshWords = {0}
SPECIFICATION Spec
INVARIANT NoStaleRows
