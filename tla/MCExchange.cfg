CONSTANTS
    NumRanks = 2
    LocalExperts = 1
    QpPerRank = 1
    LastRound = 6
    Kind <- MCKind
    Count <- MCCount
    NVLink <- AllRdma
    DoubleBuffered = TRUE
    Timeouts = FALSE
    MayCrash = {}
    FreshWords = {0}
SPECIFICATION FairSpec
INVARIANTS
    TypeOK
    ConsumesOwnRound
    AtMostOneAhead
    StagingIntact
    NothingArrivesEarly
    BacklogTwoRounds
PROPERTIES
    EveryLaunchReturns
    ImplementsRoundExchange
