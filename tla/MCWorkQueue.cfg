CONSTANTS
    NumRanks = 2
    LocalExperts = 2
    MaxTokens = 2
    Hidden = 2048
    UseFp8 = TRUE
    MaxQp = 3
    Me = 1
    Warps = {w1, w2}
    ByteBase = 4
    Ring = 8
    LastLaunch = 6
    Rows <- MCRows
    Token <- MCToken
    Begin <- MCBegin
SPECIFICATION FairSpec
INVARIANTS
    TypeOK
    OneWriter
    SignalLast
    LandsWhereRead
    OutstandingApart
PROPERTIES
    ImplementsRequestQueue
    LaunchesEnd
