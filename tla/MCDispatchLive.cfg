CONSTANTS
    NumRanks = 2
    LocalExperts = 1
    WarpGroups = 1
    MaxTokens = 2
    NumTopK = 1
    Rank = 0
    Tag = 4
    Routings <- MCRoutings
    PeerCounts = {0, 1}
    Timeouts = TRUE
SPECIFICATION FairSpec
PROPERTIES
    LaunchReturns
INVARIANTS
    Packed
    OutputMatchesRange
    SelfStaysActive
