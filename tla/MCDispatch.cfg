CONSTANTS
    NumRanks = 3
    LocalExperts = 1
    WarpGroups = 2
    MaxTokens = 2
    NumTopK = 2
    Rank = 0
    Tag = 4
    Routings <- MCRoutings
    PeerCounts = {2}
    Timeouts = FALSE
SPECIFICATION Spec
INVARIANTS
    TypeOK
    SignalCoversRows
    RowsInRegion
    WorkspaceRestored
    SendInv
