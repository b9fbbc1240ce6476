CONSTANTS
    MaxMoves = 3
    MaxWrites = 0
SPECIFICATION FairSpec
INVARIANTS RowFollowsSession
PROPERTIES PageShowsConnected PageShowsLoss
CHECK_DEADLOCK FALSE
