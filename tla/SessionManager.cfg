SPECIFICATION FairSpec
CONSTANTS
    c1 = c1
    c2 = c2
    u1 = u1
    u2 = u2
    none = none
    NoConn = none
    Conns <- TwoConns
    Callers <- TwoCallers
    MaxDepth = 1
    MaxCmds = 1
INVARIANTS OneOwnerPerConn SessionIsWatched NothingLeftBehind OneSenderAtRest
PROPERTIES ReplayNeedsOverlap LossIsNoticed DisconnectReturns CommandsSettle
