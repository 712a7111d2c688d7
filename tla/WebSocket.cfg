SPECIFICATION FairSpec
CONSTANTS
    Setups <- MCSetups
    MaxConns = 4
    MaxMsgs = 1
    MayGarble = TRUE
    MayHang = TRUE
INVARIANT TypeOK
INVARIANT NothingStale
INVARIANT ChargedAndReportedOnce
INVARIANT SwapExcludesWrites
PROPERTY ConnIsFinal
PROPERTY CloseReleases
PROPERTY ReadNotStranded
