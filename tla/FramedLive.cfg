SPECIFICATION FairSpec
CONSTANTS
    Calls = {c1, c2}
    NoCall = NoCall
    Methods = {"pipe"}
    Chunks = 1
    ReadCap = 1
    MaxOutput = 1
    MaxEmit = 1
    MaxStdin = 0
    LeavesEarly = FALSE
    LateStdin = FALSE
    Tty = TRUE
    Cancellable = {c1}
    MayClose = TRUE
    MayDie = FALSE
    MayFail = FALSE
    MayStall = TRUE
    MaxRelinks = 0
PROPERTY CancelReturns
CHECK_DEADLOCK FALSE
PROPERTY CloseUnblocks
