SPECIFICATION Spec
CONSTANTS
    Calls = {c1, c2}
    NoCall = NoCall
    Methods = {"run", "pipe"}
    Chunks = 1
    ReadCap = 1
    MaxOutput = 1
    MaxEmit = 0
    MaxStdin = 0
    LeavesEarly = FALSE
    LateStdin = FALSE
    Tty = TRUE
    Cancellable = {c1}
    MayClose = TRUE
    MayDie = TRUE
    MayFail = FALSE
    MayStall = FALSE
    MaxRelinks = 1
INVARIANT TypeOK
INVARIANT LeaseExclusive
PROPERTY NoStrayInterrupt
PROPERTY PreludeFirst
PROPERTY ImplementsSession
CHECK_DEADLOCK FALSE
