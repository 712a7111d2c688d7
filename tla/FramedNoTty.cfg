SPECIFICATION Spec
CONSTANTS
    Calls = {c1, c2}
    NoCall = NoCall
    Methods = {"run", "pipe"}
    Chunks = 2
    ReadCap = 1
    MaxOutput = 0
    MaxEmit = 1
    MaxStdin = 1
    LeavesEarly = TRUE
    LateStdin = FALSE
    Tty = FALSE
    Cancellable = {c1}
    MayClose = FALSE
    MayDie = FALSE
    MayFail = TRUE
    MayStall = FALSE
    MaxRelinks = 0
INVARIANT ResultIsOwn
CHECK_DEADLOCK FALSE
