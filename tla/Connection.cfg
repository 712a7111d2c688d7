SPECIFICATION FairSpec
CONSTANTS
    Programs = {"cli", "mcp"}
    Transports = {"exec", "tmux"}
    ReadCap = 1
    MaxReqs = 2
    MaxOut = 1
    MaxPane = 2
INVARIANT TypeOK
INVARIANT NothingLeft
INVARIANT ChildMayLeave
INVARIANT ReadsFromAttach
PROPERTY ComesBack
PROPERTY ReaderEnds
CHECK_DEADLOCK FALSE
