SPECIFICATION RemoteSpec
CONSTANTS
    Calls = {c1, c2}
    NoCall = NoCall
    Paths = {p1, p2}
    Dirs = {}
    Kinds = {"read", "write", "remove", "rename", "list", "probe"}
    Limit = 2
    HasSha = TRUE
    Gnu = TRUE
    SeesStderr = TRUE
    Faults = {"exit", "cancel", "corrupt", "lost"}
    MayClose = TRUE
    MaxRouted = 1
INVARIANT RemoteTypeOK
 
PROPERTY ImplementsFiles
SYMMETRY Symmetry
CHECK_DEADLOCK FALSE
