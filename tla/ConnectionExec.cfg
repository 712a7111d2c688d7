SPECIFICATION Spec
CONSTANTS
    Programs = {"mcp"}
    Transports = {"exec"}
    ReadCap = 1
    MaxReqs = 2
    MaxOut = 2
    MaxPane = 2
INVARIANT ConnectionOutlivesDial
CHECK_DEADLOCK FALSE
