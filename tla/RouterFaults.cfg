SPECIFICATION Spec
CONSTANTS
    Ops = {o1, o2}
    Probers = {p1, p2}
    Chunks = 2
    MayFail = TRUE
INVARIANT TypeOK
INVARIANT NonIdempotentOnce
INVARIANT FallbackIsTransparent
INVARIANT RequestIntact
CHECK_DEADLOCK FALSE
