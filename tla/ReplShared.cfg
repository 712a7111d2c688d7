SPECIFICATION FairSpec
CONSTANTS
    Calls = {c1, c2}
    Nobody = Nobody
    Closer = Closer
    MaxEpochs = 2
    MayBeOld = FALSE
    MayDie = TRUE
    MayFail = TRUE
    MayStall = TRUE
    MayExpire = TRUE
INVARIANT TypeOK
INVARIANT RepliesInStep
PROPERTY CloseComesBack
CHECK_DEADLOCK FALSE
