SPECIFICATION FairSpec
CONSTANTS
    Calls = {c1, c2}
    Nobody = Nobody
    Closer = Closer
    MaxEpochs = 2
    MayBeOld = TRUE
    MayDie = FALSE
    MayFail = FALSE
    MayStall = FALSE
    MayExpire = FALSE
PROPERTY CloseComesBack
CHECK_DEADLOCK FALSE
