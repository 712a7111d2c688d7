SPECIFICATION Spec
CONSTANTS
    Boots = {b1, b2}
    NoFile = NoFile
INVARIANT TypeOK
INVARIANT PathIsWhole
INVARIANT SuccessIsInstalled
INVARIANT RetryStartsClean
CHECK_DEADLOCK FALSE
