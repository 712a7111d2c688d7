SPECIFICATION Spec
CONSTANTS
    Streams <- MCStreams
    Caps = {0, 2}
    HardLimit = 2
INVARIANT StateMatchesReference
INVARIANT ResultMatchesReference
INVARIANT BufferBounded
INVARIANT DeliveredIsOutput
PROPERTY StreamKeepsLittle
CHECK_DEADLOCK FALSE
