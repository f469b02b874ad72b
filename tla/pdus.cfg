CONSTANTS
    Bufs <- FourBufs
    NoBuf = 0
    QueueLen = 2
SPECIFICATION Spec
CHECK_DEADLOCK FALSE
INVARIANTS NoUseAfterFree NothingLost FramesComplete
