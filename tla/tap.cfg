CONSTANTS
    Readers <- TwoReaders
    Pipes <- ThreePipes
    NoPipe = 0
    MaxNews = 2
SPECIFICATION TapFairSpec
CHECK_DEADLOCK FALSE
INVARIANTS NoReaderLeftBehind
PROPERTIES FramesAreRead
