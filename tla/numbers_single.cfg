CONSTANTS
    Callers <- OneCaller
    numCntArg = 4
    UINT_MAX = 99
SPECIFICATION NumFairSpec
CHECK_DEADLOCK TRUE
INVARIANTS BitsAreHeld
PROPERTIES ReturnsUnlessFull
