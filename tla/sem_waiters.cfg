CONSTANTS
    Threads <- TwoWaitersOnePost
    Initial = 0
    SEM_VALUE_MAX = 100
    MaxPosts = 2
SPECIFICATION Spec
CHECK_DEADLOCK FALSE
INVARIANT NobodyWaits
