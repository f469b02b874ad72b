SPECIFICATION Spec
CONSTANTS
    Threads = {t1, t2}
    Addrs = {a1, a2}
    NULL = NULL
    NAME_MAX = 1
    Names <- MCNames
    Attrs <- MCAttrs
    DefaultAttr <- MCDefaultAttr
    OFlags <- MCOFlags
    Lengths <- MCLengths
    Deadlines <- MCDeadlines
    Clock <- MCClock
    Forever <- MCForever
    NANOSECONDS_PER_SECOND = 6
    NANOSECONDS_PER_TICK = 3
    configTICK_RATE_HZ = 2
    UINT_MAX = 7
SYMMETRY Symmetry
INVARIANTS NoUseAfterDelete QueuesAccounted DataAccounted MessageFits NeverEarly
\* Threads may wait for ever on empty or full queues.
CHECK_DEADLOCK FALSE
