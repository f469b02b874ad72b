CONSTANTS
    Threads = {t1, t2}
    Resources = {r1, r2, r3, r4, r5}
    NoThread = NoThread
    NoRsrc = NoRsrc
    PoolArgs <- AllArgs
SPECIFICATION FairSpec
CHECK_DEADLOCK FALSE
INVARIANTS Exclusive CountsExact GrowthBounded
PROPERTIES MutexReturns
