SPECIFICATION Spec
CONSTANTS
    t1 = t1
    t2 = t2
    t3 = t3
    k1 = k1
    k2 = k2
    k3 = k3
    r1 = r1
    r2 = r2
    r3 = r3
    r4 = r4
    r5 = r5
    Nil = Nil
    Threads <- TwoThreads
    Keys <- TwoKeys
    Requests <- TwoRequests
    Disconnects <- TwoRequests
    CacheCapacity = 1
    MayTimeout = TRUE
INVARIANTS
    CallbacksAlive
CHECK_DEADLOCK FALSE
