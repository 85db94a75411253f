SPECIFICATION Spec
CONSTANTS
    t1 = t1
    t2 = t2
    t3 = t3
    k1 = k1
    k2 = k2
    k3 = k3
    r1 = r1
    r2 = r2
    r3 = r3
    r4 = r4
    r5 = r5
    Nil = Nil
    Threads <- TwoThreads
    Keys <- ThreeKeys
    Requests <- FiveRequests
    Disconnects <- NoRequests
    CacheCapacity = 1
    MayTimeout = FALSE
SYMMETRY Symmetry
INVARIANTS
    TypeOK
    OneFetchPerKey
    BlockedLeadsNothing
    LeaderMapAccessSafe
    NullNeverServed
    HitIsComplete
    AnsweredByOwnGroup
    NoParkedLost
    CallbacksOnOwnThread
    CleanWhenQuiet
PROPERTIES
    GroupOutlivesFetch
    SingleFlightSpec
