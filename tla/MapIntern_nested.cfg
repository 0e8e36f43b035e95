CONSTANTS
    Threads = {t1, t2}
    t1 = t1
    t2 = t2
    k1 = k1
    k2 = k2
    k3 = k3
    v1 = v1
    v2 = v2
    v3 = v3
    v4 = v4
    Keys = {k1, k2, k3}
    Values = {v1, v3, v4}
    Denotes <- OwnPointers
    Calls <- NestedCalls
    MaxTables = 3
    Cap <- TinyCaps
    Home <- SpreadHome
    MoveAmount = 3
    NULL = NULL
    TOMBSTONE = TOMBSTONE
SPECIFICATION FairSpec
CHECK_DEADLOCK FALSE
INVARIANTS
    CountLags
    RetiredMigrated
PROPERTIES
    ImplementsChain
    CallsReturn
