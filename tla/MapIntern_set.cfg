CONSTANTS
    Threads = {t1, t2}
    t1 = t1
    t2 = t2
    k1 = k1
    k2 = k2
    k3 = k3
    v1 = v1
    v2 = v2
    v3 = v3
    v4 = v4
    Keys = {k1, k2}
    Values = {v1, v2, v3}
    Denotes <- OwnPointers
    Calls <- InternCalls
    MaxTables = 2
    Cap <- OneResize
    Home <- SmallHome
    MoveAmount = 2
    NULL = NULL
    TOMBSTONE = TOMBSTONE
CHECK_DEADLOCK FALSE
SPECIFICATION Spec
PROPERTIES
    ImplementsInternSet
