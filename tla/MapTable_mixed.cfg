CONSTANTS
    Threads = {t1, t2}
    t1 = t1
    t2 = t2
    k1 = k1
    k2 = k2
    k3 = k3
    v1 = v1
    v2 = v2
    v3 = v3
    v4 = v4
    Keys = {k1, k2}
    Values = {v1}
    Denotes <- Unrelated
    Calls <- MixedCalls
    MaxTables = 2
    Cap <- ShortChunk
    Home <- SmallHome
    MoveAmount = 2
    NULL = NULL
    TOMBSTONE = TOMBSTONE
SPECIFICATION Spec
SYMMETRY ThreadSymmetry
CHECK_DEADLOCK FALSE
INVARIANTS
    TypeOK
    KeysOnPath
    WriteResults
PROPERTIES
    FrozenForever
