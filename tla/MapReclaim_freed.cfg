CONSTANTS
    t1 = t1
    t2 = t2
    Threads = {t1, t2}
    Hitting = {t2}
    Ending = {t2}
    Late = {t2}
    MaxTables = 2
    MaxTime = 2
    MaxDelayed = 1
    NULL = NULL
CHECK_DEADLOCK FALSE
SPECIFICATION FairReclaimSpec
INVARIANTS
    NoUseAfterFree
    UnpinnedHoldsNothing
    RetiredUnreachable
PROPERTIES
    EveryTableFreed
