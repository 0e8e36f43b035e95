SPECIFICATION FairSpec
CONSTANTS
    t1 = t1
    t2 = t2
    t3 = t3
    t4 = t4
    NULL = NULL
    Threads <- MCThreads
    CondScripts <- MCScripts
    Platforms = {"msvc", "posix"}
    GoneLimit = 2
    MaxClock = 1
CHECK_DEADLOCK FALSE
INVARIANTS
    TokensMatch
PROPERTIES
    NoSpuriousWakeup
    BroadcastWakes
