SPECIFICATION Spec
CONSTANTS
    main = main
    t1 = t1
    t2 = t2
    k1 = k1
    k2 = k2
    k3 = k3
    k4 = k4
    NULL = NULL
    Threads <- MCThreads
    Main = main
    Keys = {k1, k2, k3, k4}
    Plain = {k3}
    Indexes = {"x1", "x2"}
    Slots = 2
    LifeScripts <- MCScripts
    Platforms = {"msvc", "posix"}
CHECK_DEADLOCK FALSE
INVARIANTS
    OwnDestructor
    ValuesDestroyed
PROPERTIES
    InitialisedOnce
