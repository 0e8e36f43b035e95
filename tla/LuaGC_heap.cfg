CONSTANTS
    Size = 3
    Slots = 1
    Mixes <- SmallMixes
    Watched = {2}
SPECIFICATION FairSpec
CHECK_DEADLOCK FALSE
INVARIANTS
    NoDangling
    Tricolour
    ListsSound
PROPERTIES
    CollectorInvisible
    FinalizedOnce
    GarbageFreed
