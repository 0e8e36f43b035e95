CONSTANTS
    Threads = {t1, t2}
    Nodes = {n1, n2, n3, n4}
    Dummy = Dummy
    NULL = NULL
    Asserted = {TRUE, FALSE}
CHECK_DEADLOCK FALSE
SPECIFICATION FairSpec
PROPERTIES
    ImplementsFreeQueue
    EveryTableTaken
