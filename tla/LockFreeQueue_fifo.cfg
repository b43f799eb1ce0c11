SPECIFICATION FairSpec
CONSTANTS
    t1 = t1
    t2 = t2
    n1 = n1
    n2 = n2
    n3 = n3
    v1 = v1
    v2 = v2
    Threads = {t1, t2}
    Nodes = {n1, n2, n3}
    Values = {v1, v2}
    NULL = NULL
    ScanEvery = 1
    MaxDequeues = 3
    Stalled = t2
INVARIANTS
    TypeOK
    NoUseAfterFree
    OneOwner
    SizeTells
PROPERTIES
    FifoSpec
    CallsReturn
CHECK_DEADLOCK FALSE
