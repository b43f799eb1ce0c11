SPECIFICATION FairSpec
CONSTANTS
    u1 = u1
    u2 = u2
    UpdateThreads = {u1, u2}
    Writer = writer
    PerThread = 2
    MaxFaults = 1
INVARIANTS
    TypeOK
    TradeAtomic
    SavedUnlessFailed
PROPERTY ShutsDown
CHECK_DEADLOCK FALSE
