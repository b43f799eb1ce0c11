SPECIFICATION PeerFairSpec
CONSTANTS
    w1 = w1
    w2 = w2
    a1 = a1
    a2 = a2
    p1 = p1
    p2 = p2
    Slots = {0}
    Workers = {w1, w2}
    Apps = {a1}
    Acceptor = acc
    Packets = {p1}
    NoId = NoId
    NoSlot = NoSlot
    RingCap = 2
    Batch = 1
    MaxUnique = 2
    MaxSends = 2
    LoginCopy = FALSE
PROPERTIES
    LeaseSpec
    ReleaseCompletes
CHECK_DEADLOCK FALSE
