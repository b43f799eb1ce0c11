SPECIFICATION Spec
CONSTANTS
    i1 = i1
    i2 = i2
    i3 = i3
    q1 = q1
    q2 = q2
    e1 = e1
    Sessions = {i1, i2}
    Players = {q1}
    Login = login
    Shards = {e1}
    ShardOf <- OneShard
    NoSession = NoSession
    NoPlayer = NoPlayer
    NoGroup = NoGroup
    SendCap = 1
    MaxPackets = 2
INVARIANT NoStaleUse
CHECK_DEADLOCK FALSE
