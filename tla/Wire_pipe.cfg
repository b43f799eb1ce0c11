SPECIFICATION MCSpec
CONSTANTS
    s1 = s1
    s2 = s2
    p1 = p1
    p2 = p2
    Senders = {s1, s2}
    Packets = {p1, p2}
    NoPacket = NoPacket
    NoSender = NoSender
    Byte = 4
    PacketCode = 2
    PacketKey = 1
    Keys = {3}
    PayloadBytes = {1, 3}
    MaxPayload = 2
    RecvSize = 7
    SendSize = 2
    MaxSends = 3
PROPERTIES
    PipeSpec
    AllArrive
CHECK_DEADLOCK FALSE
