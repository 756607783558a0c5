CONSTANTS
    p2 = p2
    p3 = p3
    NoPacket = NoPacket
    QueueDwords = 8
    WordSpan = 16
    DoorbellSize = 8
    Packets <- MCPackets
    PacketSize <- MCPacketSize
    MaxWptr = 36
SPECIFICATION Spec
INVARIANTS BufferIsFree DrainedRingAccepts
PROPERTIES UnreadIsIntact ImplementsFifo
