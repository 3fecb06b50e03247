SPECIFICATION FairSpec
CONSTANTS
    b = b
    Byte <- OneByte
    NoPayload = NoPayload
    ChunkCapacity = 1
    InitialWindow = 4
    StreamIds = {1, 2}
    FirstId = 1
    IdSpace = 8
    MaxWriteBuffer = 2
    SocketRoom = 1
    Script <- Traffic
    Arriving = 1
    Writes <- FirstOnly
    Closed = {1}
    MaxCloses = 2
    PeerMayClose = TRUE
    LinkEnds = {"eof", "down"}
    Spurious = FALSE
INVARIANTS
    TypeOK
    NothingAfterGoAway
    BufferBounded
    NoLostWakeup
PROPERTIES
    TransportDiscipline
    EventuallyHandedOver
    EventuallyEnded
    LinkEndNoticed
CHECK_DEADLOCK FALSE
