SPECIFICATION FairSpec
CONSTANTS
    b = b
    Byte <- OneByte
    NoPayload = NoPayload
    ChunkCapacity = 1
    InitialWindow = 4
    StreamIds = {1, 2}
    FirstId = 1
    IdSpace = 8
    MaxWriteBuffer = 2
    SocketRoom = 1
    Script <- Idle
    Arriving = 1
    Writes <- FirstOnly
    Closed = {1}
    MaxCloses = 0
    PeerMayClose = FALSE
    LinkEnds = {}
    Spurious = TRUE
PROPERTY EventuallyFlushed
CHECK_DEADLOCK FALSE
