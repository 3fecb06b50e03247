SPECIFICATION FairSpec
CONSTANTS
    Byte <- SomeBytes
    HeaderLen = 2
    ChunkCapacity = 3
    ReadSize = 4
    MaxWriteBuffer = 4
    SocketRoom = 3
    Ways <- AllWays
    Leading <- SomeFrames
    Content <- SomeContent
    MaxFrames = 4
    MayBreak = TRUE
INVARIANTS
    TypeOK
    ChainsExact
    FramesInOrder
    BytesConserved
    
PROPERTIES
    EventuallyYielded
CHECK_DEADLOCK FALSE
