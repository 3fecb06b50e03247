SPECIFICATION FairSpec
CONSTANTS
    NoPayload = NoPayload
    ChunkCapacity = 1
    InitialWindow = 6
    Byte <- Bytes
    MaxWrite = 1
    MaxRead = 1
    MaxWritten <- Written
    FromOpener = 0
    FromAcceptor = 13
    MaxWire = 1
    MayEnd = {}
    MayDrop = {"opener"}
    MayHold = {}
    EarlyClose = FALSE
INVARIANTS
    TypeOK
    WindowConserved
    BrokenOnlyAfterEof
    NoStall
    NoLeftover
PROPERTIES
    EventuallyRead
    EventuallyRemoved
CHECK_DEADLOCK FALSE
