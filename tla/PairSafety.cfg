SPECIFICATION FairSpec
CONSTANTS
    NoPayload = NoPayload
    ChunkCapacity = 2
    InitialWindow = 8
    Byte <- Bytes
    MaxWrite = 2
    MaxRead = 1
    MaxWritten <- Written
    FromOpener = 2
    FromAcceptor = 1
    MaxWire = 20
    MayEnd = {"opener"}
    MayDrop = {"acceptor"}
    MayHold = {"opener", "acceptor"}
    EarlyClose = TRUE
INVARIANTS
    WindowConserved
    AcceptOnce
PROPERTIES
    ImplementsByteStream
    EventuallyRead
CHECK_DEADLOCK FALSE
