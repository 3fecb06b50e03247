SPECIFICATION Spec
CONSTANTS
    NoPayload = NoPayload
    ChunkCapacity = 1
    InitialWindow = 4
    Byte <- Bytes
    MaxWrite = 1
    MaxRead = 1
    MaxWritten <- Written
    FromOpener = 0
    FromAcceptor = 9
    MaxWire = 40
    MayEnd = {}
    MayDrop = {}
    MayHold = {}
    EarlyClose = TRUE
INVARIANT NoLeftover
CHECK_DEADLOCK FALSE
