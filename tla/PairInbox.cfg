SPECIFICATION Spec
CONSTANTS
    NoPayload = NoPayload
    ChunkCapacity = 1
    InitialWindow = 4
    Byte <- Bytes
    MaxWrite = 1
    MaxRead = 1
    MaxWritten <- Written
    FromOpener = 9
    FromAcceptor = 0
    MaxWire = 40
    MayEnd = {}
    MayDrop = {}
    MayHold = {}
    EarlyClose = FALSE
INVARIANT InboxWithinWindow
CHECK_DEADLOCK FALSE
