SPECIFICATION Spec
CONSTANTS
    b = b
    Byte <- OneByte
    NoPayload = NoPayload
    ChunkCapacity = 2
    InitialWindow = 8
    MinWrite = 1
    MaxWrite = 3
    MaxRead = 2
    MinPayload = 1
    PeerDataFlags <- AllHeaders
    PeerDeltas <- Deltas
    MaxAccepted = 9
    MaxReceived = 3
    MaxGranted = 11
INVARIANT EofLast
CHECK_DEADLOCK FALSE
