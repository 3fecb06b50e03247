------------------------------ MODULE FrameCodec -------------------------------
(***************************************************************************)
(* From the frames one side writes to the frames the other reads, byte by  *)
(* byte (transport.rs, frame.rs, packet.rs, chunk.rs), in one of the ways  *)
(* the crate offers: two transports with a socket between them, which      *)
(* takes and gives as many bytes at a time as it likes; FrameWriter, whose *)
(* chunks are popped and pushed to a FrameReader one by one; or            *)
(* FrameWriter::take, whose buffer becomes the reader's at once.           *)
(*                                                                         *)
(* A byte of a header is the header's octets and the byte's place in them, *)
(* so that bytes taken from the wrong place are seen to make no header.    *)
(* Bytes of payload differ from those.                                     *)
(***************************************************************************)
EXTENDS PacketHeader, ChunkBuffer

CONSTANTS HeaderLen,       \* HEADER_LEN
          ReadSize,        \* the buffer of YamuxTransport::poll_next
          MaxWriteBuffer,  \* max_writer_buffer
          SocketRoom,      \* bytes the connection holds
          Ways,            \* of {"socket", "pop", "take"}
          Leading,         \* the frames written, apart from payload
          Content,         \* the payload bytes written, all together
          MaxFrames,       \* bound: frames and payloads written
          MayBreak         \* the connection may be lost

\* A byte of a header: its octets and its place.
HeaderByte(octets, k) == [octets |-> octets, at |-> k]
HeadByte == [octets : [1..12 -> Octet], at : 1..HeaderLen]
WireByte == Byte \cup HeadByte

ASSUME CodecAssumption ==
    /\ {HeaderLen, ReadSize, SocketRoom} \subseteq Nat \ {0}
    /\ MaxWriteBuffer \in Nat /\ MaxFrames \in Nat /\ MayBreak \in BOOLEAN
    /\ Leading \subseteq HeaderFrame \cup UnknownFrame
    /\ Content \in Seq(Byte) /\ \A byte \in Byte : byte \notin HeadByte
    /\ Ways \subseteq {"socket", "pop", "take"}

VARIABLES way,      \* how bytes get from the writer to the reader
          writer,   \* the writer's chain of chunks
          owed,     \* FrameWriter's pending payload, none or one; a session
                    \* keeps to it when it hands frames to a transport
          wire,     \* bytes the connection holds
          shut,     \* poll_close has closed the connection, or take the writer
          broken,   \* the connection is lost
          reader,   \* the reader's chain of views
          pending,  \* FrameReader's pending payload, none or one
          result,   \* the reader: "open", "eof" or "error"
          sent,     \* history: the frames written
          yielded   \* history: the frames read, payload byte by byte

reading == <<reader, pending>>
vars == <<way, writer, owed, wire, shut, broken, reading, result, sent,
          yielded>>

Init ==
    /\ way \in Ways
    /\ writer = NewWriter /\ owed = {}
    /\ wire = <<>> /\ shut = FALSE /\ broken = FALSE
    /\ reader = NewReader /\ pending = {}
    /\ result = "open" /\ sent = <<>> /\ yielded = <<>>

-----------------------------------------------------------------------------
\* Frames and bytes.

\* Frame::write: a header's bytes, or a chunk's.
HeaderBytes(frame) ==
    LET octets == WriteHeader(ToHeader(frame))
    IN  [k \in 1..HeaderLen |-> HeaderByte(octets, k)]
WriteBytes(w, bytes) ==
    LET after[k \in 0..Len(bytes)] ==
            IF k = 0 THEN w ELSE WriteU8(after[k - 1], bytes[k])
    IN  after[Len(bytes)]
Written(w, frame) ==
    IF frame.event.kind = "DataChunk"
    THEN WriteSlice(w, frame.event.chunk)
    ELSE WriteBytes(w, HeaderBytes(frame))

\* The headers that bytes taken from the chain make: one, if they are a header's.
HeadersIn(bytes) ==
    {ReadHeader(byte.octets) : byte \in
        {b \in {bytes[1]} \ Byte :
            \A k \in 1..HeaderLen : bytes[k] = HeaderByte(b.octets, k)}}

-----------------------------------------------------------------------------
\* The writing side.

\* The payload bytes written so far.
Used == Payload([i \in DOMAIN sent |-> sent[i].event])
NextChunkOf(stream, n) ==
    Frame(stream, DataChunk(SubSeq(Content, Used + 1, Used + n)))

\* poll_ready, once its poll_write has written what the socket takes.
TransportReady == writer.queue = <<>> \/ writer.filled_len < MaxWriteBuffer

\* poll_ready and start_send.  The session hands a transport a header's payload
\* next, and in one piece.
Send ==
    /\ way = "socket" /\ ~shut /\ ~broken /\ TransportReady
    /\ Len(sent) < MaxFrames
    /\ \E frame \in IF owed = {} THEN Leading
                    ELSE {NextChunkOf(p.stream, p.remain) : p \in
                            {q \in owed : Used + q.remain <= Len(Content)}} :
          /\ writer' = Written(writer, frame)
          /\ owed' = WriterOwes(owed, frame)
          /\ sent' = Append(sent, frame)
    /\ UNCHANGED <<way, wire, shut, broken, reading, result, yielded>>

\* FrameWriter::write, called with anything.  What it does not accept is an
\* error and changes nothing.
Write ==
    /\ way # "socket" /\ ~shut
    /\ Len(sent) < MaxFrames
    /\ \E frame \in Leading \cup
                    {NextChunkOf(f.stream, n) :
                        f \in Leading, n \in 0..Len(Content) - Used} :
          /\ WriterAccepts(owed, frame)
          /\ writer' = Written(writer, frame)
          /\ owed' = WriterOwes(owed, frame)
          /\ sent' = Append(sent, frame)
    /\ UNCHANGED <<way, wire, shut, broken, reading, result, yielded>>

\* One turn of poll_write: the socket takes some of the front chunk.
PollWrite ==
    /\ way = "socket" /\ ~broken /\ writer.queue # <<>>
    /\ \E n \in 1..Len(FrontSlice(writer)) :
          /\ Len(wire) + n <= SocketRoom
          /\ wire' = wire \o SubSeq(FrontSlice(writer), 1, n)
          /\ writer' = ConsumeFront(writer, n)
    /\ UNCHANGED <<way, owed, shut, broken, reading, result, sent, yielded>>

\* poll_close: the connection is closed once poll_write is Ready, be it inside a
\* frame: a session that closes may still have a payload in its out_queue.
MutantDrained == TRUE
Drained == writer.queue = <<>>

PollClose ==
    /\ way = "socket" /\ ~shut /\ ~broken /\ Drained
    /\ shut' = TRUE
    /\ UNCHANGED <<way, writer, owed, wire, broken, reading, result, sent, yielded>>

\* The connection is lost, and with it some of the bytes it holds.
Break ==
    /\ way = "socket" /\ MayBreak /\ ~broken
    /\ broken' = TRUE
    /\ \E n \in 0..Len(wire) : wire' = SubSeq(wire, 1, n)
    /\ UNCHANGED <<way, writer, owed, shut, reading, result, sent, yielded>>

\* FrameWriter::pop_front and FrameReader::push_back.
PassChunk ==
    /\ way = "pop" /\ writer.queue # <<>>
    /\ reader' = PushBack(reader, FrontView(writer))
    /\ writer' = PopFront(writer)
    /\ UNCHANGED <<way, owed, wire, shut, broken, pending, result, sent, yielded>>

\* FrameWriter::take and FrameReader::new on the buffer.
PassAll ==
    /\ way = "take" /\ ~shut
    /\ reader' = FromWriter(writer) /\ writer' = NewWriter
    /\ shut' = TRUE
    /\ UNCHANGED <<way, owed, wire, broken, pending, result, sent, yielded>>

-----------------------------------------------------------------------------
\* The reading side.

\* next_u8, next_u8, next_u16, next_u32, next_u32 of Header::read.
SkipHeader(r) ==
    LET after[k \in 0..HeaderLen] ==
            IF k = 0 THEN r ELSE TakeFront(after[k - 1], 1)
    IN  after[HeaderLen]

\* What a header announces.
PendingPayload(frame) ==
    {[stream |-> s, remain |-> frame.event.size] :
        s \in {t \in {frame.stream} : frame.event.kind = "Data"}}

\* FrameReader::next_frame on a chain r: a piece of the pending payload, or a
\* header.  Either waits for more bytes first.
PayloadWaits(r) == pending # {} /\ r.chunks = <<>>
MutantHeaderWaits(r) == pending = {} /\ r.len <= HeaderLen
HeaderWaits(r) == pending = {} /\ r.len < HeaderLen
Waits(r) == PayloadWaits(r) \/ HeaderWaits(r)

NextPayload(r) ==
    /\ pending # {} /\ ~PayloadWaits(r)
    /\ \E p \in pending :
          LET chunk == NextChunk(r, p.remain)
          IN  /\ reader' = TakeFront(r, Len(chunk))
              /\ pending' = IF p.remain = Len(chunk) THEN {}
                            ELSE {[p EXCEPT !.remain = @ - Len(chunk)]}
              /\ yielded' = yielded \o
                    [i \in DOMAIN chunk |-> Frame(p.stream, DataChunk(<<chunk[i]>>))]
    /\ UNCHANGED result

NextHeader(r) ==
    /\ pending = {} /\ ~HeaderWaits(r)
    /\ reader' = SkipHeader(r)
    /\ LET read == HeadersIn(FlattenSeq(r.chunks))
       IN  \/ \E header \in read :
                 /\ Known(header.type)
                 /\ pending' = PendingPayload(FromHeader(header))
                 /\ yielded' = Append(yielded, FromHeader(header))
                 /\ UNCHANGED result
           \/ /\ ~ \E header \in read : Known(header.type)
              /\ result' = "error"
              /\ UNCHANGED <<pending, yielded>>

NextFrame(r) == NextPayload(r) \/ NextHeader(r)

\* poll_next first tries what it has; a FrameReader has no more than that.
PollBuffered ==
    /\ result = "open"
    /\ NextFrame(reader)
    /\ UNCHANGED <<way, writer, owed, wire, shut, broken, sent>>

\* And then, turn by turn, with what the socket gives.
PollRead ==
    /\ result = "open" /\ Waits(reader) /\ wire # <<>>
    /\ \E n \in 1..ReadSize :
          LET r == PushBack(reader, SubSeq(wire, 1, n))
          IN  /\ n <= Len(wire)
              /\ wire' = SubSeq(wire, n + 1, Len(wire))
              /\ \/ NextFrame(r)
                 \/ /\ Waits(r)
                    /\ reader' = r
                    /\ UNCHANGED <<pending, result, yielded>>
    /\ UNCHANGED <<way, writer, owed, shut, broken, sent>>

\* The socket gives nothing any more: an end of file or, from a connection
\* that is lost, perhaps an error.
PollEnd ==
    /\ way = "socket" /\ result = "open" /\ Waits(reader)
    /\ wire = <<>> /\ (shut \/ broken)
    /\ result' \in {"eof"} \cup {r \in {"error"} : broken}
    /\ UNCHANGED <<way, writer, owed, wire, shut, broken, reading, sent, yielded>>

Next ==
    \/ Send \/ Write \/ PollWrite \/ PollClose \/ Break
    \/ PassChunk \/ PassAll
    \/ PollBuffered \/ PollRead \/ PollEnd

Spec == Init /\ [][Next]_vars

\* The reading side is polled.  Nothing makes the writing side be: a session does
\* not retry a flush that was Pending.
Fairness == WF_vars(PollBuffered \/ PollRead \/ PollEnd)
FairSpec == Spec /\ Fairness

-----------------------------------------------------------------------------
(* Properties *)

\* The state has its shape.
TypeOK ==
    /\ way \in Ways /\ writer \in Writer(WireByte)
    /\ \A debts \in {owed, pending} :
          debts \subseteq [stream : Word, remain : Nat] /\ Cardinality(debts) <= 1
    /\ wire \in Seq(WireByte) /\ Len(wire) <= SocketRoom
    /\ shut \in BOOLEAN /\ broken \in BOOLEAN
    /\ reader \in Reader(WireByte)
    /\ result \in {"open", "eof", "error"}

Unconsumed ==
    FlattenSeq([n \in DOMAIN writer.queue |-> FilledSlice(writer.queue[n])])
Received == FlattenSeq(reader.chunks)

\* The counters beside the two chains, which backpressure and Header::read rely
\* on, count exactly the bytes in them, and no chain has an empty chunk, on
\* which poll_write would spin and next_u8 and next_chunk panic.  No chunk is
\* written beyond its capacity.
ChainsExact ==
    /\ writer.filled_len = Len(Unconsumed) /\ reader.len = Len(Received)
    /\ \A n \in DOMAIN writer.queue :
          FilledLen(writer.queue[n]) > 0 /\ AvailableLen(writer.queue[n]) >= 0
    /\ \A n \in DOMAIN reader.chunks : reader.chunks[n] # <<>>

\* Frames with payload taken byte by byte.
Units(frames) ==
    FlattenSeq([n \in DOMAIN frames |->
        IF frames[n].event.kind = "DataChunk"
        THEN [i \in DOMAIN frames[n].event.chunk |->
                 Frame(frames[n].stream, DataChunk(<<frames[n].event.chunk[i]>>))]
        ELSE <<frames[n]>>])

\* However the bytes are cut on the way, the frames read are the frames written,
\* in order and none made up, each payload byte under its own stream; reading
\* fails only on a lost connection or an unknown type.
FramesInOrder ==
    /\ IsPrefix(yielded, Units(sent))
    /\ result = "error" =>
          broken \/ \E n \in DOMAIN sent : sent[n].event.kind = "Unknown"

\* No byte is lost or doubled between the two chains, whether chunks are
\* consumed, popped or converted: encoding again what was read gives what
\* precedes the bytes still on their way.
Encoded(frames) ==
    FlattenSeq([n \in DOMAIN frames |->
        IF frames[n].event.kind = "DataChunk" THEN frames[n].event.chunk
        ELSE HeaderBytes(frames[n])])
BytesConserved ==
    ~broken /\ result # "error" =>
        Encoded(yielded) \o Received \o wire \o Unconsumed = Encoded(sent)

\* An end of file read from a connection that poll_close closed comes after all
\* the transport was given.  If that ends inside a frame, since the session had
\* not yet given it the payload, the reader still waits for exactly that payload,
\* which is the only sign of it: to the session the end is an orderly one.
Debt(debts) == {p \in debts : p.remain > 0}
EofAfterAll ==
    result = "eof" /\ ~broken =>
        yielded = Units(sent) /\ Debt(pending) = Debt(owed)

\* Every frame all of whose bytes have left the writer has been read.
AllRead ==
    \A n \in 1..Len(sent) :
        LET frames == SubSeq(sent, 1, n)
        IN  Len(Encoded(frames)) + writer.filled_len <= Len(Encoded(sent)) =>
                IsPrefix(Units(frames), yielded)

\* A frame that has left the writer is read in the end, unless reading fails,
\* whatever becomes of those behind it: a payload of no bytes, or a header cut
\* in two, delays what follows but does not stop it.
EventuallyYielded == []<>(AllRead \/ broken \/ result = "error")
===============================================================================
