----------------------------- MODULE PacketHeader ------------------------------
(***************************************************************************)
(* The twelve bytes of a frame's header (packet.rs, frame.rs), with its     *)
(* integers in network order (the traits of chunk.rs).                     *)
(***************************************************************************)
EXTENDS YamuxFrame, Integers

Octet == 0..255

\* `as u8`
U8(n) == n % 256

\* write_u16 and write_u32
WriteU16(n) == <<U8(n \div 256), U8(n)>>
WriteU32(n) == <<U8(n \div 16777216), U8(n \div 65536), U8(n \div 256), U8(n)>>

\* next_u16 and next_u32
ReadU16(a, b) == 256 * a + b
ReadU32(a, b, c, d) == 16777216 * a + 65536 * b + 256 * c + d

-----------------------------------------------------------------------------
\* Flags::bits and Flags::from_bits
BitIf(flag, flags, bit) == IF flag \in flags THEN bit ELSE 0
Bits(flags) ==
    BitIf("SYN", flags, 1) + BitIf("ACK", flags, 2)
      + BitIf("FIN", flags, 4) + BitIf("RST", flags, 8)

Bit == [SYN |-> 1, ACK |-> 2, FIN |-> 4, RST |-> 8]
MutantFromBits(bits) == {f \in Flag : bits % (2 * Bit[f]) = Bit[f]}
FromBits(bits) == {f \in Flag : (bits \div Bit[f]) % 2 = 1}

\* FrameType::as_u8, and which bytes FrameType::from_u8 takes.  A type of a
\* later protocol has a number of its own.
TypeByte == [Data |-> 0, WindowUpdate |-> 1, Ping |-> 2, GoAway |-> 3,
             Unknown |-> 4]
Known(type) == type \in 0..3

\* Header::new, Header::write and Header::read
NewHeader(kind, flags, stream_id, length) ==
    [version |-> 0, type |-> TypeByte[kind], flags |-> flags,
     stream_id |-> stream_id, length |-> length]

WriteHeader(header) ==
    <<U8(header.version), U8(header.type)>> \o WriteU16(Bits(header.flags))
      \o WriteU32(header.stream_id) \o WriteU32(header.length)

ReadHeader(o) ==
    [version |-> o[1], type |-> o[2],
     flags |-> FromBits(ReadU16(o[3], o[4])),
     stream_id |-> ReadU32(o[5], o[6], o[7], o[8]),
     length |-> ReadU32(o[9], o[10], o[11], o[12])]

-----------------------------------------------------------------------------
\* The frames that are a header, with numbers of 32 bits, and those of a type
\* that only a later protocol has.
Word == {n \in Nat : n \div 16777216 < 256}
HeaderFrame ==
    [stream : Word, event : [kind : {"Data"}, flags : SUBSET Flag, size : Word]]
      \cup [stream : Word,
            event : [kind : {"WindowUpdate"}, flags : SUBSET Flag, delta : Word]]
      \cup [stream : {0},
            event : [kind : {"Ping"}, flags : SUBSET Flag, code : Word]]
      \cup [stream : {0}, event : [kind : {"GoAway"}, flags : {{}}, code : Word]]
UnknownFrame ==
    [stream : Word, event : [kind : {"Unknown"}, flags : SUBSET Flag, code : Word]]

\* The number a frame carries in the header's length field.
Value(event) ==
    CASE event.kind = "Data" -> event.size
      [] event.kind = "WindowUpdate" -> event.delta
      [] event.kind \notin {"Data", "WindowUpdate"} -> event.code

\* Frame::write, of every frame but a chunk.
ToHeader(frame) ==
    NewHeader(frame.event.kind, frame.event.flags, frame.stream,
              Value(frame.event))

\* Frame::read, of a known type.
FromHeader(header) ==
    CASE header.type = 0 ->
            Frame(header.stream_id, Data(header.flags, header.length))
      [] header.type = 1 ->
            Frame(header.stream_id, WindowUpdate(header.flags, header.length))
      [] header.type = 2 -> Ping(header.flags, header.length)
      [] header.type = 3 -> GoAway(header.length)
===============================================================================
