------------------------------ MODULE YamuxFrame ------------------------------
(***************************************************************************)
(* The frame vocabulary of the crate (packet.rs, frame.rs) as the session  *)
(* and the stream heads see it: a frame is a record, a flag word is the    *)
(* set of the flags it carries, a ChunkView is the sequence of its bytes.  *)
(***************************************************************************)
EXTENDS Naturals, Sequences, Sums

CONSTANT Byte  \* what a byte of payload may be

Flag == {"SYN", "ACK", "FIN", "RST"}

Chunk == Seq(Byte)

\* FrameStreamEvent, the frames addressed to one stream.
Data(flags, size) == [kind |-> "Data", flags |-> flags, size |-> size]
DataChunk(chunk) == [kind |-> "DataChunk", chunk |-> chunk]
WindowUpdate(flags, delta) ==
    [kind |-> "WindowUpdate", flags |-> flags, delta |-> delta]

DataEvent == [kind : {"Data"}, flags : SUBSET Flag, size : Nat]
ChunkEvent == [kind : {"DataChunk"}, chunk : Chunk]
UpdateEvent == [kind : {"WindowUpdate"}, flags : SUBSET Flag, delta : Nat]
StreamEvent == DataEvent \cup ChunkEvent \cup UpdateEvent

\* FrameStreamEvent::flags(): a chunk has none, which the session treats the
\* same way as an event whose flags are empty.
EventFlags(event) == IF event.kind = "DataChunk" THEN {} ELSE event.flags

\* Payload bytes and credit in a sequence of events.
PayloadOf(event) == IF event.kind = "DataChunk" THEN Len(event.chunk) ELSE 0
CreditOf(event) == IF event.kind = "WindowUpdate" THEN event.delta ELSE 0
Payload(events) ==
    SumTo([i \in 1..Len(events) |-> PayloadOf(events[i])], Len(events))
Credit(events) ==
    SumTo([i \in 1..Len(events) |-> CreditOf(events[i])], Len(events))

\* Frame: a stream's event, or a session's on the reserved stream 0.
Frame(id, event) == [stream |-> id, event |-> event]
Ping(flags, code) == Frame(0, [kind |-> "Ping", flags |-> flags, code |-> code])
GoAway(code) == Frame(0, [kind |-> "GoAway", flags |-> {}, code |-> code])

\* FrameWriter::write.  owed is the set of payloads still to be written, at most
\* one, each the stream and the bytes that remain.
WriterAccepts(owed, frame) ==
    IF owed = {} THEN frame.event.kind # "DataChunk"
    ELSE \A payload \in owed :
            /\ frame.event.kind = "DataChunk" /\ frame.stream = payload.stream
            /\ Len(frame.event.chunk) <= payload.remain
WriterOwes(owed, frame) ==
    CASE frame.event.kind = "Data" ->
            {[stream |-> frame.stream, remain |-> frame.event.size]}
      [] frame.event.kind = "DataChunk" ->
            {[payload EXCEPT !.remain = @ - Len(frame.event.chunk)] :
                payload \in {p \in owed : p.remain > Len(frame.event.chunk)}}
      [] frame.event.kind \notin {"Data", "DataChunk"} -> owed
===============================================================================
