---------------------------- MODULE StreamEndpoint ----------------------------
(***************************************************************************)
(* One stream at one endpoint: its head, polled and fed by the session, its*)
(* handle, used by the application at any moment, and a remote peer that   *)
(* keeps to SPEC.md but is otherwise free.  What the peer sends arrives as *)
(* FrameReader yields it: a data header, then its payload in any parts.    *)
(*                                                                         *)
(* The variables after stream are history: they only record what crossed   *)
(* the head's boundary, for the properties to compare with its state.      *)
(***************************************************************************)
EXTENDS StreamHead

CONSTANTS MinWrite, MaxWrite,  \* sizes of the buffers the application writes
          MaxRead,             \* and reads into
          PeerDataFlags,       \* flag words the peer puts on data headers
          MinPayload,          \* size of the payloads the peer sends, from
          PeerDeltas,          \* credit in one of the peer's window updates
          MaxAccepted,         \* bound: bytes the application writes
          MaxReceived,         \* bound: bytes the peer sends
          MaxGranted           \* bound: credit the peer grants

ASSUME SizesAssumption ==
    /\ MinWrite \in Nat /\ MaxWrite \in Nat /\ MaxRead \in Nat
    /\ MinPayload \in Nat
    /\ PeerDataFlags \subseteq SUBSET Flag /\ PeerDeltas \subseteq Nat

VARIABLES stream,    \* the StreamHead record
          accepted,  \* bytes poll_write has taken from the application
          granted,   \* credit the peer has sent
          received,  \* payload bytes announced by the peer
          credited,  \* credit sent to the peer
          fins,      \* FIN frames sent to the peer
          writer,    \* payload owed after the last header sent, or NoPayload
          peer,      \* what the peer has sent
          eof,       \* the application has read the end of the stream
          broken     \* the application has read BrokenPipe

vars == <<stream, accepted, granted, received, credited, fins, writer, peer,
          eof, broken>>

PeerState == [acked : BOOLEAN, finned : BOOLEAN, reset : BOOLEAN,
              late : BOOLEAN,                  \* its FIN or RST was on a data
                                               \* header, ahead of the payload
              pending : Nat \cup {NoPayload}]  \* what its last header announced
                                               \* and is still to come
NewPeer == [acked |-> FALSE, finned |-> FALSE, reset |-> FALSE, late |-> FALSE,
            pending |-> NoPayload]

Syn == WindowUpdate({"SYN"}, InitialWindow)

Init ==
    /\ \/ /\ stream = OpenStream
          /\ granted = 0
          /\ peer = NewPeer
       \/ /\ stream = OnInput(AcceptStream, Syn)
          /\ granted = InitialWindow
          /\ peer = [NewPeer EXCEPT !.acked = TRUE]
    /\ accepted = 0 /\ received = 0 /\ credited = 0 /\ fins = 0
    /\ writer = NoPayload
    /\ eof = FALSE /\ broken = FALSE

-----------------------------------------------------------------------------
\* The application.

Write ==
    \E n \in MinWrite..MaxWrite : \E buf \in [1..n -> Byte] :
        /\ WriteReady(stream)
        /\ accepted + n <= MaxAccepted
        /\ stream' = PollWrite(stream, buf)
        /\ accepted' = accepted + Len(Truncated(buf))
        /\ UNCHANGED <<granted, received, credited, fins, writer, peer, eof,
                       broken>>

Close ==
    /\ stream.txOpen
    /\ stream' = PollClose(stream)
    /\ UNCHANGED <<accepted, granted, received, credited, fins, writer, peer,
                   eof, broken>>

Drop ==
    /\ stream.rxOpen
    /\ stream' = DropHandle(stream)
    /\ UNCHANGED <<accepted, granted, received, credited, fins, writer, peer,
                   eof, broken>>

Read ==
    \E room \in 1..MaxRead :
        /\ stream.rxOpen
        /\ ReadsData(stream) \/ ReadsEof(stream) \/ ReadsBroken(stream)
        /\ stream' = PollRead(stream, room)
        /\ eof' = (eof \/ ReadsEof(stream))
        /\ broken' = (broken \/ ReadsBroken(stream))
        /\ UNCHANGED <<accepted, granted, received, credited, fins, writer,
                       peer>>

-----------------------------------------------------------------------------
\* The session polls the head.

RecordSent(item) ==
    /\ credited' = credited + CreditOf(item)
    /\ fins' = fins + IF "FIN" \in EventFlags(item) THEN 1 ELSE 0
    /\ writer' = CASE item.kind = "Data" -> item.size
                   [] item.kind = "DataChunk" -> NoPayload
                   [] item.kind = "WindowUpdate" -> writer

PollItem ==
    /\ stream.alive /\ PollsItem(stream)
    /\ stream' = Polled(stream)
    /\ RecordSent(PolledItem(stream))
    /\ UNCHANGED <<accepted, granted, received, peer, eof, broken>>

PollPending ==
    /\ stream.alive /\ ~PollsItem(stream) /\ ~PollsNone(stream)
    /\ stream' = Polled(stream)
    /\ UNCHANGED <<accepted, granted, received, credited, fins, writer, peer,
                   eof, broken>>

PollNone ==
    /\ stream.alive /\ PollsNone(stream)
    /\ stream' = RemoveHead(stream)
    /\ UNCHANGED <<accepted, granted, received, credited, fins, writer, peer,
                   eof, broken>>

-----------------------------------------------------------------------------
\* The peer, as the session hands its frames to the head.  It acknowledges
\* first, stays within the credit it has, sends no data after FIN and nothing
\* after RST.

MaySend(flags) ==
    /\ stream.alive /\ peer.pending = NoPayload /\ ~peer.reset
    /\ peer.acked = ("ACK" \notin flags)

Noted(flags) ==
    [peer EXCEPT !.acked = @ \/ "ACK" \in flags,
                 !.finned = @ \/ "FIN" \in flags,
                 !.reset = @ \/ "RST" \in flags]

Announced(flags, size) ==
    [Noted(flags) EXCEPT !.pending = size,
                         !.late = @ \/ flags \cap {"FIN", "RST"} # {}]

PeerHeader ==
    \E flags \in PeerDataFlags, size \in MinPayload..MaxReceived :
        /\ MaySend(flags) /\ ~peer.finned
        /\ received + size <= MaxReceived
        /\ received + size <= InitialWindow + credited
        /\ stream' = OnInput(stream, Data(flags, size))
        /\ received' = received + size
        /\ peer' = Announced(flags, size)
        /\ UNCHANGED <<accepted, granted, credited, fins, writer, eof, broken>>

\* A piece of the payload announced; of an empty payload, one empty piece.
PeerPayload ==
    \E n \in 0..MaxReceived : \E chunk \in [1..n -> Byte] :
        /\ stream.alive /\ peer.pending # NoPayload
        /\ n <= peer.pending /\ (n = 0 => peer.pending = 0)
        /\ stream' = OnInput(stream, DataChunk(chunk))
        /\ peer' = [peer EXCEPT !.pending = IF @ = n THEN NoPayload ELSE @ - n]
        /\ UNCHANGED <<accepted, granted, received, credited, fins, writer,
                       eof, broken>>

PeerUpdate ==
    \E flags \in {{}, {"ACK"}}, delta \in PeerDeltas :
        /\ MaySend(flags)
        /\ granted + delta <= MaxGranted
        /\ stream' = OnInput(stream, WindowUpdate(flags, delta))
        /\ granted' = granted + delta
        /\ peer' = Noted(flags)
        /\ UNCHANGED <<accepted, received, credited, fins, writer, eof, broken>>

PeerFin ==
    /\ MaySend({"FIN"}) /\ ~peer.finned
    /\ stream' = OnInput(stream, WindowUpdate({"FIN"}, 0))
    /\ peer' = Noted({"FIN"})
    /\ UNCHANGED <<accepted, granted, received, credited, fins, writer, eof,
                   broken>>

PeerReset ==
    /\ stream.alive /\ peer.pending = NoPayload /\ ~peer.reset
    /\ stream' = OnInput(stream, WindowUpdate({"RST"}, 0))
    /\ peer' = Noted({"RST"})
    /\ UNCHANGED <<accepted, granted, received, credited, fins, writer, eof,
                   broken>>

Next == \/ Write \/ Close \/ Drop \/ Read
        \/ PollItem \/ PollPending \/ PollNone
        \/ PeerHeader \/ PeerPayload \/ PeerUpdate \/ PeerFin \/ PeerReset

Spec == Init /\ [][Next]_vars

-----------------------------------------------------------------------------
(* Properties *)

\* The endpoint's state has its shape, and the bounded channel its bound.
TypeOK ==
    /\ stream \in HeadState
    /\ Len(stream.outbox) <= ChannelSlots
    /\ accepted \in Nat /\ granted \in Nat /\ received \in Nat
    /\ credited \in Nat /\ fins \in Nat
    /\ writer \in Nat \cup {NoPayload}
    /\ peer \in PeerState
    /\ eof \in BOOLEAN /\ broken \in BOOLEAN

\* Bytes of a handle's outbox, which holds two chunks at most.
ChunkLen(outbox, i) == IF i <= Len(outbox) THEN Len(outbox[i]) ELSE 0
OutboxBytes(outbox) == ChunkLen(outbox, 1) + ChunkLen(outbox, 2)

\* The send window is exact: every byte poll_write accepted is either still in
\* the channel or charged to the window once, and every credit is added once.
\* So saturating_sub never saturates, and the head never overruns its credit.
SendWindowExact ==
    stream.alive =>
        stream.send + accepted = InitialWindow + granted
                                      + OutboxBytes(stream.outbox)

\* Credit is returned exactly: each payload byte the head has taken is either
\* counted in window.recv or in one window update, queued or sent, on top of
\* the opening one; and window.recv stays low enough that the peer always holds
\* credit for at least a full chunk.
CreditExact ==
    LET pending == IF peer.pending = NoPayload THEN 0 ELSE peer.pending
    IN  stream.alive =>
          /\ stream.recv + Credit(stream.outs) + credited
               = InitialWindow + received - pending
          /\ stream.recv + ChunkCapacity < UpdateThreshold

\* recv_state follows FrameReader's own count, so on_input never rejects a
\* frame of a conforming peer.
PayloadInStep == stream.alive => stream.recvState = peer.pending

\* Each data header is directly followed by a chunk of the size it announces,
\* whatever window updates and FINs were queued in between: FrameWriter::write
\* would accept the head's output, which the transport does not check.
DataFramed == Framed(stream.outs, writer)

\* One FIN is sent for the local half, however it ends (close, drop, or a reset
\* by the peer, in any order), and none before.  n is the number of FINs before
\* outs.
OneFin(local, outs, n) ==
    LET queued == {i \in 1..Len(outs) : HasFin(outs[i])}
    IN  IF local THEN n = 0 /\ queued = {}
        ELSE \/ n = 1 /\ queued = {}
             \/ n = 0 /\ \E i \in 1..Len(outs) : queued = {i}
FinOnce == OneFin(stream.local, stream.outs, fins)

\* No data follows the FIN (SPEC.md: "the sender will send no further data").
FinLast(outs, n) ==
    \A j \in 1..Len(outs) :
        n = 1 \/ (\E i \in 1..j - 1 : HasFin(outs[i])) =>
            outs[j].kind = "WindowUpdate"
NoDataAfterFin == FinLast(stream.outs, fins)

\* The end of stream marker is the last thing the application can ever read:
\* nothing is queued behind it, and nothing arrives once it has been read.
EofLast ==
    /\ \A i \in 1..Len(stream.inbox) :
          stream.inbox[i] = <<>> => i = Len(stream.inbox)
    /\ eof => stream.inbox = <<>> /\ stream.reading = <<>>

\* So it is for every peer that ends the stream with a window update; only the
\* payload of a data header that carried the end itself may come behind it.
EofLastUnlessLate == peer.late \/ EofLast

\* The end of the stream that the application reads, or finds queued, is the
\* peer's: it has sent FIN or RST, and no other event passes for one.
EofFromPeer ==
    eof \/ (\E i \in 1..Len(stream.inbox) : stream.inbox[i] = <<>>) =>
        peer.finned \/ peer.reset

\* A reader of an acknowledged stream sees the end of the stream before any
\* BrokenPipe, although the head may be gone by the time it reads.
EofBeforeBroken == broken /\ peer.acked => eof
===============================================================================
