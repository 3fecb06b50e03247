------------------------------ MODULE StreamPair ------------------------------
(***************************************************************************)
(* A logical stream between two sessions of this crate: the head and the   *)
(* handle of each end, the routing each session does for the frames of the *)
(* stream (creation on SYN, on_input, frames of an unknown stream, removal *)
(* of a closed head), and one FIFO per direction for everything between    *)
(* the heads: the sender's out_queue and transport, which may hold on to   *)
(* what they have, the connection, and the receiver's FrameReader, which   *)
(* may yield a payload in several parts.                                   *)
(*                                                                         *)
(* Byte number i of a direction has the value i, so what an application    *)
(* writes is determined by its length.                                     *)
(***************************************************************************)
EXTENDS StreamHead, FiniteSets, SequencesExt

CONSTANTS MaxWrite, MaxRead,  \* sizes of the application's buffers
          MaxWritten,         \* bound: bytes each end writes
          MaxWire,            \* bound: frames of one direction on their way
          MayEnd,             \* sides whose session may end in the middle (its
                              \* transport closes, GoAway arrives, it is dropped)
          MayDrop,            \* sides whose application may drop its handle
          MayHold,            \* sides whose socket may be full
          EarlyClose          \* the opener may close before it hears of the peer

ASSUME PairAssumption ==
    /\ MaxWrite \in Nat /\ MaxRead \in Nat /\ MaxWire \in Nat
    /\ MaxWritten \in [{"opener", "acceptor"} -> Nat]
    /\ \A x \in {"opener", "acceptor"} : 1..MaxWritten[x] \subseteq Byte
    /\ MayEnd \cup MayDrop \cup MayHold \subseteq {"opener", "acceptor"}
    /\ EarlyClose \in BOOLEAN

Side == {"opener", "acceptor"}
Peer(x) == IF x = "opener" THEN "acceptor" ELSE "opener"

VARIABLES end,      \* end[x]: the StreamHead record at x
          wire,     \* wire[x]: frames from x to its peer, in order
          flushed,  \* flushed[x]: how many of them x's transport has let go
          up,       \* up[x]: x's session is running
          accepts,  \* streams the acceptor's session has yielded
          written,  \* written[x]: bytes poll_write took at x
          read,     \* read[x]: bytes poll_read returned at x
          eof,      \* poll_read returned Ok(0) at x
          broken    \* poll_read returned BrokenPipe at x

vars == <<end, wire, flushed, up, accepts, written, read, eof, broken>>

\* No head in the map and no handle with the application.
NoStream == RemoveHead(DropHandle(AcceptStream))

Init ==
    /\ end = [x \in Side |-> IF x = "opener" THEN OpenStream ELSE NoStream]
    /\ wire = [x \in Side |-> <<>>]
    /\ flushed = [x \in Side |-> 0]
    /\ up = [x \in Side |-> TRUE]
    /\ accepts = 0
    /\ written = [x \in Side |-> 0]
    /\ read = [x \in Side |-> <<>>]
    /\ eof = [x \in Side |-> FALSE]
    /\ broken = [x \in Side |-> FALSE]

-----------------------------------------------------------------------------
\* The sessions.

\* The stream arms of YamuxSession::poll_next.
MutantAcceptsAny(s, event) == ~s.alive
Accepts(s, event) == ~s.alive /\ "SYN" \in EventFlags(event)

MutantSynUnread(s, event) ==
    CASE s.alive -> OnInput(s, event)
      [] Accepts(s, event) -> AcceptStream
      [] ~s.alive /\ ~Accepts(s, event) -> s
Route(s, event) ==
    CASE s.alive -> OnInput(s, event)
      [] Accepts(s, event) -> OnInput(AcceptStream, event)
      [] ~s.alive /\ ~Accepts(s, event) -> s

\* FrameReader::next_frame: what is next on the wire, whole or, of a payload,
\* as much as has arrived.
Arrivals(frames) ==
    LET first == Head(frames)
        part(n) == [event |-> DataChunk(SubSeq(first.chunk, 1, n)),
                    rest |-> <<DataChunk(SubSeq(first.chunk, n + 1,
                                                Len(first.chunk)))>>]
        whole == [event |-> first, rest |-> <<>>]
    IN  IF first.kind = "DataChunk"
        THEN {whole} \cup {part(n) : n \in 1..Len(first.chunk) - 1}
        ELSE {whole}

\* poll_write: one more frame has left x's transport.  Nothing makes it: a
\* session does not retry a flush that was Pending.
Flush(x) ==
    /\ up[x] /\ flushed[x] < Len(wire[x])
    /\ flushed' = [flushed EXCEPT ![x] = @ + 1]
    /\ UNCHANGED <<end, wire, up, accepts, written, read, eof, broken>>

\* x reads a frame, or a part of one whose rest the transport may still hold.
Receive(x) ==
    /\ up[x] /\ wire[Peer(x)] # <<>>
    /\ \E next \in Arrivals(wire[Peer(x)]) :
          /\ next.rest # <<>> \/ flushed[Peer(x)] > 0
          /\ end' = [end EXCEPT ![x] = Route(@, next.event)]
          /\ wire' = [wire EXCEPT ![Peer(x)] = next.rest \o Tail(@)]
          /\ flushed' = [flushed EXCEPT ![Peer(x)] =
                             IF next.rest = <<>> THEN @ - 1 ELSE @]
          /\ accepts' = accepts + IF Accepts(end[x], next.event) THEN 1 ELSE 0
    /\ UNCHANGED <<up, written, read, eof, broken>>

\* One poll of the head by the session; a Pending one changes nothing here, as
\* no empty chunk is ever written.  The same poll_next flushes the frame, if the
\* socket has room.
PollItem(x) ==
    /\ up[x] /\ end[x].alive /\ PollsItem(end[x]) /\ Len(wire[x]) < MaxWire
    /\ end' = [end EXCEPT ![x] = Polled(@)]
    /\ wire' = [wire EXCEPT ![x] = Append(@, PolledItem(end[x]))]
    /\ flushed' = [flushed EXCEPT ![x] = IF x \in MayHold THEN @ ELSE @ + 1]
    /\ UNCHANGED <<up, accepts, written, read, eof, broken>>

PollNone(x) ==
    /\ up[x] /\ end[x].alive /\ PollsNone(end[x])
    /\ end' = [end EXCEPT ![x] = RemoveHead(@)]
    /\ UNCHANGED <<wire, flushed, up, accepts, written, read, eof, broken>>

\* The session ends: its heads go, what it sent may still arrive.
EndSession(x) ==
    /\ x \in MayEnd /\ up[x]
    /\ up' = [up EXCEPT ![x] = FALSE]
    /\ end' = [end EXCEPT ![x] = RemoveHead(@)]
    /\ UNCHANGED <<wire, flushed, accepts, written, read, eof, broken>>

-----------------------------------------------------------------------------
\* The applications.

Write(x) ==
    \E n \in 1..MaxWrite :
        LET buf == [i \in 1..n |-> written[x] + i]
        IN  /\ WriteReady(end[x])
            /\ written[x] + n <= MaxWritten[x]
            /\ end' = [end EXCEPT ![x] = PollWrite(@, buf)]
            /\ written' = [written EXCEPT ![x] = @ + Len(Truncated(buf))]
            /\ UNCHANGED <<wire, flushed, up, accepts, read, eof, broken>>

\* An application that is careful not to close early has read something first.
MayClose(x) == EarlyClose \/ x = "acceptor" \/ read[x] # <<>> \/ eof[x]

Close(x) ==
    /\ end[x].txOpen /\ MayClose(x)
    /\ end' = [end EXCEPT ![x] = PollClose(@)]
    /\ UNCHANGED <<wire, flushed, up, accepts, written, read, eof, broken>>

Drop(x) ==
    /\ x \in MayDrop /\ end[x].rxOpen /\ MayClose(x)
    /\ end' = [end EXCEPT ![x] = DropHandle(@)]
    /\ UNCHANGED <<wire, flushed, up, accepts, written, read, eof, broken>>

Read(x) ==
    \E room \in 1..MaxRead :
        /\ end[x].rxOpen
        /\ ReadsData(end[x]) \/ ReadsEof(end[x]) \/ ReadsBroken(end[x])
        /\ end' = [end EXCEPT ![x] = PollRead(@, room)]
        /\ read' = [read EXCEPT ![x] = @ \o ReadBytes(end[x], room)]
        /\ eof' = [eof EXCEPT ![x] = @ \/ ReadsEof(end[x])]
        /\ broken' = [broken EXCEPT ![x] = @ \/ ReadsBroken(end[x])]
        /\ UNCHANGED <<wire, flushed, up, accepts, written>>

Next ==
    \E x \in Side :
        \/ Flush(x) \/ Receive(x) \/ PollItem(x) \/ PollNone(x)
        \/ EndSession(x)
        \/ Write(x) \/ Close(x) \/ Drop(x) \/ Read(x)

Spec == Init /\ [][Next]_vars

\* The executors are not idle for ever while a session has something to do, with
\* its heads or with a frame that its peer's transport has let go, or a reader
\* something to read.
SessionStep(x) ==
    \/ Receive(x) /\ flushed[Peer(x)] > 0
    \/ PollItem(x) \/ PollNone(x)
Fairness == WF_vars(\E x \in Side : SessionStep(x) \/ Read(x))

FairSpec == Spec /\ Fairness

-----------------------------------------------------------------------------
(* Properties *)

\* The pair's state has its shape.
TypeOK ==
    /\ end \in [Side -> HeadState]
    /\ \A x \in Side : Len(end[x].outbox) <= ChannelSlots
    /\ wire \in [Side -> Seq(StreamEvent)]
    /\ flushed \in [Side -> Nat]
    /\ \A x \in Side : flushed[x] <= Len(wire[x])
    /\ up \in [Side -> BOOLEAN] /\ accepts \in Nat
    /\ written \in [Side -> Nat] /\ read \in [Side -> Seq(Byte)]
    /\ eof \in [Side -> BOOLEAN] /\ broken \in [Side -> BOOLEAN]

\* What the two applications see is the promise of ByteStream, in particular
\* that bytes come in order and once, and that an end of stream is never read
\* before the last byte written.
Exists(x) == x = "opener" \/ accepts > 0
Promise == INSTANCE ByteStream WITH
    written <- [x \in Side |-> [i \in 1..written[x] |-> i]],
    shut <- [x \in Side |-> Exists(x) /\ ~end[x].txOpen],
    ended <- eof

ImplementsByteStream == Promise!Spec

\* The window of a direction is conserved: what x may send, the payload on its
\* way, the bytes y has not yet returned and the credit on its way back are
\* together the initial window and the opening credit, always.  None is lost or
\* granted twice, so a writer is never stalled for good and never overruns.
WindowConserved ==
    \A x \in Side :
        LET y == Peer(x)
        IN  end[x].alive /\ end[y].alive =>
              end[x].send
              + Payload(end[x].outs) + Payload(wire[x])
              + end[y].recv + Credit(end[y].outs) + Credit(wire[y])
                = 2 * InitialWindow

\* One opened stream is yielded to the acceptor once: frames that arrive after
\* its head was removed do not bring it back.
AcceptOnce == accepts <= 1

\* A reader gets BrokenPipe only after the end of the stream, unless a session
\* ended (SPEC.md: a stream is closed once both sides have closed it).
Cut == \E x \in Side : ~up[x]
BrokenOnlyAfterEof ==
    \A x \in Side : broken[x] => eof[x] \/ Cut

\* What is buffered for a reader stays within its receive window (IMPLEMENT.md:
\* window updates are emitted as inbound data is consumed).
InboxWithinWindow ==
    \A x \in Side :
        FoldLeft(LAMBDA sum, chunk : sum + Len(chunk), 0, end[x].inbox)
            <= 2 * InitialWindow

\* Nothing is left for either session to do, or for either reader to read.
Idle(x) ==
    /\ wire[x] = <<>>
    /\ up[x] /\ end[x].alive =>
          /\ ~PollsNone(end[x]) /\ ~PollsItem(end[x])
    /\ end[x].rxOpen =>
          ~ReadsData(end[x]) /\ ~ReadsEof(end[x])
Quiet == \A x \in Side : Idle(x)

\* x has stopped reading, with an error or by dropping its handle.
Gone(x) == broken[x] \/ (Exists(x) /\ ~end[x].rxOpen)

\* Flow control never stalls: when all is quiet, a reader has all that was
\* written, however far beyond the window that is and although credit comes
\* back in batches.
NoStall ==
    Quiet => \A x \in Side : Len(read[Peer(x)]) = written[x] \/ Gone(Peer(x))

\* No stream is left behind: when all is quiet and both applications have
\* closed or dropped their handles, neither session has a head.
NoLeftover ==
    Quiet /\ (\A x \in Side : Exists(x) /\ ~end[x].txOpen) =>
        \A x \in Side : ~end[x].alive

\* A transport holds on to what it was given, which nothing but its session's
\* next frame makes it let go.
Held == \E x \in Side : flushed[x] < Len(wire[x])

\* Whatever is written is eventually read, also far beyond the window, unless
\* the reader has gone, a session ended or a transport holds frames back: with
\* writers that stop at MaxWritten, the readers catch up with them.
EventuallyRead ==
    []<>(\/ \A x \in Side : Len(read[Peer(x)]) = written[x] \/ Gone(Peer(x))
         \/ Cut \/ Held)

\* Once both applications have closed or dropped their handles, both heads are
\* removed: no stream stays in a session's map for ever.
EventuallyRemoved ==
    (\A x \in Side : Exists(x) /\ ~end[x].txOpen) ~>
        (\A x \in Side : ~end[x].alive) \/ Cut \/ Held
===============================================================================
