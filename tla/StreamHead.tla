------------------------------ MODULE StreamHead ------------------------------
(***************************************************************************)
(* The two halves of a logical stream, YamuxStreamHead (in the session)    *)
(* and YamuxStream (in the application), as one record and pure operators  *)
(* on it, one per function of stream.rs.  A specification holds such a     *)
(* record per stream and decides when each operator runs.                  *)
(*                                                                         *)
(* Both mpsc channels are part of the record: outbox is the bounded one    *)
(* from the handle to the head (tx/rx), inbox the unbounded one back       *)
(* (tx2/rx2).  An empty chunk in a channel is the close hint or the end of *)
(* stream marker, as in the code.                                          *)
(*                                                                         *)
(* An operator called Mutant... is a deliberately wrong variant of the     *)
(* operator after it: the runs must notice the difference.                 *)
(***************************************************************************)
EXTENDS YamuxFrame

CONSTANTS ChunkCapacity,  \* DEFAULT_CHUNK_CAPACITY
          InitialWindow,  \* INITIAL_WINDOW
          NoPayload       \* recv_state: None

UpdateThreshold == InitialWindow \div 2

ASSUME ChunkAssumption == ChunkCapacity \in Nat \ {0}
ASSUME WindowAssumption == InitialWindow \in Nat
ASSUME ThresholdAssumption == ChunkCapacity < UpdateThreshold
ASSUME NoPayloadAssumption == NoPayload \notin Nat

\* futures' channel(1): the buffer and one slot more for its one sender.
ChannelSlots == 2

HeadState ==
    [local : BOOLEAN, remote : BOOLEAN,      \* State
     send : Nat, recv : Nat,                 \* Window
     outs : Seq(StreamEvent),
     recvState : Nat \cup {NoPayload},
     tx : BOOLEAN,                           \* the head still has its sender
     alive : BOOLEAN,                        \* the head is in the session's map
     outbox : Seq(Chunk), txOpen : BOOLEAN,  \* handle to head, its sender
     inbox : Seq(Chunk), rxOpen : BOOLEAN,   \* head to handle, its receiver
     reading : Chunk]                        \* recv_chunk, from its offset on

NewHead(remote, opening) ==
    [local |-> TRUE, remote |-> remote, send |-> InitialWindow, recv |-> 0,
     outs |-> <<WindowUpdate({opening}, InitialWindow)>>,
     recvState |-> NoPayload, tx |-> TRUE, alive |-> TRUE,
     outbox |-> <<>>, txOpen |-> TRUE,
     inbox |-> <<>>, rxOpen |-> TRUE, reading |-> <<>>]

OpenStream == NewHead(FALSE, "SYN")
AcceptStream == NewHead(TRUE, "ACK")

IsClosed(s) == ~s.local /\ ~s.remote

-----------------------------------------------------------------------------
\* The head: what an incoming frame does.

\* try_close_local
MutantCloseLocalAgain(s) ==
    [s EXCEPT !.local = FALSE, !.outs = Append(@, WindowUpdate({"FIN"}, 0))]
TryCloseLocal(s) ==
    IF s.local
    THEN [s EXCEPT !.local = FALSE,
                   !.outs = Append(@, WindowUpdate({"FIN"}, 0))]
    ELSE s

\* unbounded_send to the handle; a failure, the handle being gone, clears tx.
MutantTrySend(s, chunk) ==
    IF s.tx /\ s.rxOpen /\ s.inbox = <<>> THEN [s EXCEPT !.inbox = <<chunk>>]
    ELSE s
ToUser(s, chunk) ==
    CASE ~s.tx -> s
      [] s.tx /\ s.rxOpen -> [s EXCEPT !.inbox = Append(@, chunk)]
      [] s.tx /\ ~s.rxOpen -> [s EXCEPT !.tx = FALSE]

\* try_close_remote: the end of stream marker is an empty chunk.
MutantCloseRemoteAgain(s) == ToUser([s EXCEPT !.remote = FALSE], <<>>)
MutantCloseRemoteSilent(s) == [s EXCEPT !.remote = FALSE]
MutantCloseRemoteIfHeard(s) ==
    IF s.remote /\ s.tx THEN ToUser([s EXCEPT !.remote = FALSE], <<>>) ELSE s
TryCloseRemote(s) ==
    IF s.remote THEN ToUser([s EXCEPT !.remote = FALSE], <<>>) ELSE s

\* handle_flag
MutantResetHalf(s, flags) ==
    LET acked == IF "ACK" \in flags THEN [s EXCEPT !.remote = TRUE] ELSE s
        reset == IF "RST" \in flags THEN TryCloseLocal(acked) ELSE acked
    IN  IF "FIN" \in flags THEN TryCloseRemote(reset) ELSE reset
HandleFlag(s, flags) ==
    LET acked == IF "ACK" \in flags THEN [s EXCEPT !.remote = TRUE] ELSE s
        reset == IF "RST" \in flags THEN TryCloseRemote(TryCloseLocal(acked))
                                    ELSE acked
    IN  IF "FIN" \in flags THEN TryCloseRemote(reset) ELSE reset

\* mark_received_bytes: credit is returned as the bytes arrive, whether or not
\* the application has read them.
MutantUrgentUpdate(s, received) ==
    LET recv == s.recv + received
    IN  IF recv + ChunkCapacity >= UpdateThreshold
        THEN [s EXCEPT !.recv = 0, !.outs = <<WindowUpdate({}, recv)>> \o @]
        ELSE [s EXCEPT !.recv = recv]
MutantNoReset(s, received) ==
    LET recv == s.recv + received
    IN  IF recv + ChunkCapacity >= UpdateThreshold
        THEN [s EXCEPT !.recv = recv,
                       !.outs = Append(@, WindowUpdate({}, recv))]
        ELSE [s EXCEPT !.recv = recv]
MutantForgetUpdate(s, received) ==
    LET recv == s.recv + received
    IN  [s EXCEPT !.recv = IF recv + ChunkCapacity >= UpdateThreshold THEN 0
                                                                      ELSE recv]
MarkReceivedBytes(s, received) ==
    LET recv == s.recv + received
    IN  IF recv + ChunkCapacity >= UpdateThreshold
        THEN [s EXCEPT !.recv = 0, !.outs = Append(@, WindowUpdate({}, recv))]
        ELSE [s EXCEPT !.recv = recv]

\* The two errors of on_input, which leave the head as it is.
InputError(s, event) ==
    \/ event.kind = "Data" /\ s.recvState # NoPayload
    \/ /\ event.kind = "DataChunk"
       /\ s.recvState = NoPayload \/ s.recvState < Len(event.chunk)

OnData(s, event) ==
    [HandleFlag(s, event.flags) EXCEPT !.recvState = event.size]

MutantKeepPayload(s, event) ==
    LET remain == s.recvState - Len(event.chunk)
        delivered == ToUser(s, event.chunk)
    IN  MarkReceivedBytes([delivered EXCEPT !.recvState = remain],
                          Len(event.chunk))
OnDataChunk(s, event) ==
    LET remain == s.recvState - Len(event.chunk)
        delivered == ToUser(s, event.chunk)
    IN  MarkReceivedBytes(
            [delivered EXCEPT !.recvState =
                                 IF remain = 0 THEN NoPayload ELSE remain],
            Len(event.chunk))

OnWindowUpdate(s, event) ==
    LET flagged == HandleFlag(s, event.flags)
    IN  [flagged EXCEPT !.send = @ + event.delta]

\* on_input
OnInput(s, event) ==
    CASE InputError(s, event) -> s
      [] ~InputError(s, event) /\ event.kind = "Data" -> OnData(s, event)
      [] ~InputError(s, event) /\ event.kind = "DataChunk" ->
             OnDataChunk(s, event)
      [] event.kind = "WindowUpdate" -> OnWindowUpdate(s, event)

-----------------------------------------------------------------------------
\* The head: poll_next.

\* saturating_sub
Subtract(a, b) == IF b <= a THEN a - b ELSE 0

\* One turn of the loop that takes chunks from the handle.  The channel is
\* Ready when it holds a chunk or its sender is gone (None).
SendData(s, chunk) ==
    [s EXCEPT !.send = Subtract(@, Len(chunk)),
              !.outs = @ \o <<Data({}, Len(chunk)), DataChunk(chunk)>>]

MutantNoWindowCheck(s) ==
    CASE s.outbox = <<>> /\ s.txOpen -> s
      [] s.outbox = <<>> /\ ~s.txOpen -> TryCloseLocal(s)
      [] s.outbox # <<>> ->
             LET rest == [s EXCEPT !.outbox = Tail(@)]
             IN  IF Head(s.outbox) = <<>> THEN TryCloseLocal(rest)
                                          ELSE SendData(rest, Head(s.outbox))
MutantCloseFirst(s) ==
    CASE s.send < ChunkCapacity -> s
      [] s.send >= ChunkCapacity /\ ~s.txOpen -> TryCloseLocal(s)
      [] s.send >= ChunkCapacity /\ s.txOpen /\ s.outbox = <<>> -> s
      [] s.send >= ChunkCapacity /\ s.txOpen /\ s.outbox # <<>> ->
             SendData([s EXCEPT !.outbox = Tail(@)], Head(s.outbox))
TakeChunk(s) ==
    CASE s.send < ChunkCapacity -> s
      [] s.send >= ChunkCapacity /\ s.outbox = <<>> /\ s.txOpen -> s
      [] s.send >= ChunkCapacity /\ s.outbox = <<>> /\ ~s.txOpen ->
             TryCloseLocal(s)
      [] s.send >= ChunkCapacity /\ s.outbox # <<>> ->
             LET rest == [s EXCEPT !.outbox = Tail(@)]
             IN  IF Head(s.outbox) = <<>> THEN TryCloseLocal(rest)
                                          ELSE SendData(rest, Head(s.outbox))

\* The whole loop: the channel holds at most ChannelSlots chunks, and a third
\* turn sees the None after them.  A chunk written while the loop runs is taken
\* by the next poll, which the session makes until it finds the head Pending.
Fill(s) == TakeChunk(TakeChunk(TakeChunk(s)))

\* poll_next.  Its result is Ready(Some(Head(outs))), Ready(None) or Pending.
PollsNone(s) == s.outs = <<>> /\ IsClosed(s)
Filled(s) == IF s.outs = <<>> /\ ~IsClosed(s) THEN Fill(s) ELSE s
PollsItem(s) == Filled(s).outs # <<>>
PolledItem(s) == Head(Filled(s).outs)
Polled(s) ==
    LET filled == Filled(s)
    IN  IF filled.outs = <<>> THEN filled ELSE [filled EXCEPT !.outs = Tail(@)]

\* The session drops the head, after Ready(None) or with itself: the channels
\* close, and what waits in outs or in outbox is lost.  What waits in inbox
\* belongs to the handle.
MutantRemoveWithMark(s) ==
    [s EXCEPT !.alive = FALSE, !.outs = <<>>, !.outbox = <<>>,
              !.inbox = IF s.rxOpen THEN Append(@, <<>>) ELSE @]
RemoveHead(s) == [s EXCEPT !.alive = FALSE, !.outs = <<>>, !.outbox = <<>>]

-----------------------------------------------------------------------------
\* The handle: AsyncRead, AsyncWrite and Drop of YamuxStream.

\* poll_write: Pending while the channel is full, an error once either end of it
\* is gone.
Truncated(buf) ==
    IF Len(buf) <= ChunkCapacity THEN buf ELSE SubSeq(buf, 1, ChunkCapacity)
MutantWriteReady(s) == s.txOpen /\ s.alive
WriteReady(s) == s.txOpen /\ s.alive /\ Len(s.outbox) < ChannelSlots
WriteFails(s) == ~s.txOpen \/ ~s.alive
PollWrite(s, buf) == [s EXCEPT !.outbox = Append(@, Truncated(buf))]

\* poll_close
PollClose(s) == [s EXCEPT !.txOpen = FALSE]

\* Drop: both channel ends of the handle go.
DropHandle(s) ==
    [s EXCEPT !.txOpen = FALSE, !.rxOpen = FALSE,
              !.inbox = <<>>, !.reading = <<>>]

\* poll_read: the handle holds one chunk at a time and serves it in parts.
\* Ready with data, Ready(Ok(0)), Ready(Err(BrokenPipe)), or Pending.
Loaded(s) ==
    IF s.reading # <<>> \/ s.inbox = <<>> THEN s
    ELSE [s EXCEPT !.reading = Head(s.inbox), !.inbox = Tail(@)]
ReadsData(s) == Loaded(s).reading # <<>>
ReadsEof(s) == Loaded(s).reading = <<>> /\ s.inbox # <<>>
ReadsBroken(s) == s.reading = <<>> /\ s.inbox = <<>> /\ ~(s.alive /\ s.tx)
ReadLen(s, room) ==
    IF Len(Loaded(s).reading) <= room THEN Len(Loaded(s).reading) ELSE room
ReadBytes(s, room) == SubSeq(Loaded(s).reading, 1, ReadLen(s, room))
PollRead(s, room) ==
    LET loaded == Loaded(s)
    IN  [loaded EXCEPT !.reading = SubSeq(@, ReadLen(s, room) + 1, Len(@))]

-----------------------------------------------------------------------------
(* What the properties of the modules built on this one say of a queue. *)

\* Every data header is followed by its whole payload, and no payload comes
\* without one.  left is the payload that the frames before outs still owe, or
\* NoPayload.
Framed(outs, left) ==
    /\ \A i \in 1..Len(outs) :
          /\ outs[i].kind = "Data" =>
                /\ i < Len(outs) /\ outs[i + 1].kind = "DataChunk"
                /\ Len(outs[i + 1].chunk) = outs[i].size
          /\ outs[i].kind = "DataChunk" =>
                IF i = 1 THEN left # NoPayload ELSE outs[i - 1].kind = "Data"
    /\ left # NoPayload =>
          /\ outs # <<>> /\ outs[1].kind = "DataChunk"
          /\ Len(outs[1].chunk) = left

HasFin(event) == "FIN" \in EventFlags(event)
===============================================================================
