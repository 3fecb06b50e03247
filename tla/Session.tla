-------------------------------- MODULE Session --------------------------------
(***************************************************************************)
(* YamuxSession::poll_next, step by step, with its streams' heads, its     *)
(* out_queue, the transport's writer buffer and a socket that takes only   *)
(* so much.  The application's handles and the peer act between any two    *)
(* steps, and the executor polls the session again only when a waker the   *)
(* last poll registered has fired, or its owner has called it.  The peer   *)
(* may end the connection, or lose it, or close its own session, which     *)
(* then reads no more.                                                     *)
(*                                                                         *)
(* One frame counts as one unit of the writer buffer and of the socket.    *)
(***************************************************************************)
EXTENDS StreamHead, SequencesExt

CONSTANTS StreamIds,       \* identifiers in use
          FirstId,         \* 1 for a client, 2 for a server
          IdSpace,         \* 2^32: identifiers wrap around there
          MaxWriteBuffer,  \* max_write_buffer
          SocketRoom,      \* frames the socket holds
          Script,          \* Script[i]: what the peer sends for stream i, and
                           \* as a session for i = 0, each in order
          Arriving,        \* bound: frames arrived and not yet read
          Writes,          \* bound: Writes[i] bytes are written to the handle of i
          Closed,          \* bound: streams whose handle may be closed
          MaxCloses,       \* bound: calls of close by the owner
          PeerMayClose,    \* the peer's owner may call close
          LinkEnds,        \* how the connection may end: "eof", "down"
          Spurious         \* the executor may also poll for no reason

\* The frames of the reserved stream 0 and those of the streams.
SessionEvent == [kind : {"Ping", "GoAway"}, flags : SUBSET Flag, code : Nat]
FrameOf(ids, events) == [stream : ids, event : events]
AnyFrame == FrameOf({0}, SessionEvent) \cup FrameOf(StreamIds, StreamEvent)

ASSUME SessionAssumption ==
    /\ StreamIds \subseteq Nat \ {0} /\ FirstId \in {1, 2}
    /\ IdSpace \in Nat /\ IdSpace % 2 = 0 /\ IdSpace > 3
    /\ MaxWriteBuffer \in Nat \ {0} /\ SocketRoom \in Nat \ {0}
    /\ MaxCloses \in Nat /\ PeerMayClose \in BOOLEAN
    /\ LinkEnds \subseteq {"eof", "down"} /\ Spurious \in BOOLEAN
    /\ Writes \in [StreamIds -> Nat]

\* FrameReader yields nothing else.
ASSUME ScriptAssumption ==
    /\ Script \in [{0} \cup StreamIds -> Seq(AnyFrame)]
    /\ \A i \in {0} \cup StreamIds : \A frame \in ToSet(Script[i]) :
          frame.stream = i

VARIABLES pc,            \* where poll_next is
          streams,       \* streams[i]: head and handle of stream i
          nextStreamId,
          outQueue,      \* out_queue
          manualClose,   \* manual_close
          sent,          \* the local of poll_next
          unpolled,      \* heads the loop over streams has not reached
          polling,       \* the head the loop is at
          buffer,        \* the transport's writer buffer
          socket,        \* frames the socket holds
          link,          \* the connection: "up", "eof" once the peer has ended
                         \* its half, "down" once reads and writes fail
          closing,       \* the stream's own poll_close has been Pending
          incoming,      \* frames from the peer
          script,        \* what the peer has still to send
          peerClosing,   \* the peer has called close()
          closes,        \* how often the owner has called close()
          written,       \* written[i]: bytes written to i's handle
          waiting,       \* wakers that the polls so far have registered
          woken,         \* the executor will poll
          owed,          \* payload owed to the frames handed to start_send
          farewell       \* the first GoAway: "no", "queued", "buffered" or
                         \* "out"

session == <<streams, nextStreamId, outQueue, manualClose>>
local == <<sent, unpolled, polling>>
transport == <<buffer, socket, owed, farewell>>
world == <<link, closing, incoming, script, peerClosing, closes, written>>
vars == <<pc, session, local, transport, world, waiting, woken>>

ReadWaker == <<"read", 0>>    \* with the socket
WriteWaker == <<"write", 0>>   \* for poll_write and poll_close
HeadWaker(i) == <<"head", i>>  \* with the channel from i's handle
Waker == {ReadWaker, WriteWaker} \cup {HeadWaker(i) : i \in StreamIds}

NoStream == RemoveHead(DropHandle(AcceptStream))

Init ==
    /\ pc = "idle" /\ woken = TRUE /\ waiting = {}
    /\ streams = [i \in StreamIds |-> NoStream]
    /\ nextStreamId = FirstId
    /\ outQueue = <<>> /\ manualClose = FALSE
    /\ sent = FALSE /\ unpolled = {} /\ polling = {}
    /\ buffer = <<>> /\ socket = 0 /\ owed = {} /\ farewell = "no"
    /\ link = "up" /\ incoming = <<>> /\ script = Script
    /\ closing = FALSE /\ peerClosing = FALSE /\ closes = 0
    /\ written = [i \in StreamIds |-> 0]

-----------------------------------------------------------------------------
\* The transport.

\* YamuxTransport::poll_write: what the socket takes of the buffer.  It is Ready
\* when that is all, and leaves a waker with the socket otherwise; an error is
\* Ready as well, and met only if there is something to write.
Room == IF link = "down" THEN 0 ELSE SocketRoom - socket
Taken == IF Len(buffer) <= Room THEN Len(buffer) ELSE Room
Fails == link = "down" /\ buffer # <<>>
Left == SubSeq(buffer, Taken + 1, Len(buffer))
Drained == Left = <<>>
\* Behind GoAway there is nothing else.
Out == IF farewell = "buffered" /\ Drained THEN "out" ELSE farewell
MutantBlocked == {}
Blocked == IF Drained \/ Fails THEN {} ELSE {WriteWaker}

\* poll_ready(..).is_ready()
MutantReady == TRUE
Ready == Drained \/ Fails \/ Len(Left) < MaxWriteBuffer

\* poll_write alone.
Flushed ==
    /\ buffer' = Left /\ socket' = socket + Taken /\ farewell' = Out
    /\ UNCHANGED owed
Flushing == Flushed /\ waiting' = waiting \cup Blocked

\* poll_ready and then start_send.
Handing(frame) ==
    /\ buffer' = Append(Left, frame) /\ socket' = socket + Taken
    /\ farewell' = IF farewell = "queued" /\ frame.event.kind = "GoAway"
                   THEN "buffered" ELSE Out
    /\ waiting' = waiting \cup Blocked
    /\ owed' = WriterOwes(owed, frame)

-----------------------------------------------------------------------------
\* poll_next.

StartPoll ==
    /\ pc = "idle" /\ (woken \/ Spurious)
    /\ pc' = "send" /\ woken' = FALSE /\ sent' = FALSE
    /\ UNCHANGED <<session, unpolled, polling, transport, world, waiting>>

\* First and second try to send: while there is a frame and the transport is
\* ready for it.
Send ==
    /\ pc \in {"send", "resend"}
    /\ outQueue # <<>> /\ Ready
    /\ Handing(Head(outQueue))
    /\ outQueue' = Tail(outQueue)
    /\ sent' = TRUE
    /\ UNCHANGED <<pc, streams, nextStreamId, manualClose, unpolled, polling,
                   world, woken>>

MutantAfterSending == IF pc = "send" THEN "read" ELSE "flush"
AfterSending ==
    CASE pc = "send" /\ manualClose -> "close"
      [] pc = "send" /\ ~manualClose -> "read"
      [] pc = "resend" -> "flush"

EndSending ==
    /\ pc \in {"send", "resend"}
    /\ \/ /\ outQueue = <<>>
          /\ UNCHANGED <<transport, waiting>>
       \/ /\ outQueue # <<>> /\ ~Ready
          /\ Flushing
    /\ pc' = AfterSending
    /\ UNCHANGED <<session, local, world, woken>>

\* After close(): poll_close(..).is_ready().  Once the writer buffer is empty
\* the stream itself is closed, which may be Pending; an error is Ready.
CloseTransport ==
    /\ pc = "close"
    /\ \/ /\ Flushing
          /\ pc' = IF Drained \/ Fails THEN "ended" ELSE "idle"
          /\ UNCHANGED closing
       \/ /\ Drained /\ link # "down"
          /\ Flushed
          /\ waiting' = waiting \cup {WriteWaker}
          /\ closing' = TRUE /\ pc' = "idle"
    /\ UNCHANGED <<session, local, link, incoming, script, peerClosing, closes,
                   written, woken>>

\* The read loop: one frame.
Accepts(frame) ==
    ~streams[frame.stream].alive /\ "SYN" \in EventFlags(frame.event)

ReadStream(frame) ==
    /\ streams' = [streams EXCEPT ![frame.stream] =
                      IF Accepts(frame) THEN OnInput(AcceptStream, frame.event)
                      ELSE IF @.alive THEN OnInput(@, frame.event) ELSE @]
    /\ IF Accepts(frame)  \* return Ready(Some(stream)): the owner polls again
       THEN pc' = "idle" /\ woken' = TRUE
       ELSE UNCHANGED <<pc, woken>>
    /\ UNCHANGED outQueue

ReadSession(frame) ==
    /\ pc' = IF frame.event.kind = "GoAway" THEN "ended" ELSE "read"
    /\ outQueue' = IF frame.event.kind = "Ping" /\ "SYN" \in frame.event.flags
                   THEN Append(outQueue, Ping({"ACK"}, frame.event.code))
                   ELSE outQueue
    /\ UNCHANGED <<streams, woken>>

Read ==
    /\ pc = "read" /\ incoming # <<>>
    /\ IF Head(incoming).stream = 0 THEN ReadSession(Head(incoming))
                                    ELSE ReadStream(Head(incoming))
    /\ incoming' = Tail(incoming)
    /\ UNCHANGED <<nextStreamId, manualClose, local, transport, link,
                   closing, script, peerClosing, closes, written, waiting>>

\* The end of the connection, or an error, once all that came has been read.
MutantAtLinkEnd == "heads"  \* break, as when nothing has come
AtLinkEnd == "ended"

ReadLinkEnd ==
    /\ pc = "read" /\ incoming = <<>> /\ link # "up"
    /\ pc' = AtLinkEnd
    /\ UNCHANGED <<session, local, transport, world, waiting, woken>>

EndReading ==
    /\ pc = "read" /\ incoming = <<>> /\ link = "up"
    /\ waiting' = waiting \cup {ReadWaker}
    /\ pc' = "heads"
    /\ unpolled' = {i \in StreamIds : streams[i].alive}
    /\ UNCHANGED <<session, sent, polling, transport, world, woken>>

\* The loop over the heads, each polled until it is Pending or closed.
MutantNextHead == unpolled  \* one item of each head in turn
NextHead == IF polling = {} THEN unpolled ELSE polling

MutantAfterItem(i) == unpolled' = unpolled \ {i} /\ polling' = {}
AfterItem(i) == polling' = {i} /\ UNCHANGED unpolled

PollHead ==
    /\ pc = "heads"
    /\ \E i \in NextHead :
         LET s == streams[i]
         IN  \/ /\ ~PollsNone(s) /\ PollsItem(s)
                /\ streams' = [streams EXCEPT ![i] = Polled(@)]
                /\ outQueue' = Append(outQueue, Frame(i, PolledItem(s)))
                /\ AfterItem(i)
                /\ UNCHANGED waiting
             \/ /\ ~PollsNone(s) /\ ~PollsItem(s)
                /\ streams' = [streams EXCEPT ![i] = Polled(@)]
                /\ waiting' = waiting \cup
                                 IF s.send >= ChunkCapacity THEN {HeadWaker(i)}
                                                           ELSE {}
                /\ unpolled' = unpolled \ {i} /\ polling' = {}
                /\ UNCHANGED outQueue
             \/ /\ PollsNone(s)
                /\ streams' = [streams EXCEPT ![i] = RemoveHead(@)]
                /\ unpolled' = unpolled \ {i} /\ polling' = {}
                /\ UNCHANGED <<outQueue, waiting>>
    /\ UNCHANGED <<pc, nextStreamId, manualClose, sent, transport, world, woken>>

EndHeads ==
    /\ pc = "heads" /\ unpolled = {}
    /\ pc' = "resend"
    /\ UNCHANGED <<session, local, transport, world, waiting, woken>>

\* poll_flush, only if this poll has handed the transport a frame.
Flush ==
    /\ pc = "flush"
    /\ IF sent THEN Flushing ELSE UNCHANGED <<transport, waiting>>
    /\ pc' = IF sent /\ Fails THEN "ended" ELSE "idle"
    /\ UNCHANGED <<session, local, world, woken>>

-----------------------------------------------------------------------------
\* The owner, who holds the session between two polls, and polls it afterwards.

\* wrapping_add(2), and no stream is 0.
MutantFollowingId == (nextStreamId + 1) % IdSpace
FollowingId ==
    LET next == (nextStreamId + 2) % IdSpace
    IN  IF next = 0 THEN 2 ELSE next

\* A stream that still has the identifier is replaced: its head goes, and its
\* handle, which the model forgets, is left without one.
Open ==
    /\ pc = "idle"
    /\ nextStreamId \in StreamIds
    /\ streams' = [streams EXCEPT ![nextStreamId] = OpenStream]
    /\ nextStreamId' = FollowingId
    /\ woken' = TRUE
    /\ UNCHANGED <<pc, outQueue, manualClose, local, transport, world, waiting>>

Close ==
    /\ pc = "idle" /\ closes < MaxCloses
    /\ outQueue' = Append(outQueue, GoAway(0))
    /\ manualClose' = TRUE /\ woken' = TRUE
    /\ closes' = closes + 1
    /\ farewell' = IF farewell = "no" THEN "queued" ELSE farewell
    /\ UNCHANGED <<pc, streams, nextStreamId, local, buffer, socket, owed, link,
                   closing, incoming, script, peerClosing, written, waiting>>

\* The application's handles, on any thread.  A change wakes the session if the
\* head waits for it.
Wake(wakers) ==
    /\ woken' = (woken \/ wakers \cap waiting # {})
    /\ waiting' = waiting \ wakers

Write(i) ==
    /\ pc # "ended" /\ WriteReady(streams[i])
    /\ written[i] < Writes[i]
    /\ \E v \in Byte :
          streams' = [streams EXCEPT ![i] = PollWrite(@, <<v>>)]
    /\ written' = [written EXCEPT ![i] = @ + 1]
    /\ Wake({HeadWaker(i)})
    /\ UNCHANGED <<pc, nextStreamId, outQueue, manualClose, local, transport,
                   link, closing, incoming, script, peerClosing, closes>>

CloseHandle(i) ==
    /\ pc # "ended" /\ streams[i].txOpen /\ i \in Closed
    /\ streams' = [streams EXCEPT ![i] = PollClose(@)]
    /\ Wake({HeadWaker(i)})
    /\ UNCHANGED <<pc, nextStreamId, outQueue, manualClose, local, transport,
                   world>>

-----------------------------------------------------------------------------
\* The peer and the socket.

\* The peer sends the next frame of a script.  A chunk directly follows its
\* header, and the peer answers a stream once its SYN has left the session.
Follows(i) ==
    \A j \in DOMAIN script :
        script[j] # <<>> /\ Head(script[j]).event.kind = "DataChunk" => i = j

FromPeer(i) == i = 0 \/ i % 2 # FirstId % 2

SynLeft(i) ==
    /\ i \in StreamIds /\ streams[i].rxOpen
    /\ streams[i].outs = <<>>
    /\ \A frame \in ToSet(outQueue) \cup ToSet(buffer) :
          frame.stream = i => "SYN" \notin EventFlags(frame.event)

PeerSend(i) ==
    /\ pc # "ended" /\ link = "up"
    /\ script[i] # <<>> /\ Follows(i) /\ (FromPeer(i) \/ SynLeft(i))
    /\ Len(incoming) < Arriving
    /\ incoming' = Append(incoming, Head(script[i]))
    /\ script' = [script EXCEPT ![i] = Tail(@)]
    /\ Wake({ReadWaker})
    /\ UNCHANGED <<pc, session, local, transport, link, closing, peerClosing,
                   closes, written>>

\* The peer's owner calls close() as well: of what it had to send only its
\* session's frames are still sent, GoAway last.
PeerCloses ==
    /\ PeerMayClose /\ pc # "ended" /\ link = "up" /\ ~peerClosing
    /\ peerClosing' = TRUE
    /\ script' = [i \in DOMAIN script |->
                     IF i = 0 THEN Append(script[0], GoAway(0)) ELSE <<>>]
    /\ UNCHANGED <<pc, session, local, transport, link, closing, incoming,
                   closes, written, waiting, woken>>

\* The peer reads, until it closes.
SocketDrains ==
    /\ socket > 0 /\ pc # "ended" /\ ~peerClosing
    /\ socket' = socket - 1
    /\ Wake({WriteWaker})
    /\ UNCHANGED <<pc, session, local, buffer, owed, farewell, world>>

\* The connection ends or is lost, and with it frames that had not arrived.
EndLink(how, frames) ==
    /\ pc # "ended" /\ link # how /\ link # "down"
    /\ link' = how /\ incoming' = frames
    /\ script' = [i \in DOMAIN script |-> <<>>]
    /\ Wake(IF how = "down" THEN {ReadWaker, WriteWaker} ELSE {ReadWaker})
    /\ UNCHANGED <<pc, session, local, transport, closing, peerClosing, closes,
                   written>>

PeerEnds == "eof" \in LinkEnds /\ ~peerClosing /\ EndLink("eof", incoming)

LinkBreaks ==
    /\ "down" \in LinkEnds
    /\ \E n \in 0..Len(incoming) : EndLink("down", SubSeq(incoming, 1, n))

\* A peer that closes drops the connection when its last frame is out.
PeerLeaves ==
    /\ peerClosing /\ \A i \in DOMAIN script : script[i] = <<>>
    /\ EndLink("down", incoming)

\* The stream's own close completes; it is of no use from then on.
StreamCloses == closing /\ EndLink("down", incoming)

PollStep ==
    \/ StartPoll \/ Send \/ EndSending \/ CloseTransport
    \/ Read \/ ReadLinkEnd \/ EndReading \/ PollHead \/ EndHeads \/ Flush

Next ==
    \/ PollStep \/ Open \/ Close
    \/ \E i \in StreamIds : Write(i) \/ CloseHandle(i)
    \/ \E i \in DOMAIN script : PeerSend(i)
    \/ PeerCloses \/ SocketDrains \/ PeerEnds \/ LinkBreaks \/ PeerLeaves
    \/ StreamCloses

Spec == Init /\ [][Next]_vars

\* The executor runs a poll it owes to its end, the network moves, a peer that
\* has closed sends what it can and leaves, and a stream asked to close does so.
PeerStep ==
    \/ SocketDrains \/ (peerClosing /\ PeerSend(0)) \/ PeerLeaves
    \/ StreamCloses
Fairness == WF_vars(PollStep) /\ WF_vars(PeerStep)
FairSpec == Spec /\ Fairness

-----------------------------------------------------------------------------
(* Properties *)

\* The session's state has its shape, and identifiers it gives keep its parity.
TypeOK ==
    /\ pc \in {"idle", "send", "close", "read", "heads", "resend", "flush",
               "ended"}
    /\ streams \in [StreamIds -> HeadState]
    /\ nextStreamId \in 1..IdSpace - 1 /\ nextStreamId % 2 = FirstId % 2
    /\ {outQueue, buffer, incoming} \subseteq Seq(AnyFrame)
    /\ script \in [{0} \cup StreamIds -> Seq(AnyFrame)]
    /\ link \in {"up", "eof", "down"} /\ peerClosing \in BOOLEAN
    /\ closing \in BOOLEAN /\ closes \in Nat
    /\ farewell \in {"no", "queued", "buffered", "out"}
    /\ written \in [StreamIds -> Nat]
    /\ manualClose \in BOOLEAN /\ sent \in BOOLEAN /\ woken \in BOOLEAN
    /\ unpolled \subseteq StreamIds /\ (unpolled # {} => pc = "heads")
    /\ polling \in {{}} \cup {{i} : i \in unpolled}
    /\ socket \in 0..SocketRoom
    /\ waiting \subseteq Waker

\* The frames the session hands the transport keep FrameWriter's discipline,
\* which Frame::write does not enforce: a data header, then its payload of the
\* same stream, with no pong, GoAway or other stream's frame in between.
TransportDiscipline ==
    [][Len(outQueue') < Len(outQueue) => WriterAccepts(owed, Head(outQueue))]_vars

\* After close() GoAway is the last frame, or several in a row when close() is
\* called again: nothing read or polled later is queued or handed over behind.
IsGoAway(frame) == frame.event.kind = "GoAway"
NothingAfterGoAway ==
    /\ \A j, k \in DOMAIN outQueue :
          j < k /\ IsGoAway(outQueue[j]) => IsGoAway(outQueue[k])
    /\ farewell = "queued" => outQueue # <<>> /\ IsGoAway(Last(outQueue))
    /\ farewell \in {"buffered", "out"} =>
          \A k \in DOMAIN outQueue : IsGoAway(outQueue[k])

\* Backpressure: the transport is not handed a frame while it holds
\* max_write_buffer, so its buffer exceeds that by less than a frame.
\* On a connection that fails, poll_ready's error counts as ready.
BufferBounded == link # "down" => Len(buffer) <= MaxWriteBuffer

\* A session that nobody will poll has nothing it could do: no frame to read,
\* no end of the connection to notice, no head with an item or at its end, no
\* queued frame the transport is ready for, and after close() no transport whose
\* socket has room or fails, or whose stream can be, or has been, closed.
Asleep == pc = "idle" /\ ~woken
NoLostWakeup ==
    Asleep =>
        /\ ~manualClose =>
              /\ incoming = <<>> /\ link = "up"
              /\ \A i \in StreamIds : streams[i].alive =>
                    ~PollsItem(streams[i]) /\ ~PollsNone(streams[i])
        /\ outQueue # <<>> => ~Ready
        /\ manualClose =>
              \/ buffer # <<>> /\ Taken = 0 /\ ~Fails
              \/ buffer = <<>> /\ closing /\ link # "down"

\* Both sessions are closing, neither reads, and each waits for room in a socket
\* that only the other could drain.
BothBlocked ==
    /\ manualClose /\ buffer # <<>> /\ socket = SocketRoom
    /\ peerClosing /\ script[0] # <<>> /\ Len(incoming) = Arriving

\* What is queued is eventually handed to the transport, whatever room the
\* socket has in between, unless both sides wait for each other.
EventuallyHandedOver ==
    outQueue # <<>> ~> outQueue = <<>> \/ pc = "ended" \/ BothBlocked

\* close() ends the session, except in that state.
EventuallyEnded == manualClose ~> pc = "ended" \/ BothBlocked

\* A connection that ends or fails is noticed, whatever the session waits for.
LinkEndNoticed == link # "up" ~> pc = "ended"

\* Polling the session flushes: what the transport holds eventually reaches the
\* socket (IMPLEMENT.md: polling drives outbound flushing).
EventuallyFlushed == []<>(buffer = <<>> \/ pc = "ended")

\* A session that close() has ended has sent GoAway (session.rs: "we need to
\* wait all pkt (end with GoAway) is sent").
GoAwaySent == pc = "ended" /\ manualClose => farewell = "out"
===============================================================================
