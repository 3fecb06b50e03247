----------------------------- MODULE SessionProofs -----------------------------
(***************************************************************************)
(* The session's invariants, for any number of streams, any script of the  *)
(* peer, any buffer and socket: its type, the bound of the writer buffer,  *)
(* the silence behind GoAway, the order in which the frames of the streams *)
(* reach the transport, and that no wakeup is lost.                        *)
(***************************************************************************)
EXTENDS Session, StreamHeadProofs

-----------------------------------------------------------------------------
\* Frames, and sequences of frames.

LEMMA FrameType ==
  ASSUME NEW i \in StreamIds, NEW event \in StreamEvent
  PROVE  /\ Frame(i, event) \in AnyFrame
         /\ Frame(i, event).stream = i /\ Frame(i, event).event = event
  BY DEF Frame, AnyFrame, FrameOf

LEMMA GoAwayType ==
  /\ GoAway(0) \in AnyFrame
  /\ GoAway(0).stream = 0 /\ GoAway(0).event.kind = "GoAway"
  BY DEF GoAway, Frame, AnyFrame, FrameOf, SessionEvent

LEMMA PongType ==
  ASSUME NEW code \in Nat
  PROVE  /\ Ping({"ACK"}, code) \in AnyFrame
         /\ Ping({"ACK"}, code).event.kind = "Ping"
  BY DEF Ping, Frame, AnyFrame, FrameOf, SessionEvent, Flag

LEMMA AnyFrameType ==
  ASSUME NEW frame \in AnyFrame
  PROVE  /\ frame.stream = 0 => frame.event \in SessionEvent
         /\ frame.stream # 0 =>
               frame.stream \in StreamIds /\ frame.event \in StreamEvent
  BY SessionAssumption DEF AnyFrame, FrameOf

-----------------------------------------------------------------------------
\* The transport.

LEMMA LeftEffect ==
  ASSUME buffer \in Seq(AnyFrame), socket \in 0..SocketRoom
  PROVE  /\ Taken \in Nat /\ Taken <= Len(buffer)
         /\ socket + Taken \in 0..SocketRoom
         /\ Left \in Seq(AnyFrame) /\ Len(Left) = Len(buffer) - Taken
         /\ ~Drained /\ link # "down" => socket + Taken = SocketRoom
         /\ Drained <=> Len(Left) = 0
<1>1. Len(buffer) \in Nat /\ Room \in Nat /\ socket + Room \in 0..SocketRoom
  BY SessionAssumption DEF Room
<1>2. Taken \in Nat /\ Taken <= Len(buffer) /\ Taken <= Room
  BY <1>1 DEF Taken
<1>3. socket + Taken \in 0..SocketRoom
  BY <1>1, <1>2, SessionAssumption
<1> DEFINE n == Len(buffer) - Taken
<1>4. Left \in Seq(AnyFrame) /\ Len(Left) = n
  <2>1. CASE n = 0
    <3>1. Taken + 1 > Len(buffer)
      BY <1>1, <1>2, <2>1
    <3>2. Left = <<>>
      BY <1>1, <1>2, <3>1 DEF Left
    <3> QED BY <2>1, <3>2
  <2>2. CASE n # 0
    <3>1. Taken + 1 \in 1..Len(buffer) /\ Len(buffer) \in 1..Len(buffer)
      BY <1>1, <1>2, <2>2
    <3> QED BY <1>1, <1>2, <3>1 DEF Left
  <2> QED BY <2>1, <2>2
<1>5. Drained <=> Len(Left) = 0
  BY <1>4 DEF Drained
<1>6. ~Drained /\ link # "down" => socket + Taken = SocketRoom
  <2> SUFFICES ASSUME ~Drained, link # "down" PROVE socket + Taken = SocketRoom
    OBVIOUS
  <2>1. Taken # Len(buffer)
    BY <1>1, <1>2, <1>4, <1>5
  <2>2. Taken = Room
    BY <2>1 DEF Taken
  <2> QED BY <2>2, SessionAssumption DEF Room
<1> QED BY <1>2, <1>3, <1>4, <1>5, <1>6

\* Flushing and Handing keep the types of what they change.
LEMMA FlushedType ==
  ASSUME TypeOK, Flushed
  PROVE  /\ buffer' \in Seq(AnyFrame) /\ socket' \in 0..SocketRoom
         /\ farewell' \in {"no", "queued", "buffered", "out"}
<1>1. buffer \in Seq(AnyFrame) /\ socket \in 0..SocketRoom
  BY DEF TypeOK
<1>2. Out \in {"no", "queued", "buffered", "out"}
  BY DEF TypeOK, Out
<1> QED BY <1>1, <1>2, LeftEffect DEF Flushed

LEMMA FlushingType ==
  ASSUME TypeOK, Flushing
  PROVE  /\ buffer' \in Seq(AnyFrame) /\ socket' \in 0..SocketRoom
         /\ farewell' \in {"no", "queued", "buffered", "out"}
         /\ waiting' \subseteq Waker
  BY FlushedType DEF Flushing, Blocked, Waker, TypeOK

LEMMA HandingType ==
  ASSUME TypeOK, NEW frame \in AnyFrame, Handing(frame)
  PROVE  /\ buffer' \in Seq(AnyFrame) /\ socket' \in 0..SocketRoom
         /\ farewell' \in {"no", "queued", "buffered", "out"}
         /\ waiting' \subseteq Waker
<1>1. buffer \in Seq(AnyFrame) /\ socket \in 0..SocketRoom
  BY DEF TypeOK
<1>2. Out \in {"no", "queued", "buffered", "out"}
  BY DEF TypeOK, Out
<1>3. Append(Left, frame) \in Seq(AnyFrame)
  BY <1>1, LeftEffect
<1> QED BY <1>1, <1>2, <1>3, LeftEffect DEF Handing, Blocked, Waker, TypeOK

-----------------------------------------------------------------------------
\* The type invariant.

LEMMA NewStreams ==
  /\ AcceptStream \in HeadState /\ OpenStream \in HeadState
  /\ NoStream \in HeadState /\ ~NoStream.alive /\ NoStream.outs = <<>>
  /\ NoStream.outbox = <<>>
<1>1. AcceptStream \in HeadState /\ OpenStream \in HeadState
  BY NewHeadEffect DEF AcceptStream, OpenStream, Flag
<1>2. DropHandle(AcceptStream) \in HeadState
  BY <1>1, DropHandleEffect
<1> QED BY <1>1, <1>2, RemoveHeadEffect DEF NoStream

LEMMA InitTypeOK == Init => TypeOK
<1> SUFFICES ASSUME Init PROVE TypeOK
  OBVIOUS
<1>1. streams \in [StreamIds -> HeadState]
  BY NewStreams DEF Init
<1>2. nextStreamId \in 1..IdSpace - 1 /\ nextStreamId % 2 = FirstId % 2
  BY SessionAssumption DEF Init
<1>3. {outQueue, buffer, incoming} \subseteq Seq(AnyFrame)
  BY DEF Init
<1>4. script \in [{0} \cup StreamIds -> Seq(AnyFrame)]
  BY ScriptAssumption DEF Init
<1>5. polling = {} /\ unpolled = {}
  BY DEF Init
<1>6. socket \in 0..SocketRoom /\ written \in [StreamIds -> Nat]
  BY SessionAssumption DEF Init
<1> QED BY <1>1, <1>2, <1>3, <1>4, <1>5, <1>6 DEF Init, TypeOK

\* What a read of a stream's frame makes of the heads.
LEMMA ReadStreamEffect ==
  ASSUME TypeOK, NEW frame \in AnyFrame, frame.stream # 0, ReadStream(frame)
  PROVE  /\ streams' \in [StreamIds -> HeadState]
         /\ \A i \in StreamIds :
               \/ streams'[i] = streams[i]
               \/ \E s \in {streams[i], AcceptStream} :
                     /\ QueuesUpdate(s, streams'[i])
                     /\ SameOutbox(s, streams'[i])
<1> DEFINE id == frame.stream
           event == frame.event
<1>1. id \in StreamIds /\ event \in StreamEvent
  BY AnyFrameType
<1>2. streams \in [StreamIds -> HeadState]
  BY DEF TypeOK
<1>3. PICK t : /\ streams' = [streams EXCEPT ![id] = t]
               /\ \/ t = OnInput(AcceptStream, event)
                  \/ t = OnInput(streams[id], event)
                  \/ t = streams[id]
  BY DEF ReadStream
<1>4. /\ t \in HeadState
      /\ \/ t = streams[id]
         \/ \E s \in {streams[id], AcceptStream} :
               QueuesUpdate(s, t) /\ SameOutbox(s, t)
  <2> HIDE DEF id, event
  <2> QED BY <1>1, <1>2, <1>3, NewStreams, OnInputEffect
<1> HIDE DEF id, event
<1> QED BY <1>1, <1>2, <1>3, <1>4

\* A poll of one head, as the loop over the heads does it.
PollsOne(i, s) ==
    \/ /\ ~PollsNone(s) /\ PollsItem(s)
       /\ streams' = [streams EXCEPT ![i] = Polled(s)]
       /\ outQueue' = Append(outQueue, Frame(i, PolledItem(s)))
       /\ polling' = {i} /\ unpolled' = unpolled /\ waiting' = waiting
    \/ /\ ~PollsNone(s) /\ ~PollsItem(s)
       /\ streams' = [streams EXCEPT ![i] = Polled(s)]
       /\ waiting' = waiting \cup
                        IF s.send >= ChunkCapacity THEN {HeadWaker(i)} ELSE {}
       /\ unpolled' = unpolled \ {i} /\ polling' = {} /\ outQueue' = outQueue
    \/ /\ PollsNone(s)
       /\ streams' = [streams EXCEPT ![i] = RemoveHead(s)]
       /\ unpolled' = unpolled \ {i} /\ polling' = {}
       /\ outQueue' = outQueue /\ waiting' = waiting

LEMMA PollHeadStep ==
  ASSUME TypeOK, PollHead
  PROVE  /\ pc = "heads"
         /\ \E i \in StreamIds :
               /\ i \in unpolled /\ (polling = {} \/ polling = {i})
               /\ streams[i] \in HeadState
               /\ PollsOne(i, streams[i])
         /\ UNCHANGED <<pc, nextStreamId, manualClose, sent, transport, world,
                        woken>>
<1>1. PICK i \in NextHead :
         LET s == streams[i]
         IN  \/ /\ ~PollsNone(s) /\ PollsItem(s)
                /\ streams' = [streams EXCEPT ![i] = Polled(@)]
                /\ outQueue' = Append(outQueue, Frame(i, PolledItem(s)))
                /\ AfterItem(i)
                /\ UNCHANGED waiting
             \/ /\ ~PollsNone(s) /\ ~PollsItem(s)
                /\ streams' = [streams EXCEPT ![i] = Polled(@)]
                /\ waiting' = waiting \cup
                                 IF s.send >= ChunkCapacity THEN {HeadWaker(i)}
                                                           ELSE {}
                /\ unpolled' = unpolled \ {i} /\ polling' = {}
                /\ UNCHANGED outQueue
             \/ /\ PollsNone(s)
                /\ streams' = [streams EXCEPT ![i] = RemoveHead(@)]
                /\ unpolled' = unpolled \ {i} /\ polling' = {}
                /\ UNCHANGED <<outQueue, waiting>>
  BY DEF PollHead
<1>2. /\ i \in StreamIds /\ i \in unpolled
      /\ polling = {} \/ polling = {i}
  BY <1>1 DEF NextHead, TypeOK
<1>3. streams[i] \in HeadState /\ streams \in [StreamIds -> HeadState]
  BY <1>2 DEF TypeOK
<1>4. PollsOne(i, streams[i])
  BY <1>1, <1>2, <1>3 DEF PollsOne, AfterItem
<1> QED BY <1>2, <1>3, <1>4 DEF PollHead

\* The following identifier has the parity of the one before, also where they
\* wrap around, and is not 0.
LEMMA FollowingIdType ==
  ASSUME nextStreamId \in 1..IdSpace - 1
  PROVE  /\ FollowingId \in 1..IdSpace - 1
         /\ FollowingId % 2 = nextStreamId % 2
<1>1. IdSpace \in Nat /\ IdSpace % 2 = 0 /\ IdSpace > 3
  BY SessionAssumption
<1> DEFINE n == nextStreamId + 2
<1>2. CASE n < IdSpace
  <2>1. n % IdSpace = n
    BY <1>1, <1>2
  <2> QED BY <1>1, <1>2, <2>1 DEF FollowingId
<1>3. CASE n >= IdSpace
  <2>1. n = IdSpace \/ n = IdSpace + 1
    BY <1>1, <1>3
  <2>2. n % IdSpace = n - IdSpace
    BY <1>1, <2>1
  <2>3. CASE n = IdSpace
    BY <1>1, <2>2, <2>3 DEF FollowingId
  <2>4. CASE n = IdSpace + 1
    BY <1>1, <2>2, <2>4 DEF FollowingId
  <2> QED BY <2>1, <2>3, <2>4
<1> QED BY <1>1, <1>2, <1>3

LEMMA NextTypeOK == TypeOK /\ [Next]_vars => TypeOK'
<1> SUFFICES ASSUME TypeOK, [Next]_vars PROVE TypeOK'
  OBVIOUS
<1>1. CASE StartPoll
  BY <1>1 DEF StartPoll, TypeOK, session, transport, world
<1>2. CASE Send
  <2>1. /\ Head(outQueue) \in AnyFrame /\ Tail(outQueue) \in Seq(AnyFrame)
    BY <1>2, HeadTailType DEF Send, TypeOK
  <2>2. Handing(Head(outQueue))
    BY <1>2 DEF Send
  <2>3. /\ buffer' \in Seq(AnyFrame) /\ socket' \in 0..SocketRoom
        /\ farewell' \in {"no", "queued", "buffered", "out"}
        /\ waiting' \subseteq Waker
    BY <2>1, <2>2, HandingType
  <2> QED BY <1>2, <2>1, <2>3 DEF Send, TypeOK, world
<1>3. CASE EndSending
  <2>1. \/ UNCHANGED <<transport, waiting>>
        \/ /\ buffer' \in Seq(AnyFrame) /\ socket' \in 0..SocketRoom
           /\ farewell' \in {"no", "queued", "buffered", "out"}
           /\ waiting' \subseteq Waker
    BY <1>3, FlushingType DEF EndSending
  <2>2. pc' \in {"close", "read", "flush"}
    BY <1>3 DEF EndSending, AfterSending, TypeOK
  <2> QED BY <1>3, <2>1, <2>2
          DEF EndSending, TypeOK, session, local, world, transport
<1>4. CASE CloseTransport
  <2>1. /\ buffer' \in Seq(AnyFrame) /\ socket' \in 0..SocketRoom
        /\ farewell' \in {"no", "queued", "buffered", "out"}
        /\ waiting' \subseteq Waker
    BY <1>4, FlushingType, FlushedType DEF CloseTransport, TypeOK, Waker
  <2> QED BY <1>4, <2>1 DEF CloseTransport, TypeOK, session, local, world
<1>5. CASE Read
  <2> DEFINE frame == Head(incoming)
  <2>1. frame \in AnyFrame /\ Tail(incoming) \in Seq(AnyFrame)
    BY <1>5, HeadTailType DEF Read, TypeOK
  <2>2. CASE frame.stream = 0
    <3>1. ReadSession(frame)
      BY <1>5, <2>2 DEF Read
    <3>2. frame.event \in SessionEvent
      BY <2>1, <2>2, AnyFrameType
    <3> HIDE DEF frame
    <3>3. outQueue' \in Seq(AnyFrame)
      <4>1. outQueue \in Seq(AnyFrame) /\ frame.event.code \in Nat
        BY <3>2 DEF TypeOK, SessionEvent
      <4>2. Append(outQueue, Ping({"ACK"}, frame.event.code)) \in Seq(AnyFrame)
        BY <4>1, PongType
      <4> QED BY <3>1, <4>1, <4>2 DEF ReadSession
    <3> QED BY <1>5, <2>1, <3>1, <3>3
            DEF Read, ReadSession, TypeOK, local, transport, frame
  <2>3. CASE frame.stream # 0
    <3>1. ReadStream(frame)
      BY <1>5, <2>3 DEF Read
    <3>2. streams' \in [StreamIds -> HeadState]
      BY <2>1, <2>3, <3>1, ReadStreamEffect
    <3>3. /\ outQueue' = outQueue
          /\ pc' \in {"idle", pc} /\ woken' \in {TRUE, woken}
      BY <3>1 DEF ReadStream
    <3> HIDE DEF frame
    <3> QED BY <1>5, <2>1, <3>2, <3>3 DEF Read, TypeOK, local, transport, frame
  <2> QED BY <2>2, <2>3
<1>6. CASE ReadLinkEnd
  BY <1>6 DEF ReadLinkEnd, AtLinkEnd, TypeOK, session, local, transport, world
<1>7. CASE EndReading
  <2>1. polling' = polling /\ polling = {}
    BY <1>7 DEF EndReading, TypeOK
  <2>2. unpolled' \subseteq StreamIds /\ pc' = "heads"
    BY <1>7 DEF EndReading
  <2> QED BY <1>7, <2>1, <2>2
          DEF EndReading, TypeOK, session, transport, world, Waker
<1>8. CASE PollHead
  <2>1. PICK i \in StreamIds :
           /\ i \in unpolled /\ (polling = {} \/ polling = {i})
           /\ streams[i] \in HeadState
           /\ PollsOne(i, streams[i])
    BY <1>8, PollHeadStep
  <2>2. /\ pc = "heads"
        /\ UNCHANGED <<pc, nextStreamId, manualClose, sent, transport, world,
                       woken>>
    BY <1>8, PollHeadStep
  <2> DEFINE s == streams[i]
  <2>3. Polled(s) \in HeadState /\ RemoveHead(s) \in HeadState
    BY <2>1, PolledEffect, RemoveHeadEffect
  <2>4. PollsItem(s) => Frame(i, PolledItem(s)) \in AnyFrame
    BY <2>1, PolledEffect, FrameType
  <2> HIDE DEF s
  <2>5. /\ streams' \in [StreamIds -> HeadState]
        /\ outQueue' \in Seq(AnyFrame)
        /\ unpolled' \subseteq StreamIds
        /\ polling' \in {{}} \cup {{j} : j \in unpolled'}
        /\ waiting' \subseteq Waker
    <3>1. streams \in [StreamIds -> HeadState] /\ outQueue \in Seq(AnyFrame)
          /\ unpolled \subseteq StreamIds /\ waiting \subseteq Waker
      BY DEF TypeOK
    <3>2. HeadWaker(i) \in Waker
      BY DEF Waker
    <3>3. PollsOne(i, s)
      BY <2>1 DEF s
    <3> QED BY <2>1, <2>3, <2>4, <3>1, <3>2, <3>3 DEF PollsOne
  <2> QED BY <2>2, <2>5 DEF TypeOK, transport, world
<1>9. CASE EndHeads
  BY <1>9 DEF EndHeads, TypeOK, session, local, transport, world
<1>10. CASE Flush
  <2>1. \/ UNCHANGED <<transport, waiting>>
        \/ /\ buffer' \in Seq(AnyFrame) /\ socket' \in 0..SocketRoom
           /\ farewell' \in {"no", "queued", "buffered", "out"}
           /\ waiting' \subseteq Waker
    BY <1>10, FlushingType DEF Flush
  <2> QED BY <1>10, <2>1 DEF Flush, TypeOK, session, local, world, transport
<1>11. CASE Open
  <2>1. streams' \in [StreamIds -> HeadState]
    BY <1>11, NewStreams DEF Open, TypeOK
  <2>2. nextStreamId' \in 1..IdSpace - 1 /\ nextStreamId' % 2 = FirstId % 2
    BY <1>11, FollowingIdType DEF Open, TypeOK
  <2> QED BY <1>11, <2>1, <2>2 DEF Open, TypeOK, local, transport, world
<1>12. CASE Close
  <2>1. outQueue' \in Seq(AnyFrame)
    BY <1>12, GoAwayType DEF Close, TypeOK
  <2> QED BY <1>12, <2>1 DEF Close, TypeOK, local, world
<1>13. ASSUME NEW i \in StreamIds, Write(i) PROVE TypeOK'
  <2>1. PICK v \in Byte : streams' = [streams EXCEPT ![i] = PollWrite(@, <<v>>)]
    BY <1>13 DEF Write
  <2>2. <<v>> \in Chunk
    BY DEF Chunk
  <2>3. streams' \in [StreamIds -> HeadState]
    BY <2>1, <2>2, PollWriteEffect DEF TypeOK
  <2>4. written' \in [StreamIds -> Nat]
    BY <1>13 DEF Write, TypeOK
  <2> QED BY <1>13, <2>3, <2>4 DEF Write, Wake, TypeOK, local, transport
<1>14. ASSUME NEW i \in StreamIds, CloseHandle(i) PROVE TypeOK'
  <2>1. streams' \in [StreamIds -> HeadState]
    BY <1>14, PollCloseEffect DEF CloseHandle, TypeOK
  <2> QED BY <1>14, <2>1 DEF CloseHandle, Wake, TypeOK, local, transport, world
<1>15. ASSUME NEW i \in DOMAIN script, PeerSend(i) PROVE TypeOK'
  <2>1. /\ script \in [{0} \cup StreamIds -> Seq(AnyFrame)]
        /\ incoming \in Seq(AnyFrame) /\ script[i] \in Seq(AnyFrame)
    BY DEF TypeOK
  <2>2. Head(script[i]) \in AnyFrame /\ Tail(script[i]) \in Seq(AnyFrame)
    BY <1>15, <2>1, HeadTailType DEF PeerSend
  <2>3. /\ incoming' \in Seq(AnyFrame)
        /\ script' \in [{0} \cup StreamIds -> Seq(AnyFrame)]
    BY <1>15, <2>1, <2>2 DEF PeerSend
  <2> QED BY <1>15, <2>3 DEF PeerSend, Wake, TypeOK, session, local, transport
<1>16. CASE PeerCloses
  <2>1. script' \in [{0} \cup StreamIds -> Seq(AnyFrame)]
    <3>1. /\ script \in [{0} \cup StreamIds -> Seq(AnyFrame)]
          /\ script[0] \in Seq(AnyFrame)
      BY DEF TypeOK
    <3>2. Append(script[0], GoAway(0)) \in Seq(AnyFrame)
      BY <3>1, GoAwayType
    <3> QED BY <1>16, <3>1, <3>2 DEF PeerCloses
  <2> QED BY <1>16, <2>1 DEF PeerCloses, TypeOK, session, local, transport
<1>17. CASE SocketDrains
  <2>1. socket' \in 0..SocketRoom
    BY <1>17, SessionAssumption DEF SocketDrains, TypeOK
  <2> QED BY <1>17, <2>1
          DEF SocketDrains, Wake, TypeOK, session, local, world
<1>18. ASSUME NEW how \in {"eof", "down"}, NEW frames \in Seq(AnyFrame),
              EndLink(how, frames)
       PROVE  TypeOK'
  <2>1. script' \in [{0} \cup StreamIds -> Seq(AnyFrame)]
    BY <1>18 DEF EndLink, TypeOK
  <2> QED BY <1>18, <2>1 DEF EndLink, Wake, TypeOK, session, local, transport
<1>19. CASE PeerEnds \/ LinkBreaks \/ PeerLeaves \/ StreamCloses
  <2>1. incoming \in Seq(AnyFrame)
    BY DEF TypeOK
  <2>2. ASSUME NEW n \in 0..Len(incoming)
        PROVE  SubSeq(incoming, 1, n) \in Seq(AnyFrame)
    BY <2>1, <2>2
  <2>3. CASE PeerEnds
    BY <1>18, <2>1, <2>3 DEF PeerEnds
  <2>4. CASE LinkBreaks
    BY <1>18, <2>2, <2>4 DEF LinkBreaks
  <2>5. CASE PeerLeaves
    BY <1>18, <2>1, <2>5 DEF PeerLeaves
  <2>6. CASE StreamCloses
    BY <1>18, <2>1, <2>6 DEF StreamCloses
  <2> QED BY <1>19, <2>3, <2>4, <2>5, <2>6
<1>20. CASE UNCHANGED vars
  BY <1>20 DEF vars, TypeOK, session, local, transport, world
<1> QED
  BY <1>1, <1>2, <1>3, <1>4, <1>5, <1>6, <1>7, <1>8, <1>9, <1>10, <1>11, <1>12,
     <1>13, <1>14, <1>15, <1>16, <1>17, <1>19, <1>20 DEF Next, PollStep

\* The session's state has its shape: heads, frames and wakers are what the code
\* declares, the loop over the heads is at one head at most, the socket holds
\* what it may, and the identifiers that open_stream gives keep their parity.
THEOREM TypeCorrect == Spec => []TypeOK
  BY InitTypeOK, NextTypeOK, PTL DEF Spec

-----------------------------------------------------------------------------
\* Backpressure.

\* The link that is down stays down, and only a poll reaches the buffer.
LEMMA BufferStep ==
  ASSUME [Next]_vars
  PROVE  /\ link' # "down" => link # "down"
         /\ Send \/ Flushed \/ buffer' = buffer
<1>1. CASE StartPoll \/ Send \/ EndSending \/ CloseTransport
  BY <1>1 DEF StartPoll, Send, EndSending, CloseTransport, Flushing, world,
              transport
<1>2. CASE Read \/ ReadLinkEnd \/ EndReading \/ PollHead \/ EndHeads \/ Flush
  BY <1>2 DEF Read, ReadLinkEnd, EndReading, PollHead, EndHeads, Flush,
              Flushing, world, transport
<1>3. CASE \/ Open \/ Close
           \/ \E i \in StreamIds : Write(i) \/ CloseHandle(i)
           \/ \E i \in DOMAIN script : PeerSend(i)
  BY <1>3 DEF Open, Close, Write, CloseHandle, PeerSend, world, transport
<1>4. CASE \/ PeerCloses \/ SocketDrains \/ PeerEnds \/ LinkBreaks \/ PeerLeaves
           \/ StreamCloses
  BY <1>4 DEF PeerCloses, SocketDrains, PeerEnds, LinkBreaks, PeerLeaves,
              StreamCloses, EndLink, world, transport
<1>5. CASE UNCHANGED vars
  BY <1>5 DEF vars, world, transport
<1> QED BY <1>1, <1>2, <1>3, <1>4, <1>5 DEF Next, PollStep

LEMMA NextBuffer == TypeOK /\ BufferBounded /\ [Next]_vars => BufferBounded'
<1> SUFFICES ASSUME TypeOK, BufferBounded, [Next]_vars, link' # "down"
             PROVE  Len(buffer') <= MaxWriteBuffer
  BY DEF BufferBounded
<1>1. link # "down" /\ Len(buffer) <= MaxWriteBuffer
  BY BufferStep DEF BufferBounded
<1>2. buffer \in Seq(AnyFrame) /\ socket \in 0..SocketRoom
  BY DEF TypeOK
<1>3. /\ Left \in Seq(AnyFrame) /\ Len(Left) <= Len(buffer)
      /\ Len(Left) \in Nat /\ (Drained => Len(Left) = 0)
  BY <1>2, LeftEffect
<1>4. CASE Send
  <2>1. Handing(Head(outQueue)) /\ Ready
    BY <1>4 DEF Send
  <2>2. Len(Left) < MaxWriteBuffer
    BY <1>1, <1>3, <2>1, SessionAssumption DEF Ready, Fails
  <2>3. Head(outQueue) \in AnyFrame
    BY <1>4, HeadTailType DEF Send, TypeOK
  <2>4. buffer' = Append(Left, Head(outQueue))
    BY <2>1 DEF Handing
  <2>5. Len(buffer') = Len(Left) + 1
    BY <1>3, <2>3, <2>4
  <2> QED BY <1>3, <2>2, <2>5, SessionAssumption
<1>5. CASE Flushed
  <2>1. buffer' = Left
    BY <1>5 DEF Flushed
  <2>2. Len(buffer) \in Nat
    BY <1>2
  <2> QED BY <1>1, <1>3, <2>1, <2>2, SessionAssumption
<1>6. CASE buffer' = buffer
  BY <1>1, <1>6
<1> QED BY <1>4, <1>5, <1>6, BufferStep

\* While the connection holds, the transport never buffers more than
\* max_write_buffer, however many frames the streams queue and however little
\* the socket takes.
THEOREM BufferCorrect == Spec => []BufferBounded
<1>1. Init => BufferBounded
  BY SessionAssumption DEF Init, BufferBounded
<1>2. TypeOK /\ BufferBounded /\ [Next]_vars => BufferBounded'
  BY NextBuffer
<1> QED BY <1>1, <1>2, TypeCorrect, PTL DEF Spec

-----------------------------------------------------------------------------
\* Nothing after GoAway.

\* close() queues GoAway behind all else; from then on the session never reads
\* or polls a head, so what joins the queue is another GoAway.
GoAwaysLast(q) ==
    \A j, k \in 1..Len(q) : j < k /\ IsGoAway(q[j]) => IsGoAway(q[k])

FarewellInv ==
    /\ manualClose => pc \in {"idle", "send", "close", "ended"}
    /\ manualClose <=> farewell # "no"
    /\ GoAwaysLast(outQueue)
    /\ farewell = "no" => \A k \in 1..Len(outQueue) : ~IsGoAway(outQueue[k])
    /\ farewell = "queued" =>
          outQueue # <<>> /\ IsGoAway(outQueue[Len(outQueue)])
    /\ farewell \in {"buffered", "out"} =>
          \A k \in 1..Len(outQueue) : IsGoAway(outQueue[k])

\* A frame of a kind other than GoAway goes on the queue of an open session.
LEMMA FarewellAppend ==
  ASSUME TypeOK, FarewellInv, ~manualClose, manualClose' = manualClose,
         farewell' = farewell, NEW frame \in AnyFrame,
         frame.event.kind # "GoAway", outQueue' = Append(outQueue, frame)
  PROVE  FarewellInv'
<1>1. farewell = "no"
  BY DEF FarewellInv
<1> DEFINE after == Append(outQueue, frame)
<1>2. /\ Len(outQueue) \in Nat /\ Len(after) = Len(outQueue) + 1
      /\ after[Len(outQueue) + 1] = frame
      /\ \A k \in 1..Len(outQueue) : after[k] = outQueue[k]
  BY AppendType DEF TypeOK
<1> HIDE DEF after
<1>3. \A k \in 1..Len(after) : ~IsGoAway(after[k])
  BY <1>1, <1>2 DEF FarewellInv, IsGoAway
<1>4. outQueue' = after
  BY DEF after
<1> QED BY <1>1, <1>3, <1>4 DEF FarewellInv, GoAwaysLast

\* A step that leaves the queue and the flags alone.
LEMMA FarewellSame ==
  ASSUME FarewellInv, UNCHANGED <<outQueue, manualClose, farewell>>,
         manualClose => pc' \in {"idle", "send", "close", "ended"}
  PROVE  FarewellInv'
  BY DEF FarewellInv

\* What a flush may make of the mark.
LEMMA FarewellFlushing ==
  ASSUME FarewellInv, Flushed, UNCHANGED <<outQueue, manualClose>>,
         manualClose => pc' \in {"idle", "send", "close", "ended"}
  PROVE  FarewellInv'
<1>1. farewell' = farewell \/ (farewell = "buffered" /\ farewell' = "out")
  BY DEF Flushed, Out
<1> QED BY <1>1 DEF FarewellInv

LEMMA InitFarewell == Init => FarewellInv
  BY DEF Init, FarewellInv, GoAwaysLast

LEMMA NextFarewell == TypeOK /\ FarewellInv /\ [Next]_vars => FarewellInv'
<1> SUFFICES ASSUME TypeOK, FarewellInv, [Next]_vars PROVE FarewellInv'
  OBVIOUS
<1>1. CASE StartPoll
  BY <1>1, FarewellSame DEF StartPoll, session, transport
<1>2. CASE Send
  <2> DEFINE frame == Head(outQueue)
             rest == Tail(outQueue)
             n == Len(outQueue)
  <2>1. /\ outQueue' = rest /\ UNCHANGED <<pc, manualClose>>
        /\ farewell' = IF farewell = "queued" /\ IsGoAway(frame)
                       THEN "buffered" ELSE Out
    BY <1>2 DEF Send, Handing, IsGoAway
  <2>2. outQueue \in Seq(AnyFrame) /\ outQueue # <<>>
    BY <1>2 DEF Send, TypeOK
  <2>3. /\ n \in Nat \ {0} /\ frame = outQueue[1]
        /\ rest \in Seq(AnyFrame) /\ Len(rest) = n - 1
        /\ \A k \in 1..n - 1 : rest[k] = outQueue[k + 1]
    BY <2>2, HeadTailType
  <2>4. \A k \in 1..n - 1 : k + 1 \in 1..n
    BY <2>3
  <2> HIDE DEF frame, rest, n
  <2>5. GoAwaysLast(rest)
    <3>1. \A j, k \in 1..n :
             j < k /\ IsGoAway(outQueue[j]) => IsGoAway(outQueue[k])
      BY DEF FarewellInv, GoAwaysLast, n
    <3> SUFFICES ASSUME NEW j \in 1..n - 1, NEW k \in 1..n - 1, j < k,
                        IsGoAway(rest[j])
                 PROVE  IsGoAway(rest[k])
      BY <2>3 DEF GoAwaysLast
    <3>2. j + 1 \in 1..n /\ k + 1 \in 1..n /\ j + 1 < k + 1
      BY <2>3
    <3> QED BY <2>3, <3>1, <3>2
  <2>6. CASE farewell = "no"
    <3>1. \A k \in 1..n - 1 : ~IsGoAway(rest[k])
      BY <2>3, <2>4, <2>6 DEF FarewellInv, n
    <3> QED BY <2>1, <2>3, <2>5, <2>6, <3>1 DEF FarewellInv, Out
  <2>7. CASE farewell = "queued" /\ IsGoAway(frame)
    <3>1. \A k \in 1..n - 1 : IsGoAway(rest[k])
      <4> SUFFICES ASSUME NEW k \in 1..n - 1 PROVE IsGoAway(rest[k])
        OBVIOUS
      <4>1. 1 \in 1..n /\ k + 1 \in 1..n /\ 1 < k + 1
        BY <2>3
      <4> QED BY <2>3, <2>7, <4>1 DEF FarewellInv, GoAwaysLast, n
    <3> QED BY <2>1, <2>3, <2>5, <2>7, <3>1 DEF FarewellInv
  <2>8. CASE farewell = "queued" /\ ~IsGoAway(frame)
    <3>1. IsGoAway(outQueue[n])
      BY <2>8 DEF FarewellInv, n
    <3>2. n # 1
      BY <2>3, <2>8, <3>1
    <3>3. n - 1 \in 1..n - 1 /\ (n - 1) + 1 = n
      BY <2>3, <3>2
    <3>4. rest # <<>> /\ IsGoAway(rest[Len(rest)])
      BY <2>3, <3>1, <3>3
    <3> QED BY <2>1, <2>5, <2>8, <3>4 DEF FarewellInv, Out
  <2>9. CASE farewell \in {"buffered", "out"}
    <3>1. \A k \in 1..n - 1 : IsGoAway(rest[k])
      BY <2>3, <2>4, <2>9 DEF FarewellInv, n
    <3>2. farewell' \in {"buffered", "out"}
      BY <2>1, <2>9 DEF Out
    <3> QED BY <2>1, <2>3, <2>5, <2>9, <3>1, <3>2 DEF FarewellInv
  <2> QED BY <2>6, <2>7, <2>8, <2>9 DEF TypeOK
<1>3. CASE EndSending
  <2>1. UNCHANGED <<outQueue, manualClose>>
        /\ (manualClose => pc' \in {"idle", "send", "close", "ended"})
    BY <1>3 DEF EndSending, session, AfterSending, FarewellInv
  <2>2. CASE UNCHANGED <<transport, waiting>>
    BY <2>1, <2>2, FarewellSame DEF transport
  <2>3. CASE Flushing
    BY <2>1, <2>3, FarewellFlushing DEF Flushing
  <2> QED BY <1>3, <2>2, <2>3 DEF EndSending
<1>4. CASE CloseTransport
  BY <1>4, FarewellFlushing DEF CloseTransport, Flushing, session
<1>5. CASE Read
  <2> DEFINE frame == Head(incoming)
  <2>1. frame \in AnyFrame /\ pc = "read" /\ UNCHANGED <<manualClose, farewell>>
    BY <1>5, HeadTailType DEF Read, TypeOK, transport
  <2>2. ~manualClose
    BY <2>1 DEF FarewellInv
  <2>3. CASE outQueue' = outQueue
    BY <2>1, <2>2, <2>3, FarewellSame
  <2>4. CASE outQueue' # outQueue
    <3>1. frame.stream = 0 /\ ReadSession(frame)
      BY <1>5, <2>4 DEF Read, ReadStream
    <3>2. frame.event.code \in Nat
      BY <2>1, <3>1, AnyFrameType DEF SessionEvent
    <3> DEFINE code == frame.event.code
               pong == Ping({"ACK"}, code)
    <3>3. outQueue' = Append(outQueue, pong)
      BY <2>4, <3>1 DEF ReadSession
    <3> HIDE DEF code
    <3>4. pong \in AnyFrame /\ pong.event.kind # "GoAway"
      BY <3>2, PongType DEF code
    <3> HIDE DEF pong
    <3> QED BY <2>1, <2>2, <3>3, <3>4, FarewellAppend
  <2> QED BY <2>3, <2>4
<1>6. CASE ReadLinkEnd
  BY <1>6, FarewellSame DEF ReadLinkEnd, AtLinkEnd, session, transport
<1>7. CASE EndReading
  <2>1. ~manualClose
    BY <1>7 DEF EndReading, FarewellInv
  <2> QED BY <1>7, <2>1, FarewellSame DEF EndReading, session, transport
<1>8. CASE PollHead
  <2>1. PICK i \in StreamIds : streams[i] \in HeadState /\ PollsOne(i, streams[i])
    BY <1>8, PollHeadStep
  <2>2. UNCHANGED <<manualClose, farewell>> /\ ~manualClose
    BY <1>8, PollHeadStep DEF transport, FarewellInv
  <2>3. CASE outQueue' = outQueue
    BY <2>2, <2>3, FarewellSame
  <2>4. CASE outQueue' # outQueue
    <3> DEFINE item == PolledItem(streams[i])
               frame == Frame(i, item)
    <3>1. PollsItem(streams[i]) /\ outQueue' = Append(outQueue, frame)
      BY <2>1, <2>4 DEF PollsOne
    <3>2. item \in StreamEvent
      BY <2>1, <3>1, PolledEffect
    <3> HIDE DEF item
    <3>3. frame \in AnyFrame /\ frame.event.kind # "GoAway"
      BY <3>2, FrameType, EventType
    <3> HIDE DEF frame
    <3> QED BY <2>2, <3>1, <3>3, FarewellAppend
  <2> QED BY <2>3, <2>4
<1>9. CASE EndHeads
  <2>1. ~manualClose
    BY <1>9 DEF EndHeads, FarewellInv
  <2> QED BY <1>9, <2>1, FarewellSame DEF EndHeads, session, transport
<1>10. CASE Flush
  <2>1. ~manualClose /\ UNCHANGED <<outQueue, manualClose>>
    BY <1>10 DEF Flush, session, FarewellInv
  <2>2. CASE UNCHANGED <<transport, waiting>>
    BY <2>1, <2>2, FarewellSame DEF transport
  <2>3. CASE Flushing
    BY <2>1, <2>3, FarewellFlushing DEF Flushing
  <2> QED BY <1>10, <2>2, <2>3 DEF Flush
<1>11. CASE Open
  BY <1>11, FarewellSame DEF Open, transport
<1>12. CASE Close
  <2> DEFINE after == Append(outQueue, GoAway(0))
             n == Len(outQueue)
  <2>1. /\ outQueue' = after /\ pc' = "idle" /\ manualClose' = TRUE
        /\ farewell' = IF farewell = "no" THEN "queued" ELSE farewell
    BY <1>12 DEF Close
  <2>2. /\ n \in Nat /\ Len(after) = n + 1 /\ after # <<>>
        /\ after[n + 1] = GoAway(0)
        /\ \A k \in 1..n : after[k] = outQueue[k]
    <3>1. outQueue \in Seq(AnyFrame) /\ GoAway(0) \in AnyFrame
      BY GoAwayType DEF TypeOK
    <3> QED BY <3>1, AppendType
  <2>3. IsGoAway(GoAway(0))
    BY GoAwayType DEF IsGoAway
  <2> HIDE DEF after, n
  <2>4. GoAwaysLast(after)
    <3>1. \A j, k \in 1..n :
             j < k /\ IsGoAway(outQueue[j]) => IsGoAway(outQueue[k])
      BY DEF FarewellInv, GoAwaysLast, n
    <3> SUFFICES ASSUME NEW j \in 1..n + 1, NEW k \in 1..n + 1, j < k,
                        IsGoAway(after[j])
                 PROVE  IsGoAway(after[k])
      BY <2>2 DEF GoAwaysLast
    <3>2. CASE k = n + 1
      BY <2>2, <2>3, <3>2
    <3>3. CASE k # n + 1
      <4>1. j \in 1..n /\ k \in 1..n
        BY <2>2, <3>3
      <4> QED BY <2>2, <3>1, <4>1
    <3> QED BY <3>2, <3>3
  <2>5. IsGoAway(after[Len(after)])
    BY <2>2, <2>3
  <2>6. farewell \in {"buffered", "out"} =>
           \A k \in 1..n + 1 : IsGoAway(after[k])
    BY <2>2, <2>3 DEF FarewellInv, n
  <2> QED BY <2>1, <2>2, <2>4, <2>5, <2>6 DEF FarewellInv
<1>13. CASE \/ \E i \in StreamIds : Write(i) \/ CloseHandle(i)
            \/ \E i \in DOMAIN script : PeerSend(i)
  BY <1>13, FarewellSame
     DEF Write, CloseHandle, PeerSend, session, transport, FarewellInv
<1>14. CASE \/ PeerCloses \/ SocketDrains \/ PeerEnds \/ LinkBreaks
            \/ PeerLeaves \/ StreamCloses
  BY <1>14, FarewellSame
     DEF PeerCloses, SocketDrains, PeerEnds, LinkBreaks, PeerLeaves,
         StreamCloses, EndLink, session, transport, FarewellInv
<1>15. CASE UNCHANGED vars
  BY <1>15, FarewellSame DEF vars, session, transport, FarewellInv
<1> QED
  BY <1>1, <1>2, <1>3, <1>4, <1>5, <1>6, <1>7, <1>8, <1>9, <1>10, <1>11, <1>12,
     <1>13, <1>14, <1>15 DEF Next, PollStep

\* GoAway is the last frame of a session: whatever arrives, and whatever the
\* application does after close(), nothing but another close()'s GoAway is queued
\* or handed to the transport behind it.
THEOREM FarewellCorrect == Spec => []NothingAfterGoAway
<1>1. TypeOK /\ FarewellInv => NothingAfterGoAway
  <2> SUFFICES ASSUME TypeOK, FarewellInv PROVE NothingAfterGoAway
    OBVIOUS
  <2>1. DOMAIN outQueue = 1..Len(outQueue)
    BY DEF TypeOK
  <2> QED BY <2>1 DEF FarewellInv, GoAwaysLast, NothingAfterGoAway, Last
<1> QED BY <1>1, InitFarewell, NextFarewell, TypeCorrect, PTL DEF Spec

-----------------------------------------------------------------------------
\* The discipline of the transport's writer.

\* Every data header but the last frame is followed by its payload, and every
\* payload but the first frame follows a header; due tells whether a payload
\* may be first.
Answers(header, frame) ==
    /\ frame.event.kind = "DataChunk" /\ frame.stream = header.stream
    /\ Len(frame.event.chunk) = header.event.size
Chained(q, due) ==
    \A k \in 1..Len(q) :
        /\ q[k].event.kind = "Data" /\ k < Len(q) => Answers(q[k], q[k + 1])
        /\ q[k].event.kind = "DataChunk" =>
              IF k = 1 THEN due ELSE q[k - 1].event.kind = "Data"

\* The last frame is a header, whose payload the head has still to yield.
Unpaid(q) == q # <<>> /\ q[Len(q)].event.kind = "Data"
LeftOf(i) ==
    IF Unpaid(outQueue) /\ outQueue[Len(outQueue)].stream = i
    THEN outQueue[Len(outQueue)].event.size ELSE NoPayload

\* What the transport has been promised is the first frame of the queue, what
\* the queue promises is the next item of the head that the loop is at, and
\* only within the loop is anything promised.
QueueInv ==
    /\ Chained(outQueue, owed # {})
    /\ \A payload \in owed :
          /\ outQueue # <<>> /\ outQueue[1].event.kind = "DataChunk"
          /\ outQueue[1].stream = payload.stream
          /\ Len(outQueue[1].event.chunk) = payload.remain
    /\ Unpaid(outQueue) =>
          pc = "heads" /\ polling = {outQueue[Len(outQueue)].stream}
    /\ \A i \in StreamIds : Framed(streams[i].outs, LeftOf(i))

LEMMA ChainedTail ==
  ASSUME NEW q \in Seq(AnyFrame), q # <<>>, NEW due, Chained(q, due)
  PROVE  /\ Chained(Tail(q), q[1].event.kind = "Data")
         /\ q[1].event.kind = "DataChunk" => due
         /\ Tail(q) # <<>> => /\ Unpaid(Tail(q)) <=> Unpaid(q)
                              /\ Tail(q)[1] = q[2]
                              /\ q[1].event.kind = "Data" => Answers(q[1], q[2])
         /\ Tail(q) = <<>> => (Unpaid(q) <=> q[1].event.kind = "Data")
<1> DEFINE rest == Tail(q)
           n == Len(q)
<1>1. /\ n \in Nat \ {0} /\ Len(rest) = n - 1
      /\ \A k \in 1..n - 1 : rest[k] = q[k + 1]
  BY HeadTailType
<1>2. rest = <<>> <=> n = 1
  <2>1. rest \in Seq(AnyFrame)
    OBVIOUS
  <2> HIDE DEF rest, n
  <2>2. rest = <<>> <=> Len(rest) = 0
    BY <2>1
  <2> QED BY <1>1, <2>2
<1>3. n = Len(q)
  OBVIOUS
<1> HIDE DEF rest, n
<1>4. Chained(rest, q[1].event.kind = "Data")
  <2> SUFFICES ASSUME NEW k \in 1..n - 1
               PROVE  /\ rest[k].event.kind = "Data" /\ k < n - 1 =>
                            Answers(rest[k], rest[k + 1])
                      /\ rest[k].event.kind = "DataChunk" =>
                            IF k = 1 THEN q[1].event.kind = "Data"
                            ELSE rest[k - 1].event.kind = "Data"
    BY <1>1 DEF Chained
  <2> DEFINE j == k + 1
  <2>1. /\ j \in 1..n /\ rest[k] = q[j] /\ j # 1
        /\ k < n - 1 => j < n /\ rest[k + 1] = q[j + 1]
        /\ IF k = 1 THEN q[j - 1] = q[1] ELSE rest[k - 1] = q[j - 1]
    BY <1>1
  <2> HIDE DEF j
  <2>2. /\ q[j].event.kind = "Data" /\ j < n => Answers(q[j], q[j + 1])
        /\ q[j].event.kind = "DataChunk" => q[j - 1].event.kind = "Data"
    BY <1>3, <2>1 DEF Chained
  <2> QED BY <2>1, <2>2
<1>5. /\ q[1].event.kind = "DataChunk" => due
      /\ n > 1 /\ q[1].event.kind = "Data" => Answers(q[1], q[2])
  <2>1. 1 \in 1..n
    BY <1>1
  <2>2. n > 1 => 1 < n /\ 1 + 1 = 2
    OBVIOUS
  <2> QED BY <1>1, <1>3, <2>1, <2>2 DEF Chained
<1>6. n > 1 => /\ rest[1] = q[2] /\ rest[Len(rest)] = q[n]
  BY <1>1
<1>7. n > 1 => (Unpaid(rest) <=> Unpaid(q))
  BY <1>2, <1>1, <1>3, <1>6 DEF Unpaid
<1>8. n = 1 => (Unpaid(q) <=> q[1].event.kind = "Data")
  BY <1>3 DEF Unpaid
<1>9. rest # <<>> => n > 1
  BY <1>1, <1>2
<1>10. /\ rest # <<>> => /\ Unpaid(rest) <=> Unpaid(q)
                         /\ rest[1] = q[2]
                         /\ q[1].event.kind = "Data" => Answers(q[1], q[2])
       /\ rest = <<>> => (Unpaid(q) <=> q[1].event.kind = "Data")
  BY <1>2, <1>5, <1>6, <1>7, <1>8, <1>9
<1> QED BY <1>4, <1>5, <1>10 DEF rest

LEMMA ChainedAppend ==
  ASSUME NEW q \in Seq(AnyFrame), NEW due, Chained(q, due),
         NEW frame \in AnyFrame,
         IF Unpaid(q) THEN Answers(q[Len(q)], frame)
                     ELSE frame.event.kind # "DataChunk"
  PROVE  LET after == Append(q, frame) IN
         /\ Chained(after, due) /\ after # <<>>
         /\ after[Len(after)] = frame
         /\ q # <<>> => after[1] = q[1]
<1> DEFINE after == Append(q, frame)
           n == Len(q)
<1>1. /\ n \in Nat /\ Len(after) = n + 1 /\ after[n + 1] = frame
      /\ \A k \in 1..n : after[k] = q[k]
      /\ after # <<>>
  BY AppendType
<1>2. q # <<>> <=> n >= 1
  BY <1>1
<1>3. n = Len(q)
  OBVIOUS
<1> HIDE DEF after, n
<1>4. ASSUME NEW k \in 1..n + 1
      PROVE  /\ after[k].event.kind = "Data" /\ k < n + 1 =>
                   Answers(after[k], after[k + 1])
             /\ after[k].event.kind = "DataChunk" =>
                   IF k = 1 THEN due ELSE after[k - 1].event.kind = "Data"
  <2>1. CASE k = n + 1
    <3>1. after[k].event.kind = "DataChunk" =>
             n >= 1 /\ q[n].event.kind = "Data"
      BY <1>1, <1>2, <1>3, <2>1 DEF Unpaid
    <3>2. n >= 1 => k # 1 /\ after[k - 1] = q[n]
      BY <1>1, <2>1
    <3> QED BY <2>1, <3>1, <3>2, <1>1
  <2>2. CASE k = n
    <3>1. n >= 1 /\ after[k] = q[n] /\ after[k + 1] = frame
      BY <1>1, <2>2
    <3>2. q[n].event.kind = "Data" => Answers(q[n], frame)
      BY <1>2, <1>3, <3>1 DEF Unpaid
    <3>3. k # 1 => after[k - 1] = q[k - 1]
      BY <1>1, <2>2
    <3>4. q[k].event.kind = "DataChunk" =>
             IF k = 1 THEN due ELSE q[k - 1].event.kind = "Data"
      BY <1>1, <1>3, <2>2, <3>1 DEF Chained
    <3> QED BY <2>2, <3>1, <3>2, <3>3, <3>4
  <2>3. CASE k < n
    <3>1. /\ k \in 1..n /\ after[k] = q[k] /\ after[k + 1] = q[k + 1]
          /\ k # 1 => after[k - 1] = q[k - 1]
      BY <1>1, <2>3
    <3>2. /\ q[k].event.kind = "Data" => Answers(q[k], q[k + 1])
          /\ q[k].event.kind = "DataChunk" =>
                IF k = 1 THEN due ELSE q[k - 1].event.kind = "Data"
      BY <1>3, <2>3, <3>1 DEF Chained
    <3> QED BY <3>1, <3>2
  <2> QED BY <1>1, <2>1, <2>2, <2>3
<1>5. Chained(after, due)
  BY <1>1, <1>4 DEF Chained
<1>6. after[Len(after)] = frame /\ (q # <<>> => after[1] = q[1])
  BY <1>1, <1>2
<1> QED BY <1>1, <1>5, <1>6 DEF after

\* A step that does not reach the queue.
LEMMA QueueSame ==
  ASSUME TypeOK, QueueInv, UNCHANGED <<outQueue, owed>>,
         ~Unpaid(outQueue) \/ (pc' = pc /\ polling' = polling),
         \A i \in StreamIds : Framed(streams'[i].outs, LeftOf(i))
  PROVE  QueueInv'
<1>1. \A i \in StreamIds : LeftOf(i)' = LeftOf(i)
  BY DEF LeftOf, Unpaid
<1>2. Unpaid(outQueue)' <=> Unpaid(outQueue)
  BY DEF Unpaid
<1> QED BY <1>1, <1>2 DEF QueueInv

\* Outside the loop over the heads nothing is promised.
LEMMA Paid ==
  ASSUME TypeOK, QueueInv, pc # "heads" \/ polling = {}
  PROVE  /\ ~Unpaid(outQueue)
         /\ \A i \in StreamIds : LeftOf(i) = NoPayload
         /\ \A i \in StreamIds : Framed(streams[i].outs, NoPayload)
<1>1. ~Unpaid(outQueue)
  BY DEF QueueInv
<1>2. \A i \in StreamIds : LeftOf(i) = NoPayload
  BY <1>1 DEF LeftOf
<1> QED BY <1>1, <1>2 DEF QueueInv

\* The session queues a frame of its own.
LEMMA QueueControl ==
  ASSUME TypeOK, QueueInv, pc # "heads", NEW frame \in AnyFrame,
         frame.event.kind \notin {"Data", "DataChunk"},
         outQueue' = Append(outQueue, frame), UNCHANGED <<streams, owed>>
  PROVE  QueueInv'
<1>1. /\ ~Unpaid(outQueue)
      /\ \A i \in StreamIds : Framed(streams[i].outs, NoPayload)
  BY Paid
<1>2. outQueue \in Seq(AnyFrame) /\ Chained(outQueue, owed # {})
  BY DEF TypeOK, QueueInv
<1>3. /\ Chained(outQueue', owed # {}) /\ outQueue' # <<>>
      /\ outQueue'[Len(outQueue')] = frame
      /\ outQueue # <<>> => outQueue'[1] = outQueue[1]
  <2> DEFINE after == Append(outQueue, frame)
             due == owed # {}
  <2> HIDE DEF due
  <2>1. Chained(outQueue, due)
    BY <1>2 DEF due
  <2>2. /\ Chained(after, due) /\ after # <<>>
        /\ after[Len(after)] = frame
        /\ outQueue # <<>> => after[1] = outQueue[1]
    BY <1>1, <1>2, <2>1, ChainedAppend
  <2> HIDE DEF after
  <2> QED BY <2>2 DEF after, due
<1>4. ~Unpaid(outQueue')
  BY <1>3 DEF Unpaid
<1>5. \A i \in StreamIds : LeftOf(i)' = NoPayload
  BY <1>4 DEF LeftOf, Unpaid
<1>6. Chained(outQueue, owed # {})'
  BY <1>3 DEF Chained
<1> QED BY <1>1, <1>3, <1>4, <1>5, <1>6 DEF QueueInv, Unpaid

LEMMA InitQueue == Init => QueueInv
<1> SUFFICES ASSUME Init PROVE QueueInv
  OBVIOUS
<1>1. outQueue = <<>> /\ owed = {} /\ Len(<<>>) = 0
  BY DEF Init
<1>2. ~Unpaid(outQueue) /\ \A i \in StreamIds : LeftOf(i) = NoPayload
  BY <1>1 DEF Unpaid, LeftOf
<1>3. \A i \in StreamIds : streams[i].outs = <<>>
  BY NewStreams DEF Init
<1>4. Chained(outQueue, owed # {})
  BY <1>1 DEF Chained
<1> QED BY <1>1, <1>2, <1>3, <1>4, FramedNew DEF QueueInv

LEMMA SendQueue ==
  ASSUME TypeOK, QueueInv, Send
  PROVE  WriterAccepts(owed, Head(outQueue)) /\ QueueInv'
<1> DEFINE q == outQueue
           frame == q[1]
           rest == Tail(q)
           due == owed # {}
           paid == frame.event.kind = "Data"
<1>1. /\ outQueue' = rest /\ owed' = WriterOwes(owed, Head(q))
      /\ streams' = streams /\ pc' = pc /\ pc # "heads"
      /\ q \in Seq(AnyFrame) /\ q # <<>>
  BY DEF Send, Handing, TypeOK
<1>2. /\ ~Unpaid(q) /\ \A i \in StreamIds : LeftOf(i) = NoPayload
      /\ \A i \in StreamIds : Framed(streams[i].outs, NoPayload)
  BY <1>1, Paid
<1>3. /\ Chained(q, due)
      /\ \A payload \in owed :
            /\ frame.event.kind = "DataChunk"
            /\ frame.stream = payload.stream
            /\ Len(frame.event.chunk) = payload.remain
  BY DEF QueueInv
<1>4. frame \in AnyFrame /\ Head(q) = frame
  BY <1>1, HeadTailType
<1> HIDE DEF q, frame, due
<1>5. /\ Chained(rest, q[1].event.kind = "Data")
      /\ q[1].event.kind = "DataChunk" => due
      /\ rest # <<>> => /\ Unpaid(rest) <=> Unpaid(q)
                        /\ rest[1] = q[2]
                        /\ q[1].event.kind = "Data" => Answers(q[1], q[2])
      /\ rest = <<>> => (Unpaid(q) <=> q[1].event.kind = "Data")
  BY <1>1, <1>3, ChainedTail
<1> HIDE DEF rest
<1>6. /\ frame.event.kind = "DataChunk" => due
      /\ paid => rest # <<>> /\ Answers(frame, rest[1])
      /\ ~Unpaid(rest) /\ Chained(rest, paid)
  <2>1. rest # <<>> \/ ~Unpaid(rest)
    BY DEF Unpaid
  <2> QED BY <1>2, <1>5, <2>1 DEF frame
<1>7. frame.event.kind = "DataChunk" => Len(frame.event.chunk) \in Nat
  <2>1. frame.event \in SessionEvent \/ frame.event \in StreamEvent
    BY <1>4, AnyFrameType
  <2>2. frame.event \in SessionEvent => frame.event.kind # "DataChunk"
    BY DEF SessionEvent
  <2> QED BY <2>1, <2>2, EventType DEF Chunk
<1>8. WriterAccepts(owed, Head(q))
  BY <1>3, <1>4, <1>6, <1>7 DEF WriterAccepts, due
<1>9. /\ owed' # {} <=> paid
      /\ \A payload \in owed' : /\ payload.stream = frame.stream
                                /\ payload.remain = frame.event.size
  <2>1. CASE frame.event.kind = "Data"
    <3> DEFINE payload == [stream |-> frame.stream,
                           remain |-> frame.event.size]
    <3>1. owed' = {payload}
      BY <1>1, <1>4, <2>1 DEF WriterOwes
    <3>2. /\ payload.stream = frame.stream
          /\ payload.remain = frame.event.size
      OBVIOUS
    <3> HIDE DEF payload
    <3> QED BY <2>1, <3>1, <3>2
  <2>2. CASE frame.event.kind = "DataChunk"
    <3>1. {p \in owed : p.remain > Len(frame.event.chunk)} = {}
      BY <1>3, <1>7, <2>2
    <3>2. owed' = {}
      BY <1>1, <1>4, <2>2, <3>1 DEF WriterOwes
    <3> QED BY <2>2, <3>2
  <2>3. CASE frame.event.kind \notin {"Data", "DataChunk"}
    <3>1. owed = {}
      BY <1>3, <2>3
    <3>2. owed' = owed
      BY <1>1, <1>4, <2>3 DEF WriterOwes
    <3> QED BY <2>3, <3>1, <3>2
  <2> QED BY <2>1, <2>2, <2>3
<1>10. \A payload \in owed' :
          /\ rest # <<>> /\ rest[1].event.kind = "DataChunk"
          /\ rest[1].stream = payload.stream
          /\ Len(rest[1].event.chunk) = payload.remain
  BY <1>6, <1>9 DEF Answers
<1>11. \A i \in StreamIds : LeftOf(i)' = NoPayload
  BY <1>1, <1>6 DEF LeftOf, Unpaid
<1>12. Chained(rest, owed' # {})
  BY <1>6, <1>9 DEF Chained
<1>13. QueueInv'
  BY <1>1, <1>2, <1>6, <1>10, <1>11, <1>12 DEF QueueInv, Unpaid, Chained
<1> QED BY <1>8, <1>13 DEF q

\* The loop queues the next item of a head.
LEMMA PollQueue ==
  ASSUME TypeOK, QueueInv, PollHead
  PROVE  QueueInv'
<1>1. PICK i \in StreamIds :
         /\ i \in unpolled /\ (polling = {} \/ polling = {i})
         /\ streams[i] \in HeadState
         /\ PollsOne(i, streams[i])
  BY PollHeadStep
<1>2. pc = "heads" /\ pc' = pc /\ owed' = owed
  BY PollHeadStep DEF transport
<1> DEFINE s == streams[i]
           left == LeftOf(i)
           filled == Filled(s)
<1>3. /\ streams \in [StreamIds -> HeadState] /\ outQueue \in Seq(AnyFrame)
      /\ s \in HeadState
  BY <1>1 DEF TypeOK
<1>4. Framed(s.outs, left) /\ Framed(filled.outs, left)
  BY <1>3, FramedFilled DEF QueueInv
<1>5. ASSUME NEW j \in StreamIds, j # i PROVE LeftOf(j) = NoPayload
  BY <1>1, <1>5 DEF LeftOf, QueueInv
<1>6. /\ Unpaid(outQueue) =>
            /\ outQueue[Len(outQueue)].stream = i
            /\ left = outQueue[Len(outQueue)].event.size
      /\ ~Unpaid(outQueue) => left = NoPayload
  BY <1>1 DEF LeftOf, QueueInv
<1>7. left # NoPayload <=> Unpaid(outQueue)
  <2>1. ASSUME Unpaid(outQueue)
        PROVE  outQueue[Len(outQueue)].event.size \in Nat
    <3> DEFINE frame == outQueue[Len(outQueue)]
    <3>1. outQueue # <<>> /\ frame.event.kind = "Data"
      BY <2>1 DEF Unpaid
    <3>2. frame \in AnyFrame
      BY <1>3, <3>1
    <3> HIDE DEF frame
    <3>3. frame.event \in SessionEvent \/ frame.event \in StreamEvent
      BY <3>2, AnyFrameType
    <3>4. frame.event.size \in Nat
      BY <3>1, <3>3, EventType DEF SessionEvent
    <3> QED BY <3>4 DEF frame
  <2> HIDE DEF left
  <2> QED BY <1>6, <2>1, NoPayloadAssumption
<1> HIDE DEF s, left, filled
<1>8. CASE /\ ~PollsNone(s) /\ PollsItem(s)
           /\ streams' = [streams EXCEPT ![i] = Polled(s)]
           /\ outQueue' = Append(outQueue, Frame(i, PolledItem(s)))
           /\ polling' = {i}
  <2> DEFINE item == PolledItem(s)
             frame == Frame(i, item)
             due == owed # {}
             after == Append(outQueue, frame)
  <2>1. /\ filled.outs # <<>> /\ Polled(s).outs = Tail(filled.outs)
        /\ item = Head(filled.outs) /\ item \in StreamEvent
        /\ filled.outs \in Seq(StreamEvent)
    BY <1>3, <1>8, PolledEffect, FilledEffect DEF filled, HeadState
  <2>2. Framed(Polled(s).outs, Owed(item, left))
    BY <1>4, <2>1, FramedTail
  <2>3. item = filled.outs[1]
    BY <2>1
  <2>4. /\ left # NoPayload => item.kind = "DataChunk" /\ Len(item.chunk) = left
        /\ item.kind = "DataChunk" => left # NoPayload
    <3>1. 1 \in 1..Len(filled.outs)
      BY <2>1
    <3> QED BY <1>4, <2>3, <3>1 DEF Framed
  <2> HIDE DEF item
  <2>5. frame \in AnyFrame /\ frame.stream = i /\ frame.event = item
    BY <2>1, FrameType
  <2> HIDE DEF frame
  <2>6. IF Unpaid(outQueue) THEN Answers(outQueue[Len(outQueue)], frame)
        ELSE frame.event.kind # "DataChunk"
    BY <1>6, <1>7, <2>4, <2>5 DEF Answers
  <2>7. Chained(outQueue, due)
    BY DEF QueueInv
  <2> HIDE DEF due
  <2>8. /\ Chained(after, due) /\ after # <<>>
        /\ after[Len(after)] = frame
        /\ outQueue # <<>> => after[1] = outQueue[1]
    BY <1>3, <2>5, <2>6, <2>7, ChainedAppend
  <2> HIDE DEF after
  <2>9. outQueue' = after
    BY <1>8 DEF after, frame, item
  <2>10. Unpaid(outQueue)' <=> item.kind = "Data"
    BY <2>5, <2>8, <2>9 DEF Unpaid
  <2>11. LeftOf(i)' = Owed(item, left)
    <3>1. LeftOf(i)' = IF item.kind = "Data" THEN item.size ELSE NoPayload
      BY <2>5, <2>8, <2>9 DEF LeftOf, Unpaid
    <3>2. item.kind = "WindowUpdate" => left = NoPayload
      BY <2>4
    <3> QED BY <2>1, <3>1, <3>2, EventType DEF Owed
  <2>12. ASSUME NEW j \in StreamIds, j # i
         PROVE  LeftOf(j)' = NoPayload
    BY <2>5, <2>8, <2>9, <2>12 DEF LeftOf
  <2>13. ASSUME NEW j \in StreamIds PROVE Framed(streams'[j].outs, LeftOf(j)')
    <3>1. CASE j = i
      BY <1>3, <1>8, <2>2, <2>11, <3>1
    <3>2. CASE j # i
      <4>1. streams'[j] = streams[j]
        BY <1>3, <1>8, <3>2
      <4>2. Framed(streams[j].outs, NoPayload)
        BY <1>5, <3>2 DEF QueueInv
      <4> QED BY <2>12, <3>2, <4>1, <4>2
    <3> QED BY <3>1, <3>2
  <2>14. Unpaid(outQueue)' =>
            polling' = {outQueue'[Len(outQueue')].stream}
    BY <1>8, <2>5, <2>8, <2>9
  <2>15. Chained(outQueue, owed # {})'
    BY <1>2, <2>8, <2>9 DEF due, Chained
  <2> QED BY <1>2, <2>8, <2>9, <2>13, <2>14, <2>15 DEF QueueInv
<1>9. CASE /\ \/ ~PollsItem(s) /\ streams' = [streams EXCEPT ![i] = Polled(s)]
              \/ PollsNone(s) /\ streams' = [streams EXCEPT ![i] = RemoveHead(s)]
           /\ polling' = {} /\ outQueue' = outQueue
  <2>1. left = NoPayload
    <3>1. s.outs = <<>> \/ filled.outs = <<>>
      BY <1>9 DEF PollsNone, PollsItem, filled
    <3> QED BY <1>4, <3>1 DEF Framed
  <2>2. ~Unpaid(outQueue)
    BY <1>7, <2>1
  <2>3. streams'[i].outs = <<>>
    <3>1. CASE ~PollsItem(s) /\ streams' = [streams EXCEPT ![i] = Polled(s)]
      BY <1>3, <3>1, PolledEffect
    <3>2. CASE PollsNone(s) /\ streams' = [streams EXCEPT ![i] = RemoveHead(s)]
      BY <1>3, <3>2, RemoveHeadEffect
    <3> QED BY <1>9, <3>1, <3>2
  <2>4. ASSUME NEW j \in StreamIds PROVE Framed(streams'[j].outs, LeftOf(j))
    <3>1. CASE j = i
      BY <2>1, <2>3, <3>1, FramedNew DEF left
    <3>2. CASE j # i
      <4>1. streams'[j] = streams[j]
        BY <1>3, <1>9, <3>2
      <4> QED BY <4>1 DEF QueueInv
    <3> QED BY <3>1, <3>2
  <2> QED BY <1>2, <1>9, <2>2, <2>4, QueueSame
<1> QED
  <2>1. PollsOne(i, s)
    BY <1>1 DEF s
  <2> QED BY <1>8, <1>9, <2>1 DEF PollsOne

LEMMA NextQueue == TypeOK /\ QueueInv /\ [Next]_vars => QueueInv'
<1> SUFFICES ASSUME TypeOK, QueueInv, [Next]_vars PROVE QueueInv'
  OBVIOUS
<1> DEFINE Framing == \A i \in StreamIds : Framed(streams[i].outs, LeftOf(i))
<1>1. Framing /\ streams \in [StreamIds -> HeadState]
  BY DEF QueueInv, TypeOK
<1>2. CASE /\ StartPoll \/ EndSending \/ CloseTransport \/ ReadLinkEnd
              \/ EndReading \/ Flush
  <2>1. pc # "heads" /\ UNCHANGED <<outQueue, owed, streams>>
    BY <1>2 DEF StartPoll, EndSending, CloseTransport, ReadLinkEnd, EndReading,
                Flush, Flushing, Flushed, session, transport
  <2> QED BY <1>1, <2>1, Paid, QueueSame
<1>3. CASE Send
  BY <1>3, SendQueue
<1>4. CASE Read
  <2> DEFINE frame == Head(incoming)
  <2>1. frame \in AnyFrame /\ pc = "read" /\ owed' = owed
    BY <1>4, HeadTailType DEF Read, TypeOK, transport
  <2>2. /\ ~Unpaid(outQueue)
        /\ \A i \in StreamIds : LeftOf(i) = NoPayload
    BY <2>1, Paid
  <2>3. CASE frame.stream = 0
    <3>1. ReadSession(frame) /\ streams' = streams
      BY <1>4, <2>3 DEF Read, ReadSession
    <3>2. CASE outQueue' = outQueue
      BY <1>1, <2>1, <2>2, <3>1, <3>2, QueueSame
    <3>3. CASE outQueue' # outQueue
      <4> DEFINE code == frame.event.code
                 pong == Ping({"ACK"}, code)
      <4>1. code \in Nat
        BY <2>1, <2>3, AnyFrameType DEF SessionEvent
      <4>2. outQueue' = Append(outQueue, pong)
        BY <3>1, <3>3 DEF ReadSession
      <4> HIDE DEF code
      <4>3. pong \in AnyFrame /\ pong.event.kind \notin {"Data", "DataChunk"}
        BY <4>1, PongType
      <4> HIDE DEF pong
      <4> QED BY <2>1, <3>1, <4>2, <4>3, QueueControl
    <3> QED BY <3>2, <3>3
  <2>4. CASE frame.stream # 0
    <3>1. ReadStream(frame)
      BY <1>4, <2>4 DEF Read
    <3>2. outQueue' = outQueue
      BY <3>1 DEF ReadStream
    <3>3. ASSUME NEW i \in StreamIds
          PROVE  Framed(streams'[i].outs, NoPayload)
      <4>1. /\ streams[i] \in HeadState /\ AcceptStream \in HeadState
            /\ Framed(streams[i].outs, NoPayload)
        BY <1>1, <2>2, NewStreams
      <4>2. Framed(AcceptStream.outs, NoPayload)
        <5>1. PICK flags \in SUBSET Flag : flags = {"ACK"}
          BY DEF Flag
        <5>2. AcceptStream.outs = <<WindowUpdate({"ACK"}, InitialWindow)>>
          BY NewHeadEffect DEF AcceptStream, Flag
        <5>3. /\ WindowUpdate(flags, InitialWindow) \in StreamEvent
              /\ WindowUpdate(flags, InitialWindow).kind = "WindowUpdate"
          BY WindowUpdateType, WindowAssumption
        <5> QED BY <5>1, <5>2, <5>3, FramedNew
      <4>3. \/ streams'[i] = streams[i]
            \/ \E s \in {streams[i], AcceptStream} :
                  QueuesUpdate(s, streams'[i])
        BY <2>1, <2>4, <3>1, ReadStreamEffect
      <4>4. CASE streams'[i] = streams[i]
        BY <4>1, <4>4
      <4>5. CASE QueuesUpdate(streams[i], streams'[i])
        BY <4>1, <4>5, FramedQueues
      <4>6. CASE QueuesUpdate(AcceptStream, streams'[i])
        BY <4>1, <4>2, <4>6, FramedQueues
      <4> QED BY <4>3, <4>4, <4>5, <4>6
    <3> QED BY <2>1, <2>2, <3>2, <3>3, QueueSame
  <2> QED BY <2>3, <2>4
<1>5. CASE PollHead
  BY <1>5, PollQueue
<1>6. CASE EndHeads
  <2>1. polling = {} /\ UNCHANGED <<outQueue, owed, streams>>
    BY <1>6 DEF EndHeads, TypeOK, session, transport
  <2> QED BY <1>1, <2>1, Paid, QueueSame
<1>7. CASE Open
  <2>1. pc # "heads" /\ UNCHANGED <<outQueue, owed>>
        /\ streams' = [streams EXCEPT ![nextStreamId] = OpenStream]
    BY <1>7 DEF Open, transport
  <2>2. Framed(OpenStream.outs, NoPayload)
    <3>1. PICK flags \in SUBSET Flag : flags = {"SYN"}
      BY DEF Flag
    <3>2. OpenStream.outs = <<WindowUpdate({"SYN"}, InitialWindow)>>
      BY NewHeadEffect DEF OpenStream, Flag
    <3>3. /\ WindowUpdate(flags, InitialWindow) \in StreamEvent
          /\ WindowUpdate(flags, InitialWindow).kind = "WindowUpdate"
      BY WindowUpdateType, WindowAssumption
    <3> QED BY <3>1, <3>2, <3>3, FramedNew
  <2>3. /\ ~Unpaid(outQueue)
        /\ \A i \in StreamIds : LeftOf(i) = NoPayload
    BY <2>1, Paid
  <2>4. ASSUME NEW i \in StreamIds PROVE Framed(streams'[i].outs, LeftOf(i))
    <3>1. CASE i = nextStreamId
      BY <1>1, <2>1, <2>2, <2>3, <3>1
    <3>2. CASE i # nextStreamId
      BY <1>1, <2>1, <3>2
    <3> QED BY <3>1, <3>2
  <2> QED BY <2>1, <2>3, <2>4, QueueSame
<1>8. CASE Close
  <2>1. pc # "heads" /\ UNCHANGED <<streams, owed>>
        /\ outQueue' = Append(outQueue, GoAway(0))
    BY <1>8 DEF Close
  <2>2. GoAway(0) \in AnyFrame
        /\ GoAway(0).event.kind \notin {"Data", "DataChunk"}
    BY GoAwayType
  <2> QED BY <2>1, <2>2, QueueControl
<1>9. ASSUME NEW i \in StreamIds, Write(i) \/ CloseHandle(i)
      PROVE  QueueInv'
  <2>1. PICK t \in HeadState : /\ streams' = [streams EXCEPT ![i] = t]
                               /\ t.outs = streams[i].outs
    <3>1. CASE Write(i)
      <4>1. PICK v \in Byte :
               streams' = [streams EXCEPT ![i] = PollWrite(@, <<v>>)]
        BY <3>1 DEF Write
      <4>2. <<v>> \in Chunk
        BY DEF Chunk
      <4>3. /\ PollWrite(streams[i], <<v>>) \in HeadState
            /\ PollWrite(streams[i], <<v>>).outs = streams[i].outs
        BY <1>1, <4>2, PollWriteEffect DEF HeadKept
      <4> QED BY <1>1, <4>1, <4>3
    <3>2. CASE CloseHandle(i)
      <4>1. streams' = [streams EXCEPT ![i] = PollClose(@)]
        BY <3>2 DEF CloseHandle
      <4>2. /\ PollClose(streams[i]) \in HeadState
            /\ PollClose(streams[i]).outs = streams[i].outs
        BY <1>1, PollCloseEffect DEF HeadKept
      <4> QED BY <1>1, <4>1, <4>2
    <3> QED BY <1>9, <3>1, <3>2
  <2>2. UNCHANGED <<pc, polling, outQueue, owed>>
    BY <1>9 DEF Write, CloseHandle, local, transport
  <2>3. \A j \in StreamIds : streams'[j].outs = streams[j].outs
    BY <1>1, <2>1
  <2> QED BY <1>1, <2>2, <2>3, QueueSame
<1>10. CASE \/ \E i \in DOMAIN script : PeerSend(i)
            \/ PeerCloses \/ SocketDrains \/ PeerEnds \/ LinkBreaks \/ PeerLeaves
            \/ StreamCloses
  <2>1. UNCHANGED <<pc, polling, outQueue, owed, streams>>
    BY <1>10 DEF PeerSend, PeerCloses, SocketDrains, PeerEnds, LinkBreaks,
                 PeerLeaves, StreamCloses, EndLink, session, local, transport
  <2> QED BY <1>1, <2>1, QueueSame
<1>11. CASE UNCHANGED vars
  <2>1. UNCHANGED <<pc, polling, outQueue, owed, streams>>
    BY <1>11 DEF vars, session, local, transport
  <2> QED BY <1>1, <2>1, QueueSame
<1> QED
  BY <1>2, <1>3, <1>4, <1>5, <1>6, <1>7, <1>8, <1>9, <1>10, <1>11
     DEF Next, PollStep

\* Only handing a frame over makes the queue shorter.
LEMMA ShorterQueue ==
  ASSUME TypeOK, [Next]_vars
  PROVE  Send \/ ~(Len(outQueue') < Len(outQueue))
<1>1. outQueue \in Seq(AnyFrame)
  BY DEF TypeOK
<1>2. Send \/ outQueue' = outQueue
      \/ \E frame \in AnyFrame : outQueue' = Append(outQueue, frame)
  <2>1. CASE Read
    <3>1. Head(incoming) \in AnyFrame
      BY <2>1, HeadTailType DEF Read, TypeOK
    <3>2. CASE Head(incoming).stream = 0
      <4>1. Head(incoming).event.code \in Nat
        BY <3>1, <3>2, AnyFrameType DEF SessionEvent
      <4> QED BY <2>1, <3>2, <4>1, PongType DEF Read, ReadSession
    <3>3. CASE Head(incoming).stream # 0
      BY <2>1, <3>3 DEF Read, ReadStream
    <3> QED BY <3>2, <3>3
  <2>2. CASE PollHead
    <3>1. PICK i \in StreamIds :
             streams[i] \in HeadState /\ PollsOne(i, streams[i])
      BY <2>2, PollHeadStep
    <3>2. PollsItem(streams[i]) =>
             Frame(i, PolledItem(streams[i])) \in AnyFrame
      BY <3>1, PolledEffect, FrameType
    <3> QED BY <3>1, <3>2 DEF PollsOne
  <2>3. CASE Close
    BY <2>3, GoAwayType DEF Close
  <2>4. CASE \/ StartPoll \/ EndSending \/ CloseTransport \/ ReadLinkEnd
             \/ EndReading \/ EndHeads \/ Flush \/ Open \/ UNCHANGED vars
    BY <2>4 DEF StartPoll, EndSending, CloseTransport, ReadLinkEnd, EndReading,
                EndHeads, Flush, Open, vars, session
  <2>5. CASE \/ \E i \in StreamIds : Write(i) \/ CloseHandle(i)
             \/ \E i \in DOMAIN script : PeerSend(i)
             \/ PeerCloses \/ SocketDrains \/ PeerEnds \/ LinkBreaks
             \/ PeerLeaves \/ StreamCloses
    BY <2>5 DEF Write, CloseHandle, PeerSend, PeerCloses, SocketDrains,
                PeerEnds, LinkBreaks, PeerLeaves, StreamCloses, EndLink, session
  <2> QED BY <2>1, <2>2, <2>3, <2>4, <2>5 DEF Next, PollStep
<1>3. ASSUME NEW frame \in AnyFrame, outQueue' = Append(outQueue, frame)
      PROVE  ~(Len(outQueue') < Len(outQueue))
  <2>1. Len(Append(outQueue, frame)) = Len(outQueue) + 1
        /\ Len(outQueue) \in Nat
    BY <1>1, AppendType
  <2>2. Len(outQueue') = Len(outQueue) + 1
    BY <1>3, <2>1
  <2> QED BY <2>1, <2>2
<1>4. Len(outQueue) \in Nat
  BY <1>1
<1> QED BY <1>2, <1>3, <1>4

\* Whatever the streams have to send and whenever the socket refuses to take
\* more, FrameWriter gets the frames in an order it accepts: no pong, GoAway or
\* frame of another stream comes between a data header and its payload, also
\* when the transport is full in between.
THEOREM DisciplineCorrect == Spec => TransportDiscipline
<1>1. TypeOK /\ QueueInv /\ [Next]_vars =>
         [Len(outQueue') < Len(outQueue) =>
             WriterAccepts(owed, Head(outQueue))]_vars
  BY ShorterQueue, SendQueue
<1>2. Spec => [](TypeOK /\ QueueInv)
  BY TypeCorrect, InitQueue, NextQueue, PTL DEF Spec
<1> QED BY <1>1, <1>2, PTL DEF Spec, TransportDiscipline

-----------------------------------------------------------------------------
\* No lost wakeup.  A poll that has stopped reading, and the sleep after it,
\* rely on the wakers that the poll left behind: with the socket for reading,
\* with each head that waits for its handle, and with the socket for writing.
Looping == pc \in {"heads", "resend", "flush"} \/ (pc = "idle" /\ ~manualClose)

ReadWake ==
    /\ pc = "close" => manualClose
    /\ Looping /\ ~woken =>
          incoming = <<>> /\ link = "up" /\ ReadWaker \in waiting

Awaits(i) ==
    /\ Waits(streams[i])
    /\ \/ streams[i].send < ChunkCapacity \/ ~streams[i].txOpen
       \/ HeadWaker(i) \in waiting
HeadWake ==
    /\ \A i \in StreamIds : NoEmpty(streams[i].outbox)
    /\ Looping /\ ~woken =>
          \A i \in StreamIds : streams[i].alive => i \in unpolled \/ Awaits(i)

AwaitsRoom == WriteWaker \in waiting /\ link # "down" /\ socket = SocketRoom
AwaitsClose == WriteWaker \in waiting /\ closing /\ link # "down"
WriteWake ==
    /\ pc \in {"close", "flush", "idle"} /\ ~woken =>
          outQueue = <<>> \/ (AwaitsRoom /\ Len(buffer) >= MaxWriteBuffer)
    /\ pc = "idle" /\ manualClose /\ ~woken =>
          \/ AwaitsRoom /\ buffer # <<>>
          \/ AwaitsClose /\ buffer = <<>>

LEMMA WakersDiffer ==
  /\ ReadWaker # WriteWaker
  /\ \A i \in StreamIds : HeadWaker(i) \notin {ReadWaker, WriteWaker}
  /\ \A i, j \in StreamIds : HeadWaker(i) = HeadWaker(j) => i = j
  BY DEF ReadWaker, WriteWaker, HeadWaker

\* A waker fires or stays.
LEMMA WakeEffect ==
  ASSUME NEW wakers, Wake(wakers), ~woken'
  PROVE  ~woken /\ \A w \in waiting : w \notin wakers /\ w \in waiting'
  BY DEF Wake

\* The steps of the application and of the world.
EnvStep ==
    \/ \E i \in StreamIds : Write(i) \/ CloseHandle(i)
    \/ \E i \in DOMAIN script : PeerSend(i)
    \/ PeerCloses \/ SocketDrains \/ PeerEnds \/ LinkBreaks \/ PeerLeaves
    \/ StreamCloses

LEMMA EnvEffect ==
  ASSUME EnvStep, ~woken'
  PROVE  /\ ~woken
         /\ UNCHANGED <<pc, nextStreamId, outQueue, manualClose, sent, unpolled,
                        polling, buffer, closing>>
         /\ \/ UNCHANGED <<incoming, link>>
            \/ ReadWaker \notin waiting
         /\ \/ UNCHANGED socket /\ (link' = "down" => link = "down")
            \/ WriteWaker \notin waiting
         /\ \A w \in {ReadWaker, WriteWaker} : w \in waiting => w \in waiting'
<1>1. CASE \E i \in StreamIds : Write(i) \/ CloseHandle(i)
  <2>1. PICK i \in StreamIds : Write(i) \/ CloseHandle(i)
    BY <1>1
  <2>2. Wake({HeadWaker(i)})
    BY <2>1 DEF Write, CloseHandle
  <2>3. /\ ~woken
        /\ \A w \in {ReadWaker, WriteWaker} : w \in waiting => w \in waiting'
    BY <2>2, WakersDiffer, WakeEffect
  <2> QED BY <2>1, <2>3 DEF Write, CloseHandle, local, transport, world
<1>2. CASE \E i \in DOMAIN script : PeerSend(i)
  <2>1. Wake({ReadWaker})
    BY <1>2 DEF PeerSend
  <2>2. /\ ~woken /\ ReadWaker \notin waiting
        /\ WriteWaker \in waiting => WriteWaker \in waiting'
    BY <2>1, WakersDiffer, WakeEffect
  <2> QED BY <1>2, <2>2 DEF PeerSend, session, local, transport
<1>3. CASE PeerCloses
  BY <1>3 DEF PeerCloses, session, local, transport
<1>4. CASE SocketDrains
  <2>1. Wake({WriteWaker})
    BY <1>4 DEF SocketDrains
  <2>2. /\ ~woken /\ WriteWaker \notin waiting
        /\ ReadWaker \in waiting => ReadWaker \in waiting'
    BY <2>1, WakersDiffer, WakeEffect
  <2> QED BY <1>4, <2>2 DEF SocketDrains, session, local, world
<1>5. CASE PeerEnds \/ LinkBreaks \/ PeerLeaves \/ StreamCloses
  <2>1. PICK how \in {"eof", "down"} : \E frames : EndLink(how, frames)
    BY <1>5 DEF PeerEnds, LinkBreaks, PeerLeaves, StreamCloses
  <2>2. PICK frames : EndLink(how, frames)
    BY <2>1
  <2>3. CASE how = "eof"
    <3>1. Wake({ReadWaker}) /\ link' = "eof"
      BY <2>2, <2>3 DEF EndLink
    <3>2. /\ ~woken /\ ReadWaker \notin waiting
          /\ WriteWaker \in waiting => WriteWaker \in waiting'
      BY <3>1, WakersDiffer, WakeEffect
    <3> QED BY <2>2, <3>1, <3>2 DEF EndLink, session, local, transport
  <2>4. CASE how = "down"
    <3>1. Wake({ReadWaker, WriteWaker})
      BY <2>2, <2>4 DEF EndLink
    <3>2. ~woken /\ ReadWaker \notin waiting /\ WriteWaker \notin waiting
      BY <3>1, WakeEffect
    <3> QED BY <2>2, <3>2 DEF EndLink, session, local, transport
  <2> QED BY <2>1, <2>3, <2>4
<1> QED BY <1>1, <1>2, <1>3, <1>4, <1>5 DEF EnvStep

LEMMA InitWake == Init => ReadWake /\ HeadWake /\ WriteWake
<1> SUFFICES ASSUME Init PROVE ReadWake /\ HeadWake /\ WriteWake
  OBVIOUS
<1>1. \A i \in StreamIds : NoEmpty(streams[i].outbox)
  <2>1. \A i \in StreamIds : streams[i].outbox = <<>>
    BY NewStreams DEF Init
  <2>2. NoEmpty(<<>>)
    BY DEF NoEmpty
  <2> QED BY <2>1, <2>2
<1> QED BY <1>1 DEF Init, ReadWake, HeadWake, WriteWake

LEMMA NextReadWake ==
  TypeOK /\ FarewellInv /\ ReadWake /\ [Next]_vars => ReadWake'
<1> SUFFICES ASSUME TypeOK, FarewellInv, ReadWake, [Next]_vars PROVE ReadWake'
  OBVIOUS
<1>1. CASE StartPoll
  BY <1>1 DEF StartPoll, ReadWake, Looping
<1>2. CASE Send \/ EndSending
  <2>1. /\ pc \in {"send", "resend"} /\ waiting \subseteq waiting'
        /\ UNCHANGED <<manualClose, link, incoming, woken>>
    BY <1>2 DEF Send, EndSending, Handing, Flushing, session, world
  <2>2. \/ pc' = pc
        \/ pc = "send" /\ pc' = (IF manualClose THEN "close" ELSE "read")
        \/ pc = "resend" /\ pc' = "flush"
    BY <1>2 DEF Send, EndSending, AfterSending, TypeOK
  <2> QED BY <2>1, <2>2 DEF ReadWake, Looping
<1>3. CASE CloseTransport
  BY <1>3 DEF CloseTransport, ReadWake, Looping, session
<1>4. CASE Read
  <2>1. CASE Head(incoming).stream = 0
    BY <1>4, <2>1 DEF Read, ReadSession, ReadWake, Looping
  <2>2. CASE Head(incoming).stream # 0
    BY <1>4, <2>2 DEF Read, ReadStream, ReadWake, Looping
  <2> QED BY <2>1, <2>2
<1>5. CASE ReadLinkEnd \/ EndReading
  BY <1>5 DEF ReadLinkEnd, AtLinkEnd, EndReading, ReadWake, Looping, world
<1>6. CASE PollHead
  <2>1. pc = "heads" /\ UNCHANGED <<pc, manualClose, link, incoming, woken>>
    BY <1>6, PollHeadStep DEF world
  <2>2. waiting \subseteq waiting'
    BY <1>6, PollHeadStep DEF PollsOne
  <2> QED BY <2>1, <2>2 DEF ReadWake, Looping
<1>7. CASE EndHeads \/ Flush
  BY <1>7 DEF EndHeads, Flush, Flushing, ReadWake, Looping, session, world,
              FarewellInv
<1>8. CASE Open \/ Close
  BY <1>8 DEF Open, Close, ReadWake, Looping
<1>9. CASE EnvStep
  <2>1. UNCHANGED <<pc, manualClose>>
    BY <1>9 DEF EnvStep, Write, CloseHandle, PeerSend, PeerCloses, SocketDrains,
                PeerEnds, LinkBreaks, PeerLeaves, StreamCloses, EndLink, session
  <2>2. CASE ~woken'
    BY <1>9, <2>1, <2>2, EnvEffect DEF ReadWake, Looping
  <2>3. CASE woken'
    BY <2>1, <2>3 DEF ReadWake
  <2> QED BY <2>2, <2>3
<1>10. CASE UNCHANGED vars
  BY <1>10 DEF vars, session, world, ReadWake, Looping
<1> QED
  BY <1>1, <1>2, <1>3, <1>4, <1>5, <1>6, <1>7, <1>8, <1>9, <1>10
     DEF Next, PollStep, EnvStep

\* No chunk that waits in a handle's channel is empty.
LEMMA NextNoEmpty ==
  ASSUME TypeOK, [Next]_vars,
         \A i \in StreamIds : NoEmpty(streams[i].outbox)
  PROVE  \A i \in StreamIds : NoEmpty(streams'[i].outbox)
<1>0. /\ streams \in [StreamIds -> HeadState]
      /\ \A i \in StreamIds : streams[i].outbox \in Seq(Chunk)
  BY DEF TypeOK, HeadState
<1>1. CASE streams' = streams
  BY <1>1
<1>2. CASE Read /\ streams' # streams
  <2> DEFINE frame == Head(incoming)
  <2>1. frame \in AnyFrame /\ frame.stream # 0 /\ ReadStream(frame)
    BY <1>2, HeadTailType DEF Read, ReadSession, TypeOK
  <2> HIDE DEF frame
  <2>2. NoEmpty(AcceptStream.outbox)
    <3>1. AcceptStream.outbox = <<>>
      BY NewHeadEffect DEF AcceptStream, Flag
    <3> QED BY <3>1 DEF NoEmpty
  <2>3. ASSUME NEW i \in StreamIds PROVE NoEmpty(streams'[i].outbox)
    BY <2>1, <2>2, ReadStreamEffect DEF SameOutbox
  <2> QED BY <2>3
<1>3. CASE PollHead
  <2>1. PICK i \in StreamIds : streams[i] \in HeadState /\ PollsOne(i, streams[i])
    BY <1>3, PollHeadStep
  <2>2. PICK t : /\ streams' = [streams EXCEPT ![i] = t]
                 /\ t \in {Polled(streams[i]), RemoveHead(streams[i])}
    BY <2>1 DEF PollsOne
  <2>3. NoEmpty(Polled(streams[i]).outbox)
    BY <2>1, PolledEffect, FilledNoEmpty DEF SameOutbox
  <2>4. NoEmpty(RemoveHead(streams[i]).outbox)
    BY <2>1, RemoveHeadEffect DEF NoEmpty
  <2>5. NoEmpty(t.outbox)
    BY <2>2, <2>3, <2>4
  <2>6. ASSUME NEW j \in StreamIds PROVE NoEmpty(streams'[j].outbox)
    BY <1>0, <2>2, <2>5
  <2> QED BY <2>6
<1>4. CASE Open
  <2>1. NoEmpty(OpenStream.outbox)
    <3>1. OpenStream.outbox = <<>>
      BY NewHeadEffect DEF OpenStream, Flag
    <3> QED BY <3>1 DEF NoEmpty
  <2>2. /\ nextStreamId \in StreamIds
        /\ streams' = [streams EXCEPT ![nextStreamId] = OpenStream]
    BY <1>4 DEF Open
  <2>3. ASSUME NEW j \in StreamIds PROVE NoEmpty(streams'[j].outbox)
    BY <1>0, <2>1, <2>2
  <2> QED BY <2>3
<1>5. ASSUME NEW i \in StreamIds, Write(i)
      PROVE  \A j \in StreamIds : NoEmpty(streams'[j].outbox)
  <2>1. PICK v \in Byte :
           streams' = [streams EXCEPT ![i] = PollWrite(streams[i], <<v>>)]
    BY <1>5 DEF Write
  <2>2. <<v>> \in Chunk /\ <<v>> # <<>>
    BY DEF Chunk
  <2> DEFINE buf == <<v>>
             t == PollWrite(streams[i], buf)
             chunk == Truncated(buf)
  <2> HIDE DEF buf
  <2>3. buf \in Chunk /\ buf # <<>> /\ streams[i] \in HeadState
    BY <1>0, <2>2 DEF buf
  <2>4. chunk \in Chunk /\ chunk # <<>>
    BY <2>3, TruncatedType
  <2>5. t.outbox = Append(streams[i].outbox, chunk)
    BY <2>3, PollWriteEffect
  <2> HIDE DEF chunk
  <2>6. NoEmpty(t.outbox)
    BY <1>0, <2>4, <2>5, NoEmptyAppend
  <2>7. streams' = [streams EXCEPT ![i] = t]
    BY <2>1 DEF buf
  <2> HIDE DEF t
  <2>8. ASSUME NEW j \in StreamIds PROVE NoEmpty(streams'[j].outbox)
    BY <1>0, <2>6, <2>7
  <2> QED BY <2>8
<1>6. ASSUME NEW i \in StreamIds, CloseHandle(i)
      PROVE  \A j \in StreamIds : NoEmpty(streams'[j].outbox)
  <2>1. streams' = [streams EXCEPT ![i] = PollClose(streams[i])]
    BY <1>6 DEF CloseHandle
  <2>2. NoEmpty(PollClose(streams[i]).outbox)
    BY <1>0, PollCloseEffect
  <2>3. ASSUME NEW j \in StreamIds PROVE NoEmpty(streams'[j].outbox)
    BY <1>0, <2>1, <2>2
  <2> QED BY <2>3
<1>7. CASE \/ StartPoll \/ Send \/ EndSending \/ CloseTransport \/ ReadLinkEnd
           \/ EndReading \/ EndHeads \/ Flush \/ Close
           \/ \E i \in DOMAIN script : PeerSend(i)
           \/ PeerCloses \/ SocketDrains \/ PeerEnds \/ LinkBreaks \/ PeerLeaves
           \/ StreamCloses \/ UNCHANGED vars
  <2>1. streams' = streams
    BY <1>7 DEF StartPoll, Send, EndSending, CloseTransport, ReadLinkEnd,
                EndReading, EndHeads, Flush, Close, PeerSend, PeerCloses,
                SocketDrains, PeerEnds, LinkBreaks, PeerLeaves, StreamCloses,
                EndLink, vars, session
  <2> QED BY <1>1, <2>1
<1> QED
  BY <1>1, <1>2, <1>3, <1>4, <1>5, <1>6, <1>7 DEF Next, PollStep

\* A step that leaves the heads alone.
LEMMA HeadWakeSame ==
  ASSUME HeadWake, UNCHANGED streams,
         Looping' /\ ~woken' =>
            /\ Looping /\ ~woken /\ unpolled' = unpolled
            /\ \A i \in StreamIds : HeadWaker(i) \in waiting =>
                                        HeadWaker(i) \in waiting'
  PROVE  HeadWake'
  BY DEF HeadWake, Awaits

LEMMA NextHeadWake == TypeOK /\ ReadWake /\ HeadWake /\ [Next]_vars => HeadWake'
<1> SUFFICES ASSUME TypeOK, ReadWake, HeadWake, [Next]_vars PROVE HeadWake'
  OBVIOUS
<1>0. \A i \in StreamIds : NoEmpty(streams'[i].outbox)
  BY NextNoEmpty DEF HeadWake
<1>1. CASE StartPoll
  BY <1>1, HeadWakeSame DEF StartPoll, Looping, session
<1>2. CASE Send \/ EndSending
  <2>1. /\ pc \in {"send", "resend"} /\ waiting \subseteq waiting'
        /\ UNCHANGED <<streams, manualClose, unpolled, woken>>
    BY <1>2 DEF Send, EndSending, Handing, Flushing, session, local, world
  <2>2. \/ pc' = pc
        \/ pc = "send" /\ pc' \in {"close", "read"}
        \/ pc = "resend" /\ pc' = "flush"
    BY <1>2 DEF Send, EndSending, AfterSending, TypeOK
  <2> QED BY <2>1, <2>2, HeadWakeSame DEF Looping
<1>3. CASE CloseTransport
  <2>1. UNCHANGED streams /\ ~Looping'
    BY <1>3 DEF CloseTransport, ReadWake, Looping, session
  <2> QED BY <2>1, HeadWakeSame
<1>4. CASE Read \/ Open \/ Close
  <2>1. ~Looping' \/ woken'
    BY <1>4 DEF Read, ReadSession, ReadStream, Open, Close, Looping
  <2> QED BY <1>0, <2>1 DEF HeadWake
<1>5. CASE ReadLinkEnd
  BY <1>5, HeadWakeSame DEF ReadLinkEnd, AtLinkEnd, Looping, session
<1>6. CASE EndReading
  <2>1. /\ UNCHANGED streams
        /\ unpolled' = {i \in StreamIds : streams[i].alive}
    BY <1>6 DEF EndReading, session
  <2> QED BY <1>0, <2>1 DEF HeadWake
<1>7. CASE PollHead
  <2>1. PICK i \in StreamIds : /\ i \in unpolled /\ streams[i] \in HeadState
                               /\ PollsOne(i, streams[i])
    BY <1>7, PollHeadStep
  <2>2. UNCHANGED <<pc, manualClose, woken>>
    BY <1>7, PollHeadStep
  <2> DEFINE s == streams[i]
  <2>3. streams \in [StreamIds -> HeadState] /\ NoEmpty(s.outbox)
    BY DEF TypeOK, HeadWake
  <2>4. /\ \A j \in StreamIds \ {i} :
              streams'[j] = streams[j] /\ (j \in unpolled => j \in unpolled')
        /\ waiting \subseteq waiting'
    BY <2>1, <2>3 DEF PollsOne
  <2>5. \/ i \in unpolled' \/ ~streams'[i].alive
        \/ Waits(streams'[i])
           /\ (streams'[i].send < ChunkCapacity \/ HeadWaker(i) \in waiting')
    <3>1. CASE ~PollsNone(s) /\ PollsItem(s)
      BY <2>1, <3>1 DEF PollsOne
    <3>2. CASE ~PollsNone(s) /\ ~PollsItem(s)
      <4>1. Waits(s) /\ Polled(s) = s
        BY <2>1, <2>3, <3>2, PolledWaits
      <4>2. /\ streams'[i] = Polled(s)
            /\ waiting' = waiting \cup
                   IF s.send >= ChunkCapacity THEN {HeadWaker(i)} ELSE {}
        BY <2>1, <2>3, <3>2 DEF PollsOne
      <4>3. s.send \in Nat /\ ChunkCapacity \in Nat
        BY <2>1, ChunkAssumption DEF HeadState
      <4> QED BY <4>1, <4>2, <4>3
    <3>3. CASE PollsNone(s)
      <4>1. streams'[i] = RemoveHead(s)
        BY <2>1, <2>3, <3>3 DEF PollsOne
      <4> QED BY <2>1, <4>1, RemoveHeadEffect
    <3> QED BY <3>1, <3>2, <3>3
  <2> HIDE DEF s
  <2>6. ASSUME Looping', ~woken', NEW j \in StreamIds, streams'[j].alive
        PROVE  j \in unpolled' \/ Awaits(j)'
    <3>1. CASE j = i
      BY <2>5, <2>6, <3>1 DEF Awaits
    <3>2. CASE j # i
      <4>1. Looping /\ ~woken /\ streams[j].alive
        BY <2>2, <2>4, <2>6, <3>2 DEF Looping
      <4>2. j \in unpolled \/ Awaits(j)
        BY <4>1 DEF HeadWake
      <4> QED BY <2>4, <3>2, <4>2 DEF Awaits
    <3> QED BY <3>1, <3>2
  <2> QED BY <1>0, <2>6 DEF HeadWake
<1>8. CASE EndHeads
  BY <1>8, HeadWakeSame DEF EndHeads, Looping, session, local
<1>9. CASE Flush
  <2>1. /\ pc = "flush" /\ waiting \subseteq waiting'
        /\ UNCHANGED <<streams, unpolled, woken>>
    BY <1>9 DEF Flush, Flushing, session, local, world
  <2> QED BY <2>1, HeadWakeSame DEF Looping
<1>10. ASSUME NEW i \in StreamIds, Write(i) \/ CloseHandle(i) PROVE HeadWake'
  <2> DEFINE s == streams[i]
  <2>1. /\ UNCHANGED <<pc, manualClose, unpolled>> /\ Wake({HeadWaker(i)})
        /\ s.txOpen
    BY <1>10 DEF Write, CloseHandle, WriteReady, session, local
  <2>2. /\ \A j \in StreamIds \ {i} : streams'[j] = streams[j]
        /\ HeadKept(s, streams'[i])
        /\ ~streams'[i].txOpen \/ streams'[i].txOpen = s.txOpen
    <3>1. streams \in [StreamIds -> HeadState] /\ s \in HeadState
      BY DEF TypeOK
    <3>2. CASE Write(i)
      <4>1. PICK v \in Byte :
               streams' = [streams EXCEPT ![i] = PollWrite(s, <<v>>)]
        BY <3>2 DEF Write
      <4>2. <<v>> \in Chunk
        BY DEF Chunk
      <4> DEFINE buf == <<v>>
                 t == PollWrite(s, buf)
      <4> HIDE DEF buf, s
      <4>3. HeadKept(s, t) /\ t.txOpen = s.txOpen
        BY <3>1, <4>2, PollWriteEffect DEF buf
      <4>4. streams' = [streams EXCEPT ![i] = t]
        BY <4>1 DEF buf
      <4> HIDE DEF t
      <4> QED BY <3>1, <4>3, <4>4
    <3>3. CASE CloseHandle(i)
      <4> DEFINE t == PollClose(s)
      <4>1. HeadKept(s, t) /\ ~t.txOpen
        BY <3>1, PollCloseEffect
      <4>2. streams' = [streams EXCEPT ![i] = t]
        BY <3>3 DEF CloseHandle
      <4> HIDE DEF t
      <4> QED BY <3>1, <4>1, <4>2
    <3> QED BY <1>10, <3>2, <3>3
  <2>3. ASSUME Looping', ~woken', NEW j \in StreamIds, streams'[j].alive
        PROVE  j \in unpolled' \/ Awaits(j)'
    <3>1. /\ Looping /\ ~woken
          /\ \A w \in waiting : w # HeadWaker(i) /\ w \in waiting'
      BY <2>1, <2>3, WakeEffect DEF Looping
    <3>2. streams[j].alive
      BY <2>2, <2>3 DEF HeadKept
    <3>3. j \in unpolled \/ Awaits(j)
      BY <3>1, <3>2 DEF HeadWake
    <3>4. CASE j = i
      <4>1. i \in unpolled \/ (Waits(s) /\ s.send < ChunkCapacity)
        BY <2>1, <3>1, <3>3, <3>4 DEF Awaits
      <4> QED BY <2>1, <2>2, <3>4, <4>1
              DEF Awaits, Waits, HeadKept, SameState, SameWindow, IsClosed
    <3>5. CASE j # i
      BY <2>1, <2>2, <3>1, <3>3, <3>5 DEF Awaits
    <3> QED BY <3>4, <3>5
  <2> QED BY <1>0, <2>3 DEF HeadWake
<1>11. CASE \/ \E i \in DOMAIN script : PeerSend(i)
            \/ PeerCloses \/ SocketDrains \/ PeerEnds \/ LinkBreaks \/ PeerLeaves
            \/ StreamCloses
  <2>1. UNCHANGED <<pc, streams, manualClose, unpolled>>
    BY <1>11 DEF PeerSend, PeerCloses, SocketDrains, PeerEnds, LinkBreaks,
                 PeerLeaves, StreamCloses, EndLink, session, local
  <2>2. \/ UNCHANGED <<waiting, woken>>
        \/ \E wakers \in SUBSET {ReadWaker, WriteWaker} : Wake(wakers)
    BY <1>11 DEF PeerSend, PeerCloses, SocketDrains, PeerEnds, LinkBreaks,
                 PeerLeaves, StreamCloses, EndLink
  <2>3. ASSUME ~woken'
        PROVE  ~woken /\ \A i \in StreamIds : HeadWaker(i) \in waiting =>
                                                  HeadWaker(i) \in waiting'
    BY <2>2, <2>3, WakeEffect
  <2> QED BY <2>1, <2>3, HeadWakeSame DEF Looping
<1>12. CASE UNCHANGED vars
  BY <1>12, HeadWakeSame DEF vars, session, local, Looping
<1> QED
  BY <1>1, <1>2, <1>3, <1>4, <1>5, <1>6, <1>7, <1>8, <1>9, <1>10, <1>11, <1>12
     DEF Next, PollStep

\* With the socket full, a flush moves nothing.
LEMMA NoRoom ==
  ASSUME TypeOK, AwaitsRoom, buffer # <<>>
  PROVE  Taken = 0 /\ Len(Left) = Len(buffer) /\ ~Drained /\ ~Fails
<1>1. buffer \in Seq(AnyFrame) /\ socket \in 0..SocketRoom
  BY DEF TypeOK
<1>2. Len(buffer) \in Nat \ {0} /\ Room = 0 /\ ~Fails
  BY <1>1, SessionAssumption DEF AwaitsRoom, Room, Fails
<1>3. Taken = 0
  BY <1>2 DEF Taken
<1> QED BY <1>1, <1>2, <1>3, LeftEffect

\* A flush that leaves frames behind on a connection that works waits for room.
LEMMA FlushWaits ==
  ASSUME TypeOK, Flushing, ~Drained, ~Fails, UNCHANGED link
  PROVE  AwaitsRoom' /\ buffer' # <<>> /\ buffer' = Left
<1>1. buffer \in Seq(AnyFrame) /\ socket \in 0..SocketRoom
  BY DEF TypeOK
<1>2. buffer # <<>>
  BY <1>1, LeftEffect
<1>3. link # "down"
  BY <1>2 DEF Fails
<1> QED BY <1>1, <1>3, LeftEffect
    DEF Flushing, Flushed, Blocked, AwaitsRoom, Drained

LEMMA NextWriteWake ==
  TypeOK /\ FarewellInv /\ ReadWake /\ WriteWake /\ [Next]_vars => WriteWake'
<1> SUFFICES ASSUME TypeOK, FarewellInv, ReadWake, WriteWake, [Next]_vars
             PROVE  WriteWake'
  OBVIOUS
<1>0. buffer \in Seq(AnyFrame) /\ MaxWriteBuffer \in Nat \ {0}
  BY SessionAssumption DEF TypeOK
<1>1. CASE StartPoll \/ Send \/ ReadLinkEnd \/ EndReading \/ PollHead \/ EndHeads
  <2>1. pc' \in {"send", "resend", "ended", "heads"}
    BY <1>1, PollHeadStep
       DEF StartPoll, Send, ReadLinkEnd, AtLinkEnd, EndReading, EndHeads
  <2> QED BY <2>1 DEF WriteWake
<1>2. CASE Read \/ Open \/ Close
  <2>1. pc' \in {"read", "ended"} \/ woken'
    BY <1>2 DEF Read, ReadSession, ReadStream, Open, Close
  <2> QED BY <2>1 DEF WriteWake
<1>3. CASE EndSending
  <2>1. pc' # "idle" /\ outQueue' = outQueue /\ link' = link
    BY <1>3 DEF EndSending, AfterSending, session, world
  <2>2. CASE outQueue = <<>>
    BY <2>1, <2>2 DEF WriteWake
  <2>3. CASE outQueue # <<>>
    <3>1. ~Ready /\ Flushing
      BY <1>3, <2>3 DEF EndSending
    <3>2. ~Drained /\ ~Fails /\ ~(Len(Left) < MaxWriteBuffer)
      BY <3>1 DEF Ready
    <3>3. AwaitsRoom' /\ buffer' = Left
      BY <2>1, <3>1, <3>2, FlushWaits
    <3>4. Len(Left) \in Nat
      BY <1>0, LeftEffect DEF TypeOK
    <3> QED BY <1>0, <2>1, <3>2, <3>3, <3>4 DEF WriteWake
  <2> QED BY <2>2, <2>3
<1>4. CASE /\ Flushing
           /\ \/ Flush
              \/ CloseTransport /\ pc' = IF Drained \/ Fails THEN "ended"
                                        ELSE "idle"
  <2>1. /\ pc \in {"close", "flush"}
        /\ UNCHANGED <<outQueue, manualClose, link, woken>>
        /\ manualClose => pc' = "ended" \/ (~Drained /\ ~Fails)
    BY <1>4 DEF CloseTransport, Flush, FarewellInv, session, world
  <2>2. ASSUME pc' # "ended", ~woken', outQueue' # <<>>
        PROVE  AwaitsRoom' /\ Len(buffer') >= MaxWriteBuffer
    <3>1. AwaitsRoom /\ Len(buffer) >= MaxWriteBuffer
      BY <2>1, <2>2 DEF WriteWake
    <3>2. Len(Left) = Len(buffer) /\ ~Drained /\ ~Fails
      BY <1>0, <3>1, NoRoom
    <3>3. AwaitsRoom' /\ buffer' = Left
      BY <1>4, <2>1, <3>2, FlushWaits
    <3> QED BY <3>1, <3>2, <3>3
  <2>3. ASSUME pc' # "ended", manualClose'
        PROVE  AwaitsRoom' /\ buffer' # <<>>
    BY <1>4, <2>1, <2>3, FlushWaits
  <2> QED BY <2>2, <2>3 DEF WriteWake
<1>5. CASE Flush /\ UNCHANGED <<transport, waiting>>
  BY <1>5 DEF Flush, FarewellInv, WriteWake, AwaitsRoom, session, transport,
              world
<1>6. CASE EnvStep
  <2>1. CASE ~woken'
    <3>1. /\ ~woken /\ UNCHANGED <<pc, outQueue, manualClose, buffer>>
          /\ AwaitsRoom => AwaitsRoom'
          /\ AwaitsClose => AwaitsClose'
      BY <1>6, <2>1, EnvEffect DEF AwaitsRoom, AwaitsClose
    <3> QED BY <3>1 DEF WriteWake
  <2>2. CASE woken'
    BY <2>2 DEF WriteWake
  <2> QED BY <2>1, <2>2
<1>7. CASE UNCHANGED vars
  BY <1>7 DEF vars, session, transport, world, WriteWake, AwaitsRoom,
              AwaitsClose
<1>8. CASE /\ CloseTransport /\ Drained /\ link # "down" /\ Flushed
           /\ waiting' = waiting \cup {WriteWaker}
           /\ closing' = TRUE /\ pc' = "idle"
  <2>1. /\ pc = "close" /\ Drained /\ link # "down" /\ Flushed
        /\ WriteWaker \in waiting' /\ closing' /\ pc' = "idle"
        /\ UNCHANGED <<outQueue, link, woken>>
    BY <1>8 DEF CloseTransport, session
  <2>2. AwaitsClose' /\ buffer' = <<>>
    BY <2>1 DEF AwaitsClose, Flushed, Drained
  <2>3. ASSUME ~woken', outQueue' # <<>> PROVE FALSE
    <3>1. AwaitsRoom /\ Len(buffer) >= MaxWriteBuffer
      BY <2>1, <2>3 DEF WriteWake
    <3> QED BY <1>0, <2>1, <3>1, NoRoom
  <2> QED BY <2>1, <2>2, <2>3 DEF WriteWake
<1>9. Flush => Flushing \/ UNCHANGED <<transport, waiting>>
  BY DEF Flush
<1>10. CASE CloseTransport
  BY <1>4, <1>8, <1>10 DEF CloseTransport
<1> QED
  BY <1>1, <1>2, <1>3, <1>4, <1>5, <1>6, <1>7, <1>9, <1>10
     DEF Next, PollStep, EnvStep

\* A session that nobody will poll has nothing it could do: poll_next returns
\* Pending only behind a waker for each thing it waits for, so no frame, item,
\* end of the connection or room in the socket is missed.
THEOREM WakeCorrect == Spec => []NoLostWakeup
<1>1. TypeOK /\ ReadWake /\ HeadWake /\ WriteWake => NoLostWakeup
  <2> SUFFICES ASSUME TypeOK, ReadWake, HeadWake, WriteWake, Asleep
               PROVE  /\ ~manualClose =>
                            /\ incoming = <<>> /\ link = "up"
                            /\ \A i \in StreamIds : streams[i].alive =>
                                  /\ ~PollsItem(streams[i])
                                  /\ ~PollsNone(streams[i])
                      /\ outQueue # <<>> => ~Ready
                      /\ manualClose =>
                            \/ buffer # <<>> /\ Taken = 0 /\ ~Fails
                            \/ buffer = <<>> /\ closing /\ link # "down"
    BY DEF NoLostWakeup
  <2>1. pc = "idle" /\ ~woken /\ unpolled = {}
    BY DEF Asleep, TypeOK
  <2>2. ASSUME ~manualClose
        PROVE  /\ incoming = <<>> /\ link = "up"
               /\ \A i \in StreamIds : streams[i].alive =>
                     ~PollsItem(streams[i]) /\ ~PollsNone(streams[i])
    <3>1. Looping
      BY <2>1, <2>2 DEF Looping
    <3>2. ASSUME NEW i \in StreamIds, streams[i].alive
          PROVE  ~PollsItem(streams[i]) /\ ~PollsNone(streams[i])
      <4>1. Waits(streams[i]) /\ streams[i] \in HeadState
        BY <2>1, <3>1, <3>2 DEF HeadWake, Awaits, TypeOK
      <4> QED BY <4>1, WaitsPolled
    <3> QED BY <2>1, <3>1, <3>2 DEF ReadWake
  <2>3. ASSUME outQueue # <<>> PROVE ~Ready
    <3>1. /\ AwaitsRoom /\ Len(buffer) >= MaxWriteBuffer
          /\ buffer \in Seq(AnyFrame) /\ MaxWriteBuffer \in Nat \ {0}
      BY <2>1, <2>3, SessionAssumption DEF WriteWake, TypeOK
    <3>2. buffer # <<>>
      BY <3>1
    <3>3. Len(Left) = Len(buffer) /\ ~Drained /\ ~Fails
      BY <3>1, <3>2, NoRoom
    <3> QED BY <3>1, <3>3 DEF Ready
  <2>4. ASSUME manualClose
        PROVE  \/ buffer # <<>> /\ Taken = 0 /\ ~Fails
               \/ buffer = <<>> /\ closing /\ link # "down"
    <3>1. \/ AwaitsRoom /\ buffer # <<>>
          \/ AwaitsClose /\ buffer = <<>>
      BY <2>1, <2>4 DEF WriteWake
    <3> QED BY <3>1, NoRoom DEF AwaitsClose
  <2> QED BY <2>2, <2>3, <2>4
<1>2. Spec => [](TypeOK /\ FarewellInv /\ ReadWake /\ HeadWake /\ WriteWake)
  BY TypeCorrect, InitFarewell, InitWake, NextFarewell, NextReadWake,
     NextHeadWake, NextWriteWake, PTL DEF Spec
<1> QED BY <1>1, <1>2, PTL
================================================================================
