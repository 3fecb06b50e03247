---------------------------- MODULE StreamPairProofs ----------------------------
(***************************************************************************)
(* The invariants of a stream between two sessions, for any sizes of the   *)
(* window, the chunks and the applications' buffers.  For any behaviour:   *)
(* the type, that a stream is accepted once, that the window of each       *)
(* direction is conserved, and that the pair implements ByteStream.  For   *)
(* openers that do not close before they hear of their peer: that a broken *)
(* pipe comes after the end of the stream and, when no session ends in the *)
(* middle, that nothing stalls and no head is left behind.                 *)
(***************************************************************************)
EXTENDS StreamPair, StreamHeadProofs

-----------------------------------------------------------------------------
\* Sides and sequences.

LEMMA Sides ==
  ASSUME NEW x \in Side
  PROVE  /\ Peer(x) \in Side /\ Peer(x) # x /\ Peer(Peer(x)) = x
         /\ \A y \in Side : y = x \/ y = Peer(x)
  BY DEF Side, Peer

\* What is left of a queue when a part of its first element is taken.
LEMMA RestType ==
  ASSUME NEW S, NEW q \in Seq(S), q # <<>>, NEW e \in S
  PROVE  LET rest == <<e>> \o Tail(q) IN
         /\ rest \in Seq(S) /\ Len(rest) = Len(q) /\ rest[1] = e
         /\ \A k \in 2..Len(q) : rest[k] = q[k]
<1> DEFINE tail == Tail(q)
           one == <<e>>
           rest == one \o tail
<1>1. /\ tail \in Seq(S) /\ Len(tail) = Len(q) - 1 /\ Len(q) \in Nat \ {0}
      /\ \A k \in 1..Len(q) - 1 : tail[k] = q[k + 1]
  BY HeadTailType
<1>2. one \in Seq(S) /\ Len(one) = 1 /\ one[1] = e
  OBVIOUS
<1> HIDE DEF tail, one
<1>3. /\ rest \in Seq(S) /\ Len(rest) = Len(one) + Len(tail)
      /\ \A k \in 1..Len(one) + Len(tail) :
            rest[k] = IF k <= Len(one) THEN one[k] ELSE tail[k - Len(one)]
  BY <1>1, <1>2, ConcatProperties
<1> HIDE DEF rest
<1>4. /\ rest \in Seq(S) /\ Len(rest) = Len(q) /\ rest[1] = e
      /\ \A k \in 2..Len(q) : rest[k] = q[k]
  BY <1>1, <1>2, <1>3
<1> QED BY <1>4 DEF rest, one, tail

LEMMA PartType ==
  ASSUME NEW S, NEW q \in Seq(S), NEW m \in Nat, NEW n \in Nat, n <= Len(q)
  PROVE  /\ SubSeq(q, m + 1, n) \in Seq(S)
         /\ Len(SubSeq(q, m + 1, n)) = IF m <= n THEN n - m ELSE 0
         /\ \A i \in 1..n - m : SubSeq(q, m + 1, n)[i] = q[m + i]
<1> DEFINE part == SubSeq(q, m + 1, n)
<1>1. CASE m < n
  <2>1. m + 1 \in 1..Len(q) /\ n \in 1..Len(q)
    BY <1>1
  <2>2. part \in Seq(S) /\ Len(part) = n - m
    BY <1>1, <2>1
  <2>3. \A i \in 1..n - m : part[i] = q[m + i]
    <3>1. ASSUME NEW i \in 1..n - m PROVE part[i] = q[m + i]
      <4>1. part[i] = q[m + 1 + i - 1]
        BY <2>1
      <4>2. m + 1 + i - 1 = m + i
        OBVIOUS
      <4> QED BY <4>1, <4>2
    <3> QED BY <3>1
  <2> QED BY <1>1, <2>2, <2>3
<1>2. CASE ~(m < n)
  <2>1. part = <<>>
    BY <1>2
  <2>2. m <= n => n - m = 0
    BY <1>2
  <2>3. 1..n - m = {}
    BY <1>2
  <2> QED BY <2>1, <2>2, <2>3
<1> QED BY <1>1, <1>2

\* FrameReader yields what is next on the wire, or a part of a payload.
LEMMA ArrivalsEffect ==
  ASSUME NEW frames \in Seq(StreamEvent), frames # <<>>,
         NEW next \in Arrivals(frames)
  PROVE  LET first == Head(frames) IN
         /\ first \in StreamEvent
         /\ \/ next.event = first /\ next.rest = <<>>
            \/ /\ first.kind = "DataChunk" /\ first.chunk \in Chunk
               /\ \E n \in 1..Len(first.chunk) - 1 :
                     /\ next.event = DataChunk(SubSeq(first.chunk, 1, n))
                     /\ next.rest = <<DataChunk(SubSeq(first.chunk, n + 1,
                                                       Len(first.chunk)))>>
<1> DEFINE first == Head(frames)
<1>1. first \in StreamEvent
  BY HeadTailType
<1>2. first.kind = "DataChunk" => first.chunk \in Chunk
  BY <1>1, EventType
<1> QED BY <1>1, <1>2 DEF Arrivals

-----------------------------------------------------------------------------
\* Steps that leave the two ends and what is between them alone: what a
\* transport has let go is no part of any invariant but the type.
Unmoved ==
    /\ UNCHANGED <<end, wire, up, accepts>>
    /\ UNCHANGED <<written, read, eof, broken>>

LEMMA FlushUnmoved ==
  /\ \A x \in Side : Flush(x) => Unmoved
  /\ (UNCHANGED vars) => Unmoved
  BY DEF Flush, vars, Unmoved

-----------------------------------------------------------------------------
\* The type invariant.

LEMMA NewEnds ==
  /\ AcceptStream \in HeadState /\ AcceptStream.alive /\ AcceptStream.txOpen
  /\ AcceptStream.outbox = <<>>
  /\ OpenStream \in HeadState /\ OpenStream.outbox = <<>>
  /\ NoStream \in HeadState /\ ~NoStream.alive /\ NoStream.outbox = <<>>
  /\ ~NoStream.txOpen /\ ~NoStream.rxOpen /\ NoStream.outs = <<>>
<1>1. /\ AcceptStream \in HeadState /\ OpenStream \in HeadState
      /\ AcceptStream.alive /\ AcceptStream.txOpen
      /\ AcceptStream.outbox = <<>> /\ OpenStream.outbox = <<>>
  BY NewHeadEffect DEF AcceptStream, OpenStream, Flag
<1>2. LET s == DropHandle(AcceptStream)
      IN  s \in HeadState /\ ~s.txOpen /\ ~s.rxOpen
  BY <1>1, DropHandleEffect
<1> QED BY <1>1, <1>2, RemoveHeadEffect DEF NoStream, SameReader

LEMMA InitTypeOK == Init => TypeOK
<1> SUFFICES ASSUME Init PROVE TypeOK
  OBVIOUS
<1>1. /\ end \in [Side -> HeadState]
      /\ \A x \in Side : Len(end[x].outbox) <= ChannelSlots
  BY NewEnds DEF Init, ChannelSlots
<1>2. wire \in [Side -> Seq(StreamEvent)] /\ read \in [Side -> Seq(Byte)]
  BY DEF Init
<1> QED BY <1>1, <1>2 DEF Init, TypeOK

\* What a step makes of one end, whatever else it does.
LEMMA TypeOneEnd ==
  ASSUME TypeOK, NEW x \in Side, NEW t \in HeadState,
         Len(t.outbox) <= ChannelSlots, end' = [end EXCEPT ![x] = t]
  PROVE  /\ end' \in [Side -> HeadState]
         /\ \A y \in Side : Len(end'[y].outbox) <= ChannelSlots
         /\ end'[x] = t /\ end'[Peer(x)] = end[Peer(x)]
  BY Sides DEF TypeOK

\* What a session makes of a frame for the stream.
LEMMA RouteEffect ==
  ASSUME NEW s \in HeadState, NEW event \in StreamEvent,
         Len(s.outbox) <= ChannelSlots
  PROVE  LET t == Route(s, event) IN
         /\ t \in HeadState /\ Len(t.outbox) <= ChannelSlots
<1>1. /\ OnInput(s, event) \in HeadState
      /\ OnInput(s, event).outbox = s.outbox
      /\ OnInput(AcceptStream, event) \in HeadState
      /\ OnInput(AcceptStream, event).outbox = <<>>
  BY NewEnds, OnInputEffect DEF SameOutbox
<1>2. Len(<<>>) <= ChannelSlots
  BY DEF ChannelSlots
<1> QED BY <1>1, <1>2 DEF Route

\* The frame that a step of Receive takes, and what is left of it.
LEMMA ReceiveEffect ==
  ASSUME TypeOK, NEW x \in Side, Receive(x)
  PROVE  LET y == Peer(x)
             frames == wire[y]
         IN  /\ frames \in Seq(StreamEvent) /\ frames # <<>> /\ up[x]
             /\ \E next \in Arrivals(frames) :
                   /\ next.event \in StreamEvent
                   /\ next.rest \o Tail(frames) \in Seq(StreamEvent)
                   /\ end' = [end EXCEPT ![x] = Route(end[x], next.event)]
                   /\ wire' = [wire EXCEPT ![y] = next.rest \o Tail(frames)]
                   /\ accepts' = accepts + IF Accepts(end[x], next.event)
                                           THEN 1 ELSE 0
<1> DEFINE y == Peer(x)
           frames == wire[y]
<1>1. y \in Side /\ frames \in Seq(StreamEvent) /\ frames # <<>> /\ up[x]
  BY Sides DEF Receive, TypeOK
<1>2. PICK next \in Arrivals(frames) :
         /\ end' = [end EXCEPT ![x] = Route(@, next.event)]
         /\ wire' = [wire EXCEPT ![y] = next.rest \o Tail(@)]
         /\ accepts' = accepts + IF Accepts(end[x], next.event) THEN 1 ELSE 0
  BY DEF Receive
<1>3. end' = [end EXCEPT ![x] = Route(end[x], next.event)]
      /\ wire' = [wire EXCEPT ![y] = next.rest \o Tail(frames)]
  BY <1>1, <1>2 DEF TypeOK
<1> HIDE DEF y, frames
<1>4. next.event \in StreamEvent /\ next.rest \o Tail(frames) \in Seq(StreamEvent)
  <2> DEFINE first == Head(frames)
  <2>1. first \in StreamEvent /\ Tail(frames) \in Seq(StreamEvent)
    BY <1>1, HeadTailType
  <2>2. CASE next.event = first /\ next.rest = <<>>
    BY <2>1, <2>2
  <2>3. CASE ~(next.event = first /\ next.rest = <<>>)
    <3>1. PICK n \in 1..Len(first.chunk) - 1 :
             /\ first.chunk \in Chunk
             /\ next.event = DataChunk(SubSeq(first.chunk, 1, n))
             /\ next.rest = <<DataChunk(SubSeq(first.chunk, n + 1,
                                               Len(first.chunk)))>>
      BY <1>1, <2>3, ArrivalsEffect
    <3> DEFINE one == SubSeq(first.chunk, 1, n)
               two == SubSeq(first.chunk, n + 1, Len(first.chunk))
    <3>2. one \in Chunk /\ two \in Chunk
      <4>1. Len(first.chunk) \in Nat /\ n \in Nat /\ n <= Len(first.chunk)
        BY <3>1 DEF Chunk
      <4> QED BY <3>1, <4>1, PartType DEF Chunk
    <3> HIDE DEF one, two
    <3>3. DataChunk(one) \in StreamEvent /\ DataChunk(two) \in StreamEvent
      BY <3>2, DataChunkType
    <3>4. next.event = DataChunk(one) /\ next.rest = <<DataChunk(two)>>
      BY <3>1 DEF one, two
    <3>5. <<DataChunk(two)>> \o Tail(frames) \in Seq(StreamEvent)
      BY <2>1, <3>3
    <3> QED BY <3>3, <3>4, <3>5
  <2> QED BY <2>2, <2>3
<1> QED BY <1>1, <1>2, <1>3, <1>4 DEF y, frames

\* The bytes that a step of Write takes.
LEMMA WriteEffect ==
  ASSUME TypeOK, NEW x \in Side, Write(x)
  PROVE  \E n \in 1..MaxWrite, chunk \in Chunk :
            /\ WriteReady(end[x]) /\ written[x] + n <= MaxWritten[x]
            /\ chunk # <<>> /\ Len(chunk) <= n /\ Len(chunk) <= ChunkCapacity
            /\ \A i \in 1..Len(chunk) : chunk[i] = written[x] + i
            /\ \E t \in HeadState :
                  /\ end' = [end EXCEPT ![x] = t]
                  /\ t.outbox = Append(end[x].outbox, chunk)
                  /\ t.txOpen = end[x].txOpen /\ t.inbox = end[x].inbox
                  /\ SameReader(end[x], t) /\ HeadKept(end[x], t)
            /\ written' = [written EXCEPT ![x] = written[x] + Len(chunk)]
            /\ UNCHANGED <<wire, up, accepts, read, eof, broken>>
<1>1. PICK n \in 1..MaxWrite :
         LET buf == [i \in 1..n |-> written[x] + i]
         IN  /\ WriteReady(end[x])
             /\ written[x] + n <= MaxWritten[x]
             /\ end' = [end EXCEPT ![x] = PollWrite(@, buf)]
             /\ written' = [written EXCEPT ![x] = @ + Len(Truncated(buf))]
             /\ UNCHANGED <<wire, up, accepts, read, eof, broken>>
  BY DEF Write
<1> DEFINE buf == [i \in 1..n |-> written[x] + i]
           chunk == Truncated(buf)
           t == PollWrite(end[x], buf)
<1>2. /\ n \in Nat \ {0} /\ written[x] \in Nat /\ MaxWritten[x] \in Nat
      /\ 1..MaxWritten[x] \subseteq Byte /\ end[x] \in HeadState
      /\ end \in [Side -> HeadState] /\ written \in [Side -> Nat]
  BY PairAssumption DEF TypeOK, Side
<1>3. \A i \in 1..n : written[x] + i \in Byte
  BY <1>1, <1>2
<1>4. buf \in Chunk /\ Len(buf) = n
  BY <1>2, <1>3 DEF Chunk
<1>5. \A i \in 1..n : buf[i] = written[x] + i
  OBVIOUS
<1> HIDE DEF buf
<1>6. chunk \in Chunk /\ Len(chunk) <= ChunkCapacity /\ Len(chunk) \in Nat
  BY <1>4, TruncatedType DEF Chunk
<1>7. chunk # <<>>
  <2>1. buf # <<>>
    BY <1>2, <1>4
  <2> QED BY <1>4, <2>1, TruncatedType
<1>8. Len(chunk) <= n /\ \A i \in 1..Len(chunk) : chunk[i] = buf[i]
  <2>1. CASE Len(buf) <= ChunkCapacity
    <3>1. chunk = buf
      BY <2>1 DEF Truncated
    <3> QED BY <1>4, <3>1
  <2>2. CASE Len(buf) > ChunkCapacity
    <3>1. chunk = SubSeq(buf, 0 + 1, ChunkCapacity)
      BY <1>2, <1>4, <2>2, ChunkAssumption DEF Truncated
    <3>2. /\ Len(chunk) = ChunkCapacity
          /\ \A i \in 1..ChunkCapacity : chunk[i] = buf[i]
      <4>1. buf \in Seq(Byte) /\ ChunkCapacity \in Nat /\ 0 <= ChunkCapacity
            /\ ChunkCapacity <= Len(buf) /\ ChunkCapacity - 0 = ChunkCapacity
        BY <1>2, <1>4, <2>2, ChunkAssumption DEF Chunk
      <4>2. \A i \in 1..ChunkCapacity : 0 + i = i
        OBVIOUS
      <4> HIDE DEF chunk
      <4> QED BY <3>1, <4>1, <4>2, PartType
    <3> QED BY <1>2, <1>4, <2>2, <3>2, ChunkAssumption
  <2> QED BY <1>2, <1>4, <2>1, <2>2, ChunkAssumption
<1>9. /\ t \in HeadState
      /\ t.outbox = Append(end[x].outbox, chunk) /\ t.txOpen = end[x].txOpen
      /\ t.inbox = end[x].inbox /\ SameReader(end[x], t) /\ HeadKept(end[x], t)
  BY <1>2, <1>4, PollWriteEffect
<1>10. /\ end' = [end EXCEPT ![x] = t]
       /\ written' = [written EXCEPT ![x] = written[x] + Len(chunk)]
       /\ WriteReady(end[x]) /\ written[x] + n <= MaxWritten[x]
       /\ UNCHANGED <<wire, up, accepts, read, eof, broken>>
  BY <1>1, <1>2 DEF buf
<1> HIDE DEF t, chunk
<1>11. \A i \in 1..Len(chunk) : chunk[i] = written[x] + i
  BY <1>2, <1>5, <1>6, <1>8
<1> QED BY <1>6, <1>7, <1>8, <1>9, <1>10, <1>11

\* What a step of Read serves of the chunk it has loaded.
LEMMA ReadEffect ==
  ASSUME TypeOK, NEW x \in Side, Read(x)
  PROVE  LET s == end[x]
             reading == Loaded(s).reading
         IN  \E n \in 0..Len(reading), bytes \in Chunk, t \in HeadState :
               /\ s.rxOpen /\ (ReadsData(s) \/ ReadsEof(s) \/ ReadsBroken(s))
               /\ reading \in Chunk /\ (reading # <<>> => n # 0)
               /\ Len(bytes) = n /\ Len(t.reading) = Len(reading) - n
               /\ \A i \in 1..n : bytes[i] = reading[i]
               /\ \A i \in 1..Len(reading) - n : t.reading[i] = reading[n + i]
               /\ t.inbox = Loaded(s).inbox
               /\ SameOutbox(s, t) /\ t.rxOpen = s.rxOpen /\ HeadKept(s, t)
               /\ n <= MaxRead
               /\ end' = [end EXCEPT ![x] = t]
               /\ read' = [read EXCEPT ![x] = @ \o bytes]
               /\ eof' = [eof EXCEPT ![x] = @ \/ ReadsEof(s)]
               /\ broken' = [broken EXCEPT ![x] = @ \/ ReadsBroken(s)]
               /\ UNCHANGED <<wire, up, accepts, written>>
<1> DEFINE s == end[x]
           reading == Loaded(s).reading
<1>1. PICK room \in 1..MaxRead :
         /\ s.rxOpen
         /\ ReadsData(s) \/ ReadsEof(s) \/ ReadsBroken(s)
         /\ end' = [end EXCEPT ![x] = PollRead(@, room)]
         /\ read' = [read EXCEPT ![x] = @ \o ReadBytes(s, room)]
         /\ eof' = [eof EXCEPT ![x] = @ \/ ReadsEof(s)]
         /\ broken' = [broken EXCEPT ![x] = @ \/ ReadsBroken(s)]
         /\ UNCHANGED <<wire, up, accepts, written>>
  BY DEF Read
<1> DEFINE n == ReadLen(s, room)
           bytes == ReadBytes(s, room)
           t == PollRead(s, room)
<1>2. s \in HeadState /\ room \in Nat \ {0} /\ end \in [Side -> HeadState]
  BY DEF TypeOK
<1>3. reading \in Chunk /\ Len(reading) \in Nat
  BY <1>2, LoadedEffect DEF HeadState, Chunk
<1>4. n \in 0..Len(reading) /\ n <= room /\ (Len(reading) # 0 => n # 0)
  BY <1>2, <1>3 DEF ReadLen
<1>5. /\ t \in HeadState /\ t.inbox = Loaded(s).inbox
      /\ SameOutbox(s, t) /\ t.rxOpen = s.rxOpen /\ HeadKept(s, t)
  BY <1>2, PollReadEffect
<1>6. bytes = SubSeq(reading, 0 + 1, n)
  BY DEF ReadBytes
<1>7. t.reading = SubSeq(reading, n + 1, Len(reading))
  <2>1. Loaded(s) \in HeadState
    BY <1>2, LoadedEffect
  <2> QED BY <2>1 DEF PollRead, HeadState
<1>8. reading # <<>> => Len(reading) # 0
  BY <1>3 DEF Chunk
<1>9. end' = [end EXCEPT ![x] = t]
  BY <1>1, <1>2
<1> HIDE DEF reading, n, bytes, t
<1>10. bytes \in Chunk /\ Len(bytes) = n /\ \A i \in 1..n : bytes[i] = reading[i]
  <2>1. /\ reading \in Seq(Byte) /\ n \in Nat /\ n <= Len(reading) /\ 0 <= n
        /\ n - 0 = n /\ \A i \in 1..n : 0 + i = i
    BY <1>3, <1>4 DEF Chunk
  <2> QED BY <1>6, <2>1, PartType DEF Chunk
<1>11. /\ Len(t.reading) = Len(reading) - n
       /\ \A i \in 1..Len(reading) - n : t.reading[i] = reading[n + i]
  BY <1>3, <1>4, <1>7, PartType DEF Chunk
<1>12. n <= MaxRead
  BY <1>1, <1>2, <1>4, PairAssumption
<1>13. read' = [read EXCEPT ![x] = @ \o bytes]
  BY <1>1 DEF bytes
<1>14. /\ n \in 0..Len(reading) /\ bytes \in Chunk /\ t \in HeadState
       /\ s.rxOpen /\ (ReadsData(s) \/ ReadsEof(s) \/ ReadsBroken(s))
       /\ reading \in Chunk /\ (reading # <<>> => n # 0)
       /\ Len(bytes) = n /\ Len(t.reading) = Len(reading) - n
       /\ \A i \in 1..n : bytes[i] = reading[i]
       /\ \A i \in 1..Len(reading) - n : t.reading[i] = reading[n + i]
       /\ t.inbox = Loaded(s).inbox
       /\ SameOutbox(s, t) /\ t.rxOpen = s.rxOpen /\ HeadKept(s, t)
       /\ n <= MaxRead
       /\ end' = [end EXCEPT ![x] = t]
       /\ read' = [read EXCEPT ![x] = @ \o bytes]
       /\ eof' = [eof EXCEPT ![x] = @ \/ ReadsEof(s)]
       /\ broken' = [broken EXCEPT ![x] = @ \/ ReadsBroken(s)]
       /\ UNCHANGED <<wire, up, accepts, written>>
  BY <1>1, <1>3, <1>4, <1>5, <1>8, <1>9, <1>10, <1>11, <1>12, <1>13
<1> QED BY <1>14 DEF reading

\* A transport lets go of no frame twice, and of none it was not given.
LEMMA FlushedType ==
  ASSUME TypeOK, [Next]_vars,
         wire' \in [Side -> Seq(StreamEvent)]
  PROVE  /\ flushed' \in [Side -> Nat]
         /\ \A x \in Side : flushed'[x] <= Len(wire'[x])
<1>1. /\ wire \in [Side -> Seq(StreamEvent)]
      /\ flushed \in [Side -> Nat]
      /\ \A x \in Side : flushed[x] <= Len(wire[x])
  BY DEF TypeOK
<1>2. ASSUME NEW x \in Side
      PROVE  Len(wire[x]) \in Nat /\ Len(wire'[x]) \in Nat
  BY <1>1
<1>3. ASSUME NEW x \in Side, Flush(x)
      PROVE  /\ flushed' \in [Side -> Nat]
             /\ \A z \in Side : flushed'[z] <= Len(wire'[z])
  BY <1>1, <1>2, <1>3 DEF Flush
<1>4. ASSUME NEW x \in Side, Receive(x)
      PROVE  /\ flushed' \in [Side -> Nat]
             /\ \A z \in Side : flushed'[z] <= Len(wire'[z])
  <2> DEFINE y == Peer(x)
             frames == wire[y]
             tail == Tail(frames)
  <2>1. /\ y \in Side /\ frames \in Seq(StreamEvent) /\ frames # <<>>
        /\ tail \in Seq(StreamEvent) /\ Len(tail) = Len(frames) - 1
    BY <1>1, <1>4, Sides DEF Receive
  <2>2. PICK next \in Arrivals(frames) :
           /\ next.rest # <<>> \/ flushed[y] > 0
           /\ wire' = [wire EXCEPT ![y] = next.rest \o tail]
           /\ flushed' = [flushed EXCEPT ![y] =
                              IF next.rest = <<>> THEN flushed[y] - 1
                              ELSE flushed[y]]
    BY <1>1, <1>4, <2>1 DEF Receive
  <2>3. next.rest = <<>> \/ \E e : next.rest = <<e>>
    <3> DEFINE first == Head(frames)
    <3> HIDE DEF first
    <3> QED BY <2>2 DEF Arrivals, DataChunk, first
  <2>4. CASE next.rest = <<>>
    <3>1. wire' = [wire EXCEPT ![y] = tail]
      BY <2>1, <2>2, <2>4
    <3>2. flushed' = [flushed EXCEPT ![y] = flushed[y] - 1] /\ flushed[y] > 0
      BY <2>2, <2>4
    <3> HIDE DEF y, frames, tail
    <3>3. flushed' \in [Side -> Nat]
      BY <1>1, <2>1, <3>2
    <3>4. ASSUME NEW z \in Side PROVE flushed'[z] <= Len(wire'[z])
      BY <1>1, <2>1, <3>1, <3>2 DEF frames
    <3> QED BY <3>3, <3>4
  <2>5. CASE next.rest # <<>>
    <3>1. PICK e : next.rest = <<e>>
      BY <2>3, <2>5
    <3>2. flushed' = flushed
      BY <1>1, <2>2, <2>5
    <3>3. wire' = [wire EXCEPT ![y] = <<e>> \o tail]
      BY <2>2, <3>1
    <3>4. Len(<<e>> \o tail) = Len(frames)
      <4> DEFINE S == StreamEvent \cup {e}
      <4>1. <<e>> \in Seq(S) /\ tail \in Seq(S) /\ Len(<<e>>) = 1
        BY <2>1
      <4>2. Len(<<e>> \o tail) = Len(<<e>>) + Len(tail)
        BY <4>1, ConcatProperties
      <4> QED BY <1>1, <2>1, <4>1, <4>2
    <3> HIDE DEF y, frames, tail
    <3> QED BY <1>1, <2>1, <3>2, <3>3, <3>4 DEF frames
  <2> QED BY <2>4, <2>5
<1>5. ASSUME NEW x \in Side, PollItem(x)
      PROVE  /\ flushed' \in [Side -> Nat]
             /\ \A z \in Side : flushed'[z] <= Len(wire'[z])
  <2>1. /\ wire' = [wire EXCEPT ![x] = Append(wire[x], PolledItem(end[x]))]
        /\ flushed' = [flushed EXCEPT ![x] = IF x \in MayHold THEN flushed[x]
                                             ELSE flushed[x] + 1]
    BY <1>1, <1>5 DEF PollItem
  <2>2. Len(wire'[x]) = Len(wire[x]) + 1
    <3> DEFINE e == PolledItem(end[x])
               S == StreamEvent \cup {e}
    <3>1. wire[x] \in Seq(S) /\ e \in S
      BY <1>1
    <3>2. wire'[x] = Append(wire[x], e)
      BY <1>1, <2>1
    <3> HIDE DEF e, S
    <3> QED BY <3>1, <3>2, AppendProperties
  <2>3. \A z \in Side : z # x => wire'[z] = wire[z]
    BY <1>1, <2>1
  <2>4. /\ flushed' \in [Side -> Nat]
        /\ flushed'[x] <= flushed[x] + 1
        /\ \A z \in Side : z # x => flushed'[z] = flushed[z]
    BY <1>1, <2>1
  <2>5. ASSUME NEW z \in Side PROVE flushed'[z] <= Len(wire'[z])
    <3>1. /\ flushed'[z] \in Nat /\ flushed[z] \in Nat
          /\ flushed[z] <= Len(wire[z]) /\ Len(wire[z]) \in Nat
      BY <1>1, <1>2, <2>4
    <3>2. CASE z = x
      BY <2>2, <2>4, <3>1, <3>2
    <3>3. CASE z # x
      BY <2>3, <2>4, <3>1, <3>3
    <3> QED BY <3>2, <3>3
  <2> QED BY <2>4, <2>5
<1>6. \/ UNCHANGED <<wire, flushed>>
      \/ \E x \in Side : Flush(x) \/ Receive(x) \/ PollItem(x)
  <2>1. ASSUME NEW x \in Side,
               \/ PollNone(x) \/ EndSession(x)
               \/ Write(x) \/ Close(x) \/ Drop(x) \/ Read(x)
        PROVE  UNCHANGED <<wire, flushed>>
    BY <2>1 DEF PollNone, EndSession, Write, Close, Drop, Read
  <2>2. CASE UNCHANGED vars
    BY <2>2 DEF vars
  <2> QED BY <2>1, <2>2 DEF Next
<1>7. CASE UNCHANGED <<wire, flushed>>
  BY <1>1, <1>7
<1> QED BY <1>3, <1>4, <1>5, <1>6, <1>7

LEMMA NextTypeOK == TypeOK /\ [Next]_vars => TypeOK'
<1> SUFFICES ASSUME TypeOK, [Next]_vars PROVE TypeOK'
  OBVIOUS
<1>0. ASSUME NEW x \in Side
      PROVE  /\ end[x] \in HeadState /\ Len(end[x].outbox) <= ChannelSlots
             /\ end[x].outbox \in Seq(Chunk)
  BY DEF TypeOK, HeadState
<1>1. ASSUME NEW x \in Side, Receive(x) PROVE TypeOK'
  <2> DEFINE y == Peer(x)
             frames == wire[y]
  <2>1. PICK next \in Arrivals(frames) :
           /\ next.event \in StreamEvent
           /\ next.rest \o Tail(frames) \in Seq(StreamEvent)
           /\ end' = [end EXCEPT ![x] = Route(end[x], next.event)]
           /\ wire' = [wire EXCEPT ![y] = next.rest \o Tail(frames)]
           /\ accepts' = accepts + IF Accepts(end[x], next.event)
                                   THEN 1 ELSE 0
    BY <1>1, ReceiveEffect
  <2>2. /\ end' \in [Side -> HeadState]
        /\ \A z \in Side : Len(end'[z].outbox) <= ChannelSlots
    BY <1>0, <2>1, RouteEffect, TypeOneEnd
  <2>3. wire' \in [Side -> Seq(StreamEvent)]
    <3> DEFINE left == next.rest \o Tail(frames)
    <3>1. left \in Seq(StreamEvent) /\ wire' = [wire EXCEPT ![y] = left]
      BY <2>1
    <3> HIDE DEF left
    <3> QED BY <3>1 DEF TypeOK
  <2>4. accepts' \in Nat
    BY <2>1 DEF TypeOK
  <2> QED BY <1>1, <2>2, <2>3, <2>4, FlushedType DEF Receive, TypeOK
<1>2. ASSUME NEW x \in Side, PollItem(x) PROVE TypeOK'
  <2>1. /\ end' = [end EXCEPT ![x] = Polled(end[x])]
        /\ wire' = [wire EXCEPT ![x] = Append(wire[x], PolledItem(end[x]))]
        /\ PollsItem(end[x])
    BY <1>2 DEF PollItem, TypeOK
  <2>2. /\ Polled(end[x]) \in HeadState
        /\ Len(Polled(end[x]).outbox) <= ChannelSlots
        /\ PolledItem(end[x]) \in StreamEvent
    <3>1. /\ Len(Filled(end[x]).outbox) \in Nat /\ Len(end[x].outbox) \in Nat
          /\ Len(Filled(end[x]).outbox) <= Len(end[x].outbox)
      BY <1>0, FilledEffect DEF HeadState
    <3> QED BY <1>0, <2>1, <3>1, PolledEffect DEF SameOutbox, ChannelSlots
  <2>3. /\ end' \in [Side -> HeadState]
        /\ \A z \in Side : Len(end'[z].outbox) <= ChannelSlots
    BY <2>1, <2>2, TypeOneEnd
  <2>4. wire' \in [Side -> Seq(StreamEvent)]
    BY <2>1, <2>2 DEF TypeOK
  <2> QED BY <1>2, <2>3, <2>4, FlushedType DEF PollItem, TypeOK
<1>3. ASSUME NEW x \in Side, PollNone(x) \/ EndSession(x) PROVE TypeOK'
  <2>1. end' = [end EXCEPT ![x] = RemoveHead(end[x])]
        /\ up' \in [Side -> BOOLEAN]
    BY <1>3 DEF PollNone, EndSession, TypeOK
  <2>2. /\ RemoveHead(end[x]) \in HeadState
        /\ Len(RemoveHead(end[x]).outbox) <= ChannelSlots
    BY <1>0, RemoveHeadEffect DEF ChannelSlots
  <2>3. /\ end' \in [Side -> HeadState]
        /\ \A z \in Side : Len(end'[z].outbox) <= ChannelSlots
    BY <2>1, <2>2, TypeOneEnd
  <2> QED BY <1>3, <2>1, <2>3, FlushedType DEF PollNone, EndSession, TypeOK
<1>4. ASSUME NEW x \in Side, Write(x) PROVE TypeOK'
  <2>1. PICK chunk \in Chunk, t \in HeadState :
           /\ WriteReady(end[x])
           /\ end' = [end EXCEPT ![x] = t]
           /\ t.outbox = Append(end[x].outbox, chunk)
           /\ written' = [written EXCEPT ![x] = written[x] + Len(chunk)]
           /\ UNCHANGED <<wire, up, accepts, read, eof, broken>>
    BY <1>4, WriteEffect
  <2>2. Len(t.outbox) <= ChannelSlots
    BY <1>0, <2>1, AppendType DEF WriteReady, ChannelSlots
  <2>3. /\ end' \in [Side -> HeadState]
        /\ \A z \in Side : Len(end'[z].outbox) <= ChannelSlots
    BY <2>1, <2>2, TypeOneEnd
  <2>4. written' \in [Side -> Nat]
    BY <2>1 DEF TypeOK, Chunk
  <2> QED BY <2>1, <2>3, <2>4, FlushedType DEF TypeOK
<1>5. ASSUME NEW x \in Side, Close(x) \/ Drop(x) PROVE TypeOK'
  <2>1. \/ end' = [end EXCEPT ![x] = PollClose(end[x])]
        \/ end' = [end EXCEPT ![x] = DropHandle(end[x])]
    BY <1>5 DEF Close, Drop, TypeOK
  <2>2. ASSUME NEW t \in {PollClose(end[x]), DropHandle(end[x])}
        PROVE  t \in HeadState /\ Len(t.outbox) <= ChannelSlots
    BY <1>0, PollCloseEffect, DropHandleEffect
  <2>3. /\ end' \in [Side -> HeadState]
        /\ \A z \in Side : Len(end'[z].outbox) <= ChannelSlots
    BY <2>1, <2>2, TypeOneEnd
  <2> QED BY <1>5, <2>3, FlushedType DEF Close, Drop, TypeOK
<1>6. ASSUME NEW x \in Side, Read(x) PROVE TypeOK'
  <2>1. PICK bytes \in Chunk, t \in HeadState :
           /\ SameOutbox(end[x], t)
           /\ end' = [end EXCEPT ![x] = t]
           /\ read' = [read EXCEPT ![x] = @ \o bytes]
           /\ eof' = [eof EXCEPT ![x] = @ \/ ReadsEof(end[x])]
           /\ broken' = [broken EXCEPT ![x] = @ \/ ReadsBroken(end[x])]
           /\ UNCHANGED <<wire, up, accepts, written>>
    BY <1>6, ReadEffect
  <2>2. /\ end' \in [Side -> HeadState]
        /\ \A z \in Side : Len(end'[z].outbox) <= ChannelSlots
    BY <1>0, <2>1, TypeOneEnd DEF SameOutbox
  <2>3. read' \in [Side -> Seq(Byte)]
    BY <2>1, ConcatProperties DEF TypeOK, Chunk
  <2>4. eof' \in [Side -> BOOLEAN] /\ broken' \in [Side -> BOOLEAN]
    BY <2>1 DEF TypeOK, ReadsEof, ReadsBroken
  <2> QED BY <2>1, <2>2, <2>3, <2>4, FlushedType DEF TypeOK
<1>7. CASE UNCHANGED vars
  BY <1>7 DEF vars, TypeOK
<1>8. ASSUME NEW x \in Side, Flush(x) PROVE TypeOK'
  <2>1. UNCHANGED <<end, wire, up, accepts, written, read, eof, broken>>
    BY <1>8 DEF Flush
  <2> QED BY <2>1, FlushedType DEF TypeOK
<1> QED BY <1>1, <1>2, <1>3, <1>4, <1>5, <1>6, <1>7, <1>8 DEF Next

\* The state of the pair keeps its shape, and a bounded channel its bound.
THEOREM TypeCorrect == Spec => []TypeOK
<1> QED BY InitTypeOK, NextTypeOK, PTL DEF Spec

-----------------------------------------------------------------------------
\* A stream is accepted once.  The opening frame is the first that the opener
\* sends, and the acceptor has no stream before it; no other frame opens or
\* resets a stream.
Syn == WindowUpdate({"SYN"}, InitialWindow)
Plain == {event \in StreamEvent : {"SYN", "RST"} \cap EventFlags(event) = {}}
Opening(q) == q # <<>> /\ Head(q) = Syn /\ Tail(q) \in Seq(Plain)

AcceptInv ==
    \/ /\ accepts = 1
       /\ \A x \in Side : wire[x] \in Seq(Plain) /\ end[x].outs \in Seq(Plain)
    \/ /\ accepts = 0
       /\ end["acceptor"] = NoStream /\ wire["acceptor"] = <<>>
       /\ written["acceptor"] = 0 /\ read["acceptor"] = <<>>
       /\ ~eof["acceptor"] /\ ~broken["acceptor"]
       /\ \/ Opening(wire["opener"]) /\ end["opener"].outs \in Seq(Plain)
          \/ /\ wire["opener"] = <<>>
             /\ Opening(end["opener"].outs) \/ ~end["opener"].alive
             /\ ~end["opener"].alive => end["opener"].outs = <<>>

LEMMA SynType ==
  /\ Syn \in StreamEvent /\ Syn.kind = "WindowUpdate" /\ Syn.delta = InitialWindow
  /\ Syn.flags = {"SYN"} /\ EventFlags(Syn) = {"SYN"}
<1>1. PICK flags \in SUBSET Flag : flags = {"SYN"}
  BY DEF Flag
<1>2. /\ Syn \in StreamEvent /\ Syn.kind = "WindowUpdate"
      /\ Syn.delta = InitialWindow /\ Syn.flags = {"SYN"}
  BY <1>1, WindowUpdateType, WindowAssumption DEF Syn
<1> QED BY <1>2 DEF EventFlags

LEMMA PlainTypes ==
  /\ \A flags \in SUBSET Flag, delta \in Nat :
        flags \cap {"SYN", "RST"} = {} => WindowUpdate(flags, delta) \in Plain
  /\ Fin \in Plain /\ <<>> \in Seq(Plain)
  /\ \A chunk \in Chunk :
        Data({}, Len(chunk)) \in Plain /\ DataChunk(chunk) \in Plain
<1>1. ASSUME NEW flags \in SUBSET Flag, NEW delta \in Nat,
             flags \cap {"SYN", "RST"} = {}
      PROVE  WindowUpdate(flags, delta) \in Plain
  BY <1>1, WindowUpdateType DEF Plain, EventFlags
<1>2. Fin \in Plain
  BY FinType DEF Plain, EventFlags
<1>3. ASSUME NEW chunk \in Chunk
      PROVE  Data({}, Len(chunk)) \in Plain /\ DataChunk(chunk) \in Plain
  <2>1. PICK flags \in SUBSET Flag, size \in Nat :
           flags = {} /\ size = Len(chunk)
    <3>1. {} \in SUBSET Flag /\ Len(chunk) \in Nat
      BY DEF Chunk
    <3> QED BY <3>1
  <2>2. Data(flags, size) \in Plain
    BY <2>1, DataType DEF Plain, EventFlags
  <2>3. DataChunk(chunk) \in Plain
    BY DataChunkType DEF Plain, EventFlags
  <2> QED BY <2>1, <2>2, <2>3
<1> QED BY <1>1, <1>2, <1>3

LEMMA PlainQueues ==
  ASSUME NEW s \in HeadState, s.outs \in Seq(Plain), NEW t, QueuesUpdate(s, t)
  PROVE  t.outs \in Seq(Plain)
<1>1. CASE t.outs = s.outs
  BY <1>1
<1>2. CASE t.outs # s.outs
  <2>1. PICK event \in StreamEvent :
           /\ event.kind = "WindowUpdate" /\ event.flags \subseteq {"FIN"}
           /\ t.outs = Append(s.outs, event)
    BY <1>2 DEF QueuesUpdate
  <2>2. event \in Plain
    BY <2>1 DEF Plain, EventFlags
  <2> QED BY <2>1, <2>2
<1> QED BY <1>1, <1>2

LEMMA PlainTurn ==
  ASSUME NEW s \in HeadState, NEW t \in HeadState, Turn(s, t),
         s.outs \in Seq(Plain)
  PROVE  t.outs \in Seq(Plain)
<1>1. CASE t.outs = s.outs \/ t.outs = Append(s.outs, Fin)
  BY <1>1, PlainTypes
<1>2. CASE ~(t.outs = s.outs \/ t.outs = Append(s.outs, Fin))
  <2> DEFINE chunk == Head(s.outbox)
             header == Data({}, Len(chunk))
             payload == DataChunk(chunk)
  <2>1. s.outbox # <<>> /\ t.outs = s.outs \o <<header, payload>>
    BY <1>2 DEF Turn, Ending, Moving
  <2>2. chunk \in Chunk
    BY <2>1 DEF HeadState
  <2> HIDE DEF chunk
  <2>3. header \in Plain /\ payload \in Plain
    BY <2>2, PlainTypes
  <2> HIDE DEF header, payload
  <2>4. <<header, payload>> \in Seq(Plain)
    BY <2>3
  <2> QED BY <2>1, <2>4, ConcatProperties
<1> QED BY <1>1, <1>2

LEMMA PlainFilled ==
  ASSUME NEW s \in HeadState, s.outs \in Seq(Plain)
  PROVE  Filled(s).outs \in Seq(Plain)
<1>1. PICK one, two \in HeadState :
         Turn(s, one) /\ Turn(one, two) /\ Turn(two, Filled(s))
  BY FilledTurns
<1>2. Filled(s) \in HeadState
  BY FilledEffect
<1>3. one.outs \in Seq(Plain)
  BY <1>1, PlainTurn
<1>4. two.outs \in Seq(Plain)
  BY <1>1, <1>3, PlainTurn
<1> QED BY <1>1, <1>2, <1>4, PlainTurn

\* The queues of a head whose frames are plain, and those of one that still has
\* to open its stream.
LEMMA PlainPolled ==
  ASSUME NEW s \in HeadState, s.outs \in Seq(Plain), PollsItem(s)
  PROVE  PolledItem(s) \in Plain /\ Polled(s).outs \in Seq(Plain)
<1>1. /\ Filled(s).outs \in Seq(Plain) /\ Filled(s).outs # <<>>
      /\ Polled(s).outs = Tail(Filled(s).outs)
      /\ PolledItem(s) = Head(Filled(s).outs)
  BY PlainFilled, PolledEffect
<1> HIDE DEF PolledItem
<1> QED BY <1>1, HeadTailType

LEMMA OpeningPolled ==
  ASSUME NEW s \in HeadState, Opening(s.outs), PollsItem(s)
  PROVE  PolledItem(s) = Syn /\ Polled(s).outs \in Seq(Plain)
<1>1. s.outs # <<>> /\ Filled(s) = s
  BY DEF Opening, Filled
<1> QED BY <1>1, PolledEffect DEF Opening

LEMMA OpeningAppend ==
  ASSUME NEW q \in Seq(StreamEvent), Opening(q), NEW event \in Plain
  PROVE  Opening(Append(q, event))
<1> DEFINE after == Append(q, event)
<1>1. q # <<>> /\ Head(q) = Syn /\ Tail(q) \in Seq(Plain)
  BY DEF Opening
<1>2. after # <<>> /\ Head(after) = Head(q) /\ Tail(after) = Append(Tail(q), event)
  BY <1>1 DEF Plain
<1> HIDE DEF after
<1> QED BY <1>1, <1>2 DEF Opening, after

LEMMA OpeningQueues ==
  ASSUME NEW s \in HeadState, Opening(s.outs), NEW t, QueuesUpdate(s, t)
  PROVE  Opening(t.outs)
<1>1. CASE t.outs = s.outs
  BY <1>1
<1>2. CASE t.outs # s.outs
  <2>1. PICK event \in StreamEvent :
           /\ event.kind = "WindowUpdate" /\ event.flags \subseteq {"FIN"}
           /\ t.outs = Append(s.outs, event)
    BY <1>2 DEF QueuesUpdate
  <2>2. event \in Plain
    BY <2>1 DEF Plain, EventFlags
  <2> QED BY <2>1, <2>2, OpeningAppend DEF HeadState
<1> QED BY <1>1, <1>2

\* What a frame, or a part of one, makes of the wire it is taken from.
LEMMA TakenPlain ==
  ASSUME NEW frames \in Seq(Plain), frames # <<>>, NEW next \in Arrivals(frames)
  PROVE  next.event \in Plain /\ next.rest \o Tail(frames) \in Seq(Plain)
<1> DEFINE first == Head(frames)
<1>1. first \in Plain /\ Tail(frames) \in Seq(Plain) /\ Plain \subseteq StreamEvent
  BY HeadTailType DEF Plain
<1>2. frames \in Seq(StreamEvent)
  BY <1>1
<1>3. CASE next.event = first /\ next.rest = <<>>
  BY <1>1, <1>3
<1>4. CASE ~(next.event = first /\ next.rest = <<>>)
  <2>1. PICK n \in 1..Len(first.chunk) - 1 :
           /\ first.chunk \in Chunk
           /\ next.event = DataChunk(SubSeq(first.chunk, 1, n))
           /\ next.rest = <<DataChunk(SubSeq(first.chunk, n + 1,
                                             Len(first.chunk)))>>
    BY <1>2, <1>4, ArrivalsEffect
  <2> DEFINE one == SubSeq(first.chunk, 1, n)
             two == SubSeq(first.chunk, n + 1, Len(first.chunk))
  <2>2. one \in Chunk /\ two \in Chunk
    <3>1. Len(first.chunk) \in Nat /\ n \in Nat /\ n <= Len(first.chunk)
      BY <2>1 DEF Chunk
    <3> QED BY <2>1, <3>1, PartType DEF Chunk
  <2> HIDE DEF one, two
  <2>3. DataChunk(one) \in Plain /\ DataChunk(two) \in Plain
    BY <2>2, PlainTypes
  <2>4. next.event = DataChunk(one) /\ next.rest = <<DataChunk(two)>>
    BY <2>1 DEF one, two
  <2> DEFINE rest == DataChunk(two)
             tail == Tail(frames)
  <2> HIDE DEF rest, tail
  <2>5. <<rest>> \o tail \in Seq(Plain)
    <3>1. <<rest>> \in Seq(Plain) /\ tail \in Seq(Plain)
      BY <1>1, <2>3 DEF rest, tail
    <3> QED BY <3>1, ConcatProperties
  <2> QED BY <2>3, <2>4, <2>5 DEF rest, tail
<1> QED BY <1>3, <1>4

\* The opening frame is not a payload: it arrives whole.
LEMMA TakenOpening ==
  ASSUME NEW frames \in Seq(StreamEvent), Opening(frames),
         NEW next \in Arrivals(frames)
  PROVE  next.event = Syn /\ next.rest \o Tail(frames) \in Seq(Plain)
<1>1. /\ frames # <<>> /\ Head(frames) = Syn /\ Tail(frames) \in Seq(Plain)
      /\ Syn.kind = "WindowUpdate"
  BY SynType DEF Opening
<1>2. next.event = Syn /\ next.rest = <<>>
  BY <1>1, ArrivalsEffect
<1> QED BY <1>1, <1>2

\* A head polled or fed as the sessions do it never queues an opening frame.
LEMMA PlainInput ==
  ASSUME NEW s \in HeadState, s.outs \in Seq(Plain), NEW event \in StreamEvent
  PROVE  OnInput(s, event).outs \in Seq(Plain)
  BY OnInputEffect, PlainQueues

LEMMA PlainAccept == AcceptStream.outs \in Seq(Plain)
<1>1. AcceptStream.outs = <<WindowUpdate({"ACK"}, InitialWindow)>>
  BY NewHeadEffect DEF AcceptStream, Flag
<1>2. WindowUpdate({"ACK"}, InitialWindow) \in Plain
  <2>1. PICK flags \in SUBSET Flag : flags = {"ACK"}
    BY DEF Flag
  <2> QED BY <2>1, PlainTypes, WindowAssumption
<1> QED BY <1>1, <1>2

\* Nothing changes a stream that does not exist.
LEMMA RemovedTwice ==
  RemoveHead(NoStream) = NoStream
<1> DEFINE s == DropHandle(AcceptStream)
<1>1. s \in HeadState
  BY NewEnds, DropHandleEffect
<1> HIDE DEF s
<1>2. RemoveHead(RemoveHead(s)) = RemoveHead(s)
  BY <1>1 DEF RemoveHead, HeadState
<1> QED BY <1>2 DEF NoStream, s

\* The steps that move no frame between the ends, and what they leave alone.
LEMMA LocalStep ==
  ASSUME TypeOK, NEW x \in Side,
         PollNone(x) \/ EndSession(x) \/ Write(x) \/ Close(x) \/ Drop(x) \/ Read(x)
  PROVE  /\ UNCHANGED <<wire, accepts>>
         /\ end' \in [Side -> HeadState] /\ end'[Peer(x)] = end[Peer(x)]
         /\ \/ end'[x] = RemoveHead(end[x])
            \/ HeadKept(end[x], end'[x])
         /\ end[x] = NoStream =>
               end'[x] = NoStream /\ UNCHANGED <<written, read, eof, broken>>
<1>0. end[x] \in HeadState /\ Len(end[x].outbox) <= ChannelSlots
  BY DEF TypeOK
<1>1. CASE PollNone(x) \/ EndSession(x)
  <2>1. end' = [end EXCEPT ![x] = RemoveHead(end[x])]
        /\ UNCHANGED <<wire, accepts, written, read, eof, broken>>
    BY <1>1 DEF PollNone, EndSession, TypeOK
  <2>2. /\ RemoveHead(end[x]) \in HeadState
        /\ Len(RemoveHead(end[x]).outbox) <= ChannelSlots
    BY <1>0, RemoveHeadEffect DEF ChannelSlots
  <2> QED BY <2>1, <2>2, TypeOneEnd, RemovedTwice
<1>2. CASE Write(x)
  <2>1. PICK t \in HeadState :
           /\ WriteReady(end[x]) /\ end' = [end EXCEPT ![x] = t]
           /\ HeadKept(end[x], t) /\ UNCHANGED <<wire, accepts>>
    BY <1>2, WriteEffect
  <2>2. end[x] # NoStream
    BY <2>1, NewEnds DEF WriteReady
  <2>3. end' \in [Side -> HeadState] /\ end'[x] = t /\ end'[Peer(x)] = end[Peer(x)]
    BY <2>1, Sides DEF TypeOK
  <2> QED BY <2>1, <2>2, <2>3
<1>3. CASE Close(x) \/ Drop(x)
  <2>1. /\ \/ end' = [end EXCEPT ![x] = PollClose(end[x])] /\ end[x].txOpen
           \/ end' = [end EXCEPT ![x] = DropHandle(end[x])] /\ end[x].rxOpen
        /\ UNCHANGED <<wire, accepts>>
    BY <1>3 DEF Close, Drop, TypeOK
  <2>2. end[x] # NoStream
    BY <2>1, NewEnds
  <2>3. ASSUME NEW t \in {PollClose(end[x]), DropHandle(end[x])}
        PROVE  t \in HeadState /\ HeadKept(end[x], t)
    BY <1>0, PollCloseEffect, DropHandleEffect
  <2>4. \E t \in {PollClose(end[x]), DropHandle(end[x])} :
           end' = [end EXCEPT ![x] = t]
    BY <2>1
  <2>5. /\ end' \in [Side -> HeadState] /\ HeadKept(end[x], end'[x])
        /\ end'[Peer(x)] = end[Peer(x)]
    BY <2>3, <2>4, Sides DEF TypeOK
  <2> QED BY <2>1, <2>2, <2>5
<1>4. CASE Read(x)
  <2>1. PICK t \in HeadState :
           /\ end[x].rxOpen /\ end' = [end EXCEPT ![x] = t]
           /\ HeadKept(end[x], t) /\ UNCHANGED <<wire, accepts>>
    BY <1>4, ReadEffect
  <2>2. end[x] # NoStream
    BY <2>1, NewEnds
  <2>3. end' \in [Side -> HeadState] /\ end'[x] = t /\ end'[Peer(x)] = end[Peer(x)]
    BY <2>1, Sides DEF TypeOK
  <2> QED BY <2>1, <2>2, <2>3
<1> QED BY <1>1, <1>2, <1>3, <1>4

LEMMA TwoSides ==
  /\ Side = {"opener", "acceptor"}
  /\ Peer("opener") = "acceptor" /\ Peer("acceptor") = "opener"
  BY DEF Side, Peer

LEMMA InitAccept == Init => AcceptInv
<1> SUFFICES ASSUME Init PROVE AcceptInv
  OBVIOUS
<1>1. Opening(OpenStream.outs)
  <2>1. OpenStream.outs = <<Syn>>
    BY NewHeadEffect DEF OpenStream, Flag, Syn
  <2>2. Head(<<Syn>>) = Syn /\ Tail(<<Syn>>) = <<>>
    OBVIOUS
  <2> QED BY <2>1, <2>2, PlainTypes DEF Opening
<1>2. OpenStream.alive
  BY NewHeadEffect DEF OpenStream, Flag
<1> QED BY <1>1, <1>2, TwoSides DEF Init, AcceptInv

\* What a step of Receive does, by whether the frame opens the stream.
LEMMA ReceiveCases ==
  ASSUME TypeOK, AcceptInv, NEW x \in Side, Receive(x)
  PROVE  LET y == Peer(x)
             frames == wire[y]
         IN  /\ frames \in Seq(StreamEvent) /\ frames # <<>>
             /\ \E next \in Arrivals(frames) :
                /\ next.event \in StreamEvent
                /\ next.rest \o Tail(frames) \in Seq(Plain)
                /\ wire' = [wire EXCEPT ![y] = next.rest \o Tail(frames)]
                /\ end' \in [Side -> HeadState] /\ end'[y] = end[y]
                /\ UNCHANGED <<up, written, read, eof, broken>>
                /\ \/ /\ accepts = 0 /\ x = "acceptor" /\ next.event = Syn
                      /\ accepts' = 1
                      /\ end'[x] = OnInput(AcceptStream, next.event)
                      /\ end["opener"].outs \in Seq(Plain)
                   \/ /\ accepts = 1 /\ accepts' = 1
                      /\ next.event \in Plain
                      /\ end'[x] = IF end[x].alive
                                   THEN OnInput(end[x], next.event) ELSE end[x]
<1> DEFINE y == Peer(x)
           frames == wire[y]
<1>1. frames \in Seq(StreamEvent) /\ frames # <<>> /\ y \in Side
  BY ReceiveEffect, Sides
<1>2. PICK next \in Arrivals(frames) :
         /\ next.event \in StreamEvent
         /\ end' = [end EXCEPT ![x] = Route(end[x], next.event)]
         /\ wire' = [wire EXCEPT ![y] = next.rest \o Tail(frames)]
         /\ accepts' = accepts + IF Accepts(end[x], next.event) THEN 1 ELSE 0
  BY ReceiveEffect
<1>3. UNCHANGED <<up, written, read, eof, broken>>
  BY DEF Receive
<1>4. /\ end' \in [Side -> HeadState] /\ end'[y] = end[y]
      /\ end'[x] = Route(end[x], next.event) /\ end[x] \in HeadState
  <2>1. end[x] \in HeadState /\ Len(end[x].outbox) <= ChannelSlots
    BY DEF TypeOK
  <2>2. /\ Route(end[x], next.event) \in HeadState
        /\ Len(Route(end[x], next.event).outbox) <= ChannelSlots
    BY <1>2, <2>1, RouteEffect
  <2> QED BY <1>2, <2>1, <2>2, TypeOneEnd
<1> HIDE DEF frames, y
<1>5. CASE accepts = 0
  <2>1. /\ end["acceptor"] = NoStream /\ wire["acceptor"] = <<>>
        /\ \/ Opening(wire["opener"]) /\ end["opener"].outs \in Seq(Plain)
           \/ wire["opener"] = <<>>
    BY <1>5 DEF AcceptInv
  <2>2. x = "acceptor" /\ y = "opener"
    BY <1>1, <2>1, TwoSides DEF frames, y
  <2>3. Opening(frames) /\ end["opener"].outs \in Seq(Plain)
    BY <1>1, <2>1, <2>2 DEF frames
  <2>4. next.event = Syn /\ next.rest \o Tail(frames) \in Seq(Plain)
    BY <1>1, <2>3, TakenOpening
  <2>5. ~end[x].alive /\ Accepts(end[x], next.event)
    BY <2>1, <2>2, <2>4, NewEnds, SynType DEF Accepts
  <2>6. accepts' = 1 /\ end'[x] = OnInput(AcceptStream, next.event)
    BY <1>2, <1>4, <1>5, <2>5 DEF Route
  <2> QED BY <1>1, <1>2, <1>3, <1>4, <1>5, <2>2, <2>3, <2>4, <2>6 DEF frames, y
<1>6. CASE accepts = 1
  <2>1. frames \in Seq(Plain)
    BY <1>1, <1>6 DEF AcceptInv, frames
  <2>2. next.event \in Plain /\ next.rest \o Tail(frames) \in Seq(Plain)
    BY <1>1, <2>1, TakenPlain
  <2>3. ~Accepts(end[x], next.event)
    BY <2>2 DEF Accepts, Plain
  <2>4. end'[x] = IF end[x].alive THEN OnInput(end[x], next.event) ELSE end[x]
    BY <1>4, <2>3 DEF Route
  <2>5. accepts' = 1
    BY <1>2, <1>6, <2>3
  <2> QED BY <1>1, <1>2, <1>3, <1>4, <1>6, <2>2, <2>4, <2>5 DEF frames, y
<1> QED BY <1>5, <1>6 DEF AcceptInv

LEMMA NextAccept == TypeOK /\ AcceptInv /\ [Next]_vars => AcceptInv'
<1> SUFFICES ASSUME TypeOK, AcceptInv, [Next]_vars PROVE AcceptInv'
  OBVIOUS
<1> USE TwoSides
<1>0. /\ \A x \in Side : end[x] \in HeadState /\ wire[x] \in Seq(StreamEvent)
      /\ wire \in [Side -> Seq(StreamEvent)]
  BY DEF TypeOK
<1>1. ASSUME NEW x \in Side, Receive(x) PROVE AcceptInv'
  <2> DEFINE y == Peer(x)
             frames == wire[y]
  <2>1. PICK next \in Arrivals(frames) :
           /\ next.event \in StreamEvent
           /\ next.rest \o Tail(frames) \in Seq(Plain)
           /\ wire' = [wire EXCEPT ![y] = next.rest \o Tail(frames)]
           /\ end'[y] = end[y]
           /\ \/ /\ accepts = 0 /\ x = "acceptor" /\ next.event = Syn
                 /\ accepts' = 1
                 /\ end'[x] = OnInput(AcceptStream, next.event)
                 /\ end["opener"].outs \in Seq(Plain)
              \/ /\ accepts = 1 /\ accepts' = 1
                 /\ next.event \in Plain
                 /\ end'[x] = IF end[x].alive
                              THEN OnInput(end[x], next.event) ELSE end[x]
    BY <1>1, ReceiveCases
  <2> DEFINE left == next.rest \o Tail(frames)
  <2>2. left \in Seq(Plain) /\ wire' = [wire EXCEPT ![y] = left]
    BY <2>1
  <2> HIDE DEF left, frames
  <2>3. CASE accepts = 0
    <3>1. end'["acceptor"].outs \in Seq(Plain)
      BY <2>1, <2>3, NewEnds, PlainAccept, PlainInput
    <3>2. end'["opener"].outs \in Seq(Plain) /\ accepts' = 1
      BY <2>1, <2>3
    <3>3. wire'["acceptor"] = <<>> /\ wire'["opener"] = left
      BY <1>0, <2>1, <2>2, <2>3 DEF AcceptInv
    <3> QED BY <2>2, <3>1, <3>2, <3>3, PlainTypes DEF AcceptInv
  <2>4. CASE accepts = 1
    <3>1. \A z \in Side : wire[z] \in Seq(Plain) /\ end[z].outs \in Seq(Plain)
      BY <2>4 DEF AcceptInv
    <3>2. end'[x].outs \in Seq(Plain)
      BY <1>0, <2>1, <2>4, <3>1, PlainInput
    <3>3. \A z \in Side : wire'[z] \in Seq(Plain)
      BY <1>0, <2>2, <3>1
    <3>4. \A z \in Side : end'[z].outs \in Seq(Plain)
      BY <2>1, <3>1, <3>2, Sides
    <3> QED BY <2>1, <2>4, <3>3, <3>4 DEF AcceptInv
  <2> QED BY <2>3, <2>4 DEF AcceptInv
<1>2. ASSUME NEW x \in Side, PollItem(x) PROVE AcceptInv'
  <2> DEFINE s == end[x]
             item == PolledItem(s)
             t == Polled(s)
  <2>1. /\ s \in HeadState /\ s.alive /\ PollsItem(s)
        /\ end' = [end EXCEPT ![x] = t] /\ end \in [Side -> HeadState]
        /\ wire' = [wire EXCEPT ![x] = Append(wire[x], item)]
        /\ UNCHANGED <<accepts, written, read, eof, broken>>
    BY <1>2 DEF PollItem, TypeOK
  <2> HIDE DEF s
  <2>2. CASE accepts = 1
    <3>1. \A z \in Side : wire[z] \in Seq(Plain) /\ end[z].outs \in Seq(Plain)
      BY <2>2 DEF AcceptInv
    <3>2. item \in Plain /\ t.outs \in Seq(Plain)
      BY <2>1, <3>1, PlainPolled DEF s
    <3> HIDE DEF item, t
    <3>3. \A z \in Side : wire'[z] \in Seq(Plain)
      BY <1>0, <2>1, <3>1, <3>2
    <3>4. \A z \in Side : end'[z].outs \in Seq(Plain)
      BY <2>1, <3>1, <3>2
    <3> QED BY <2>1, <2>2, <3>3, <3>4 DEF AcceptInv
  <2>3. CASE accepts = 0
    <3>1. x = "opener" /\ end'["acceptor"] = end["acceptor"]
          /\ wire'["acceptor"] = wire["acceptor"]
      <4>1. ~end["acceptor"].alive
        BY <2>3, NewEnds DEF AcceptInv
      <4>2. x = "opener"
        BY <2>1, <4>1 DEF s
      <4> QED BY <2>1, <4>2, <1>0
    <3>2. Opening(wire'["opener"]) /\ end'["opener"].outs \in Seq(Plain)
      <4>1. /\ wire'["opener"] = Append(wire["opener"], item)
            /\ end'["opener"] = t
        BY <1>0, <2>1, <3>1
      <4>2. CASE Opening(wire["opener"]) /\ end["opener"].outs \in Seq(Plain)
        <5>1. item \in Plain /\ t.outs \in Seq(Plain)
          BY <2>1, <3>1, <4>2, PlainPolled DEF s
        <5> HIDE DEF item, t
        <5> QED BY <1>0, <4>1, <4>2, <5>1, OpeningAppend
      <4>3. CASE wire["opener"] = <<>> /\ Opening(end["opener"].outs)
        <5>1. item = Syn /\ t.outs \in Seq(Plain)
          BY <2>1, <3>1, <4>3, OpeningPolled DEF s
        <5>2. wire'["opener"] = <<Syn>>
          BY <4>1, <4>3, <5>1
        <5>3. Head(<<Syn>>) = Syn /\ Tail(<<Syn>>) = <<>> /\ <<Syn>> # <<>>
          OBVIOUS
        <5> QED BY <4>1, <5>1, <5>2, <5>3, PlainTypes DEF Opening
      <4> QED BY <2>1, <2>3, <3>1, <4>2, <4>3 DEF AcceptInv, s
    <3> QED BY <2>1, <2>3, <3>1, <3>2 DEF AcceptInv
  <2> QED BY <2>2, <2>3 DEF AcceptInv
<1>3. ASSUME NEW x \in Side,
             \/ PollNone(x) \/ EndSession(x) \/ Write(x) \/ Close(x) \/ Drop(x)
             \/ Read(x)
      PROVE  AcceptInv'
  <2>1. /\ UNCHANGED <<wire, accepts>>
        /\ end' \in [Side -> HeadState] /\ end'[Peer(x)] = end[Peer(x)]
        /\ end'[x] = RemoveHead(end[x]) \/ HeadKept(end[x], end'[x])
        /\ end[x] = NoStream =>
              end'[x] = NoStream /\ UNCHANGED <<written, read, eof, broken>>
    BY <1>3, LocalStep
  <2>2. \/ end'[x].outs = end[x].outs /\ end'[x].alive = end[x].alive
        \/ end'[x].outs = <<>> /\ ~end'[x].alive
    BY <1>0, <2>1, RemoveHeadEffect DEF HeadKept
  <2>3. CASE accepts = 1
    <3>1. \A z \in Side : wire[z] \in Seq(Plain) /\ end[z].outs \in Seq(Plain)
      BY <2>3 DEF AcceptInv
    <3>2. \A z \in Side : end'[z].outs \in Seq(Plain)
      BY <2>1, <2>2, <3>1, PlainTypes, Sides
    <3> QED BY <2>1, <2>3, <3>1, <3>2 DEF AcceptInv
  <2>4. CASE accepts = 0
    <3>1. CASE x = "acceptor"
      BY <2>1, <2>4, <3>1 DEF AcceptInv
    <3>2. CASE x = "opener"
      <4>1. UNCHANGED <<written["acceptor"], read["acceptor"], eof["acceptor"],
                        broken["acceptor"]>>
        BY <1>3, <3>2 DEF PollNone, EndSession, Write, Close, Drop, Read, TypeOK
      <4>2. end'["opener"].outs \in Seq(Plain) \/ Opening(end'["opener"].outs)
        BY <2>2, <2>4, <3>2, PlainTypes DEF AcceptInv
      <4> QED BY <2>1, <2>2, <2>4, <3>2, <4>1, PlainTypes DEF AcceptInv
    <3> QED BY <3>1, <3>2
  <2> QED BY <2>3, <2>4 DEF AcceptInv
<1>4. CASE Unmoved
  BY <1>4 DEF Unmoved, AcceptInv
<1> QED BY <1>1, <1>2, <1>3, <1>4, FlushUnmoved DEF Next

\* One opened stream is yielded to the acceptor once: only the opening frame
\* creates a head, and frames that arrive after the head was removed do not.
THEOREM AcceptCorrect == Spec => []AcceptOnce
<1>1. AcceptInv => AcceptOnce
  BY DEF AcceptInv, AcceptOnce
<1>2. Spec => [](TypeOK /\ AcceptInv)
  BY InitTypeOK, NextTypeOK, InitAccept, NextAccept, PTL DEF Spec
<1> QED BY <1>1, <1>2, PTL

-----------------------------------------------------------------------------
\* A direction of the stream as a path.  A station is a position in what the
\* sender writes and the payload that the next chunk still belongs to; a frame
\* leads from one station to another, a chunk from one position to another.
\* Positions go to top, the bytes written so far; ends is where the direction
\* may end, nowhere while its writer has not closed.
Run(chunk, from) == \A j \in 1..Len(chunk) : chunk[j] = from + j

ChunkStep(from, chunk, to, ends) ==
    /\ Run(chunk, from) /\ to = from + Len(chunk)
    /\ chunk = <<>> => to \in ends
ChunkSteps(top, ends) ==
    {r \in (0..top) \X Chunk \X (0..top) : ChunkStep(r[1], r[2], r[3], ends)}

Stations(top) == [at : 0..top, owed : Nat \cup {NoPayload}]
Station(at, owed) == [at |-> at, owed |-> owed]

EventStep(s, event, t, ends) ==
    /\ HasFin(event) => t.at \in ends
    /\ CASE event.kind = "Data" ->
              s.owed = NoPayload /\ t = Station(s.at, event.size)
         [] event.kind = "DataChunk" ->
              LET n == Len(event.chunk)
              IN  /\ s.owed \in Nat /\ n <= s.owed
                  /\ event.chunk # <<>> /\ Run(event.chunk, s.at)
                  /\ t = Station(s.at + n, IF n = s.owed THEN NoPayload
                                                         ELSE s.owed - n)
         [] event.kind = "WindowUpdate" -> t = s
EventSteps(top, ends) ==
    {r \in Stations(top) \X StreamEvent \X Stations(top) :
        EventStep(r[1], r[2], r[3], ends)}

LEMMA StationType ==
  ASSUME NEW top \in Nat
  PROVE  /\ \A at \in 0..top, owed \in Nat \cup {NoPayload} :
               /\ Station(at, owed) \in Stations(top)
               /\ Station(at, owed).at = at /\ Station(at, owed).owed = owed
         /\ \A s \in Stations(top) :
               /\ s.at \in 0..top /\ s.at \in Nat
               /\ s.owed \in Nat \cup {NoPayload}
               /\ s = Station(s.at, s.owed)
  BY DEF Stations, Station

LEMMA StepsIff ==
  ASSUME NEW top \in Nat, NEW ends
  PROVE  /\ \A from, chunk, to :
               <<from, chunk, to>> \in ChunkSteps(top, ends)
               <=> /\ from \in 0..top /\ to \in 0..top /\ chunk \in Chunk
                   /\ ChunkStep(from, chunk, to, ends)
         /\ \A s, event, t :
               <<s, event, t>> \in EventSteps(top, ends)
               <=> /\ s \in Stations(top) /\ t \in Stations(top)
                   /\ event \in StreamEvent /\ EventStep(s, event, t, ends)
<1>1. ASSUME NEW from, NEW chunk, NEW to
      PROVE  <<from, chunk, to>> \in ChunkSteps(top, ends)
               <=> /\ from \in 0..top /\ to \in 0..top /\ chunk \in Chunk
                   /\ ChunkStep(from, chunk, to, ends)
  BY DEF ChunkSteps
<1>2. ASSUME NEW s, NEW event, NEW t
      PROVE  <<s, event, t>> \in EventSteps(top, ends)
               <=> /\ s \in Stations(top) /\ t \in Stations(top)
                   /\ event \in StreamEvent /\ EventStep(s, event, t, ends)
  BY DEF EventSteps
<1> QED BY <1>1, <1>2

\* Writing more, or closing, only adds steps.
LEMMA MoreSteps ==
  ASSUME NEW top \in Nat, NEW more \in Nat, top <= more,
         NEW ends, NEW mends, ends \subseteq mends
  PROVE  /\ ChunkSteps(top, ends) \subseteq ChunkSteps(more, mends)
         /\ EventSteps(top, ends) \subseteq EventSteps(more, mends)
         /\ Stations(top) \subseteq Stations(more)
<1>1. 0..top \subseteq 0..more
  OBVIOUS
<1>2. Stations(top) \subseteq Stations(more)
  BY <1>1 DEF Stations
<1>3. \A from, chunk, to :
         ChunkStep(from, chunk, to, ends) => ChunkStep(from, chunk, to, mends)
  BY DEF ChunkStep
<1>4. \A s, event, t : EventStep(s, event, t, ends) => EventStep(s, event, t, mends)
  BY DEF EventStep
<1>5. ChunkSteps(top, ends) \subseteq ChunkSteps(more, mends)
  BY <1>1, <1>3 DEF ChunkSteps
<1>6. EventSteps(top, ends) \subseteq EventSteps(more, mends)
  BY <1>2, <1>4 DEF EventSteps
<1> QED BY <1>2, <1>5, <1>6

\* The frames that the model's heads send.
LEMMA SentSteps ==
  ASSUME NEW top \in Nat, NEW ends, NEW s \in Stations(top), s.owed = NoPayload
  PROVE  /\ s.at \in ends => <<s, Fin, s>> \in EventSteps(top, ends)
         /\ \A event \in StreamEvent :
               event.kind = "WindowUpdate" /\ ~HasFin(event)
                  => <<s, event, s>> \in EventSteps(top, ends)
         /\ \A chunk \in Chunk \ {<<>>} :
               LET mid == Station(s.at, Len(chunk))
                   far == Station(s.at + Len(chunk), NoPayload)
               IN  Run(chunk, s.at) /\ s.at + Len(chunk) <= top =>
                     /\ far \in Stations(top)
                     /\ <<s, Data({}, Len(chunk)), mid>> \in EventSteps(top, ends)
                     /\ <<mid, DataChunk(chunk), far>> \in EventSteps(top, ends)
<1>1. ASSUME s.at \in ends PROVE <<s, Fin, s>> \in EventSteps(top, ends)
  BY <1>1, FinType, StepsIff DEF EventStep
<1>2. ASSUME NEW event \in StreamEvent, event.kind = "WindowUpdate", ~HasFin(event)
      PROVE  <<s, event, s>> \in EventSteps(top, ends)
  BY <1>2, StepsIff DEF EventStep
<1>3. ASSUME NEW chunk \in Chunk \ {<<>>}, Run(chunk, s.at),
             s.at + Len(chunk) <= top
      PROVE  LET mid == Station(s.at, Len(chunk))
                 far == Station(s.at + Len(chunk), NoPayload)
             IN  /\ far \in Stations(top)
                 /\ <<s, Data({}, Len(chunk)), mid>> \in EventSteps(top, ends)
                 /\ <<mid, DataChunk(chunk), far>> \in EventSteps(top, ends)
  <2> DEFINE n == Len(chunk)
             mid == Station(s.at, n)
             far == Station(s.at + n, NoPayload)
  <2>1. n \in Nat /\ n # NoPayload
    BY NoPayloadAssumption DEF Chunk
  <2>2. PICK flags \in SUBSET Flag : flags = {}
    OBVIOUS
  <2>3. /\ Data({}, n) \in StreamEvent /\ Data({}, n).kind = "Data"
        /\ Data({}, n).size = n /\ ~HasFin(Data({}, n))
    BY <2>1, <2>2, DataType DEF HasFin, EventFlags
  <2>4. /\ DataChunk(chunk) \in StreamEvent /\ DataChunk(chunk).kind = "DataChunk"
        /\ DataChunk(chunk).chunk = chunk /\ ~HasFin(DataChunk(chunk))
    BY DataChunkType DEF HasFin, EventFlags
  <2>5. s.at \in 0..top /\ s.at + n \in 0..top
    BY <1>3, <2>1, StationType
  <2>6. /\ mid \in Stations(top) /\ mid.at = s.at /\ mid.owed = n
        /\ far \in Stations(top)
    <3>1. PICK owed \in Nat \cup {NoPayload} : owed = n
      BY <2>1
    <3>2. PICK at \in 0..top, to \in 0..top : at = s.at /\ to = s.at + n
      BY <2>5
    <3>3. /\ Station(at, owed) \in Stations(top)
          /\ Station(at, owed).at = at /\ Station(at, owed).owed = owed
      BY StationType
    <3>4. Station(to, NoPayload) \in Stations(top)
      BY StationType
    <3> QED BY <3>1, <3>2, <3>3, <3>4
  <2>7. EventStep(s, Data({}, n), mid, ends)
    BY <2>3 DEF EventStep
  <2> HIDE DEF mid
  <2>8. EventStep(mid, DataChunk(chunk), far, ends)
    BY <1>3, <2>1, <2>4, <2>6 DEF EventStep
  <2> HIDE DEF far
  <2>9. /\ <<s, Data({}, n), mid>> \in EventSteps(top, ends)
        /\ <<mid, DataChunk(chunk), far>> \in EventSteps(top, ends)
    BY <2>3, <2>4, <2>6, <2>7, <2>8, StepsIff
  <2> QED BY <2>6, <2>9 DEF mid, far
<1> QED BY <1>1, <1>2, <1>3

\* What one end sends and what the other has received, as a path.  The sender's
\* queues lead from m, where what it has sent ends, to top; the receiver's from
\* what it has read, got bytes, to a, where what it has received ends.
Sends(s, top, ends, m) ==
    \E n \in Stations(top) :
        /\ n.owed = NoPayload
        /\ Path(s.outs, EventSteps(top, ends), m, n)
        /\ Path(s.outbox, ChunkSteps(top, {}), n.at, top)
Reads(t, top, ends, got, a) ==
    /\ Run(t.reading, got) /\ got + Len(t.reading) <= top
    /\ Path(t.inbox, ChunkSteps(top, ends), got + Len(t.reading), a)
Flow(top, ends, frames, s, t, got) ==
    \E b \in Stations(top), m \in Stations(top), a \in 0..top :
        /\ Path(frames, EventSteps(top, ends), b, m)
        /\ s.alive => Sends(s, top, ends, m)
        /\ t.alive => t.recvState = b.owed
        /\ t.rxOpen => Reads(t, top, ends, got, a)
        /\ t.rxOpen /\ t.alive => b.at = a

\* Steps that leave the queues of a direction alone, or remove them.
LEMMA FlowKept ==
  ASSUME NEW top \in Nat, NEW ends, NEW mends, ends \subseteq mends,
         NEW frames, NEW s, NEW t, NEW u, NEW v, NEW got,
         Flow(top, ends, frames, s, t, got),
         u.alive => s.alive /\ u.outs = s.outs /\ u.outbox = s.outbox,
         v.alive => t.alive /\ v.recvState = t.recvState,
         v.rxOpen => t.rxOpen /\ v.reading = t.reading /\ v.inbox = t.inbox
  PROVE  Flow(top, mends, frames, u, v, got)
<1>1. PICK b \in Stations(top), m \in Stations(top), a \in 0..top :
         /\ Path(frames, EventSteps(top, ends), b, m)
         /\ s.alive => Sends(s, top, ends, m)
         /\ t.alive => t.recvState = b.owed
         /\ t.rxOpen => Reads(t, top, ends, got, a)
         /\ t.rxOpen /\ t.alive => b.at = a
  BY DEF Flow
<1>2. /\ ChunkSteps(top, ends) \subseteq ChunkSteps(top, mends)
      /\ EventSteps(top, ends) \subseteq EventSteps(top, mends)
  BY MoreSteps
<1>3. Path(frames, EventSteps(top, mends), b, m)
  BY <1>1, <1>2, PathMore
<1>4. u.alive => Sends(u, top, mends, m)
  <2> SUFFICES ASSUME u.alive PROVE Sends(u, top, mends, m)
    OBVIOUS
  <2>1. PICK n \in Stations(top) :
           /\ n.owed = NoPayload
           /\ Path(s.outs, EventSteps(top, ends), m, n)
           /\ Path(s.outbox, ChunkSteps(top, {}), n.at, top)
    BY <1>1 DEF Sends
  <2>2. Path(s.outs, EventSteps(top, mends), m, n)
    BY <1>2, <2>1, PathMore
  <2> QED BY <2>1, <2>2 DEF Sends
<1>5. v.rxOpen => Reads(v, top, mends, got, a)
  <2> SUFFICES ASSUME v.rxOpen PROVE Reads(v, top, mends, got, a)
    OBVIOUS
  <2>1. Path(t.inbox, ChunkSteps(top, ends), got + Len(t.reading), a)
    BY <1>1 DEF Reads
  <2>2. Path(t.inbox, ChunkSteps(top, mends), got + Len(t.reading), a)
    BY <1>2, <2>1, PathMore
  <2> QED BY <1>1, <2>2 DEF Reads
<1> QED BY <1>1, <1>3, <1>4, <1>5 DEF Flow

\* poll_write adds a chunk at the end of the path.
LEMMA FlowWritten ==
  ASSUME NEW top \in Nat, NEW ends, NEW frames,
         NEW s \in HeadState, NEW t \in HeadState, NEW u, NEW got \in Nat,
         Flow(top, ends, frames, s, t, got), s.alive,
         NEW chunk \in Chunk \ {<<>>}, Run(chunk, top),
         u.outs = s.outs, u.outbox = Append(s.outbox, chunk)
  PROVE  Flow(top + Len(chunk), ends, frames, u, t, got)
<1> DEFINE more == top + Len(chunk)
<1>1. PICK b \in Stations(top), m \in Stations(top), a \in 0..top :
         /\ Path(frames, EventSteps(top, ends), b, m)
         /\ s.alive => Sends(s, top, ends, m)
         /\ t.alive => t.recvState = b.owed
         /\ t.rxOpen => Reads(t, top, ends, got, a)
         /\ t.rxOpen /\ t.alive => b.at = a
  BY DEF Flow
<1>2. PICK n \in Stations(top) :
         /\ n.owed = NoPayload
         /\ Path(s.outs, EventSteps(top, ends), m, n)
         /\ Path(s.outbox, ChunkSteps(top, {}), n.at, top)
  BY <1>1 DEF Sends
<1>3. more \in Nat /\ top <= more /\ Len(chunk) \in Nat
      /\ top \in 0..more /\ more \in 0..more
  BY DEF Chunk
<1>4. <<top, chunk, more>> \in ChunkSteps(more, {})
  <2>1. ChunkStep(top, chunk, more, {})
    BY DEF ChunkStep
  <2> HIDE DEF more
  <2> QED BY <1>3, <2>1, StepsIff
<1> HIDE DEF more
<1>5. /\ ChunkSteps(top, ends) \subseteq ChunkSteps(more, ends)
      /\ EventSteps(top, ends) \subseteq EventSteps(more, ends)
      /\ ChunkSteps(top, {}) \subseteq ChunkSteps(more, {})
      /\ Stations(top) \subseteq Stations(more) /\ 0..top \subseteq 0..more
  <2>1. 0..top \subseteq 0..more
    BY <1>3
  <2> QED BY <1>3, <2>1, MoreSteps
<1>6. /\ Path(frames, EventSteps(more, ends), b, m)
      /\ Path(s.outs, EventSteps(more, ends), m, n)
      /\ Path(s.outbox, ChunkSteps(more, {}), n.at, top)
  BY <1>1, <1>2, <1>5, PathMore
<1>7. Path(u.outbox, ChunkSteps(more, {}), n.at, more)
  BY <1>4, <1>6, PathAppend DEF HeadState
<1>8. Sends(u, more, ends, m)
  BY <1>2, <1>5, <1>6, <1>7 DEF Sends
<1>9. t.rxOpen => Reads(t, more, ends, got, a)
  <2> SUFFICES ASSUME t.rxOpen PROVE Reads(t, more, ends, got, a)
    OBVIOUS
  <2>1. /\ Run(t.reading, got) /\ got + Len(t.reading) <= top
        /\ Path(t.inbox, ChunkSteps(top, ends), got + Len(t.reading), a)
    BY <1>1 DEF Reads
  <2>2. Path(t.inbox, ChunkSteps(more, ends), got + Len(t.reading), a)
    BY <1>5, <2>1, PathMore
  <2>3. got + Len(t.reading) <= more
    <3>1. Len(t.reading) \in Nat
      BY DEF HeadState, Chunk
    <3> QED BY <1>3, <2>1, <3>1
  <2> QED BY <2>1, <2>2, <2>3 DEF Reads
<1> QED BY <1>1, <1>5, <1>6, <1>8, <1>9 DEF Flow, more

\* A turn of the sender's loop moves a chunk from the outbox to the frames, or
\* ends the direction, which it may do only at its end.
LEMMA SendsTurn ==
  ASSUME NEW top \in Nat, NEW ends, NEW m,
         NEW s \in HeadState, NEW t \in HeadState, Turn(s, t),
         ~s.txOpen => top \in ends, Sends(s, top, ends, m)
  PROVE  Sends(t, top, ends, m)
<1> DEFINE R == EventSteps(top, ends)
           C == ChunkSteps(top, {})
<1>0. PICK n \in Stations(top) :
         n.owed = NoPayload /\ Path(s.outs, R, m, n) /\ Path(s.outbox, C, n.at, top)
  BY DEF Sends
<1>1. /\ s.outs \in Seq(StreamEvent) /\ s.outbox \in Seq(Chunk)
      /\ Fin \in StreamEvent /\ n.at \in Nat
  BY FinType, StationType DEF HeadState
<1>2. CASE t.outbox = s.outbox /\ t.outs = s.outs
  BY <1>0, <1>2 DEF Sends
<1>3. CASE s.outbox = <<>> /\ ~s.txOpen /\ t.outbox = s.outbox /\ Ending(s, t)
  <2>1. n.at = top
    BY <1>0, <1>3, PathEmpty
  <2>2. <<n, Fin, n>> \in R
    BY <1>0, <1>3, <2>1, SentSteps
  <2>3. Path(t.outs, R, m, n)
    BY <1>0, <1>1, <1>3, <2>2, PathAppend DEF Ending
  <2> QED BY <1>0, <1>3, <2>3 DEF Sends
<1>4. CASE s.outbox # <<>>
  <2> DEFINE chunk == Head(s.outbox)
             rest == Tail(s.outbox)
  <2>1. PICK to : <<n.at, chunk, to>> \in C /\ Path(rest, C, to, top)
    BY <1>0, <1>1, <1>4, PathTail
  <2>2. /\ chunk \in Chunk /\ to \in 0..top /\ chunk # <<>>
        /\ Run(chunk, n.at) /\ to = n.at + Len(chunk)
    BY <2>1, StepsIff DEF ChunkStep
  <2> HIDE DEF C
  <2>3. CASE t.outbox = rest /\ Moving(s, t)
    <3> DEFINE header == Data({}, Len(chunk))
               payload == DataChunk(chunk)
               mid == Station(n.at, Len(chunk))
               far == Station(to, NoPayload)
    <3>1. /\ far \in Stations(top)
          /\ <<n, header, mid>> \in R /\ <<mid, payload, far>> \in R
      <4>1. n.at + Len(chunk) <= top
        BY <2>2
      <4> HIDE DEF chunk
      <4> QED BY <1>0, <2>2, <4>1, SentSteps
    <3>2. header \in StreamEvent /\ payload \in StreamEvent
      BY <3>1, StepsIff
    <3>3. t.outs = s.outs \o <<header, payload>>
      BY <2>3 DEF Moving
    <3>4. far.at = to /\ far.owed = NoPayload
      BY DEF Station
    <3> HIDE DEF chunk, rest, header, payload, mid, far, R
    <3>5. t.outs = Append(Append(s.outs, header), payload)
      BY <1>1, <3>2, <3>3
    <3>6. Path(Append(s.outs, header), R, m, mid)
      BY <1>0, <1>1, <3>1, <3>2, PathAppend
    <3>7. Append(s.outs, header) \in Seq(StreamEvent)
      BY <1>1, <3>2
    <3>8. Path(t.outs, R, m, far)
      BY <3>1, <3>2, <3>5, <3>6, <3>7, PathAppend
    <3>9. Path(t.outbox, C, far.at, top)
      BY <2>1, <2>3, <3>4
    <3> QED BY <3>1, <3>4, <3>8, <3>9 DEF Sends, R, C
  <2>4. CASE ~(t.outbox = rest /\ Moving(s, t))
    BY <1>2, <1>4, <2>2, <2>4 DEF Turn
  <2> QED BY <2>3, <2>4
<1> QED BY <1>2, <1>3, <1>4 DEF Turn

\* The session moves the next frame of the sender to the wire.
LEMMA FlowPolled ==
  ASSUME NEW top \in Nat, NEW ends, NEW frames \in Seq(StreamEvent),
         NEW s \in HeadState, NEW t, NEW got,
         Flow(top, ends, frames, s, t, got), s.alive, PollsItem(s),
         ~s.txOpen => top \in ends
  PROVE  Flow(top, ends, Append(frames, PolledItem(s)), Polled(s), t, got)
<1> DEFINE R == EventSteps(top, ends)
           f == Filled(s)
           u == Polled(s)
           item == PolledItem(s)
<1>1. PICK b \in Stations(top), m \in Stations(top), a \in 0..top :
         /\ Path(frames, R, b, m)
         /\ s.alive => Sends(s, top, ends, m)
         /\ t.alive => t.recvState = b.owed
         /\ t.rxOpen => Reads(t, top, ends, got, a)
         /\ t.rxOpen /\ t.alive => b.at = a
  BY DEF Flow
<1>2. Sends(f, top, ends, m)
  <2>1. PICK one, two \in HeadState :
           /\ Turn(s, one) /\ Turn(one, two) /\ Turn(two, f)
           /\ Kept(s, one) /\ Kept(one, two)
    BY FilledTurns
  <2>2. /\ f \in HeadState /\ (~one.txOpen => top \in ends)
        /\ (~two.txOpen => top \in ends)
    BY <2>1, FilledEffect DEF Kept
  <2> HIDE DEF f
  <2>3. Sends(one, top, ends, m)
    BY <1>1, <2>1, SendsTurn
  <2>4. Sends(two, top, ends, m)
    BY <2>1, <2>2, <2>3, SendsTurn
  <2> QED BY <2>1, <2>2, <2>4, SendsTurn
<1>3. /\ f \in HeadState /\ f.outs # <<>> /\ u.outs = Tail(f.outs)
      /\ item = Head(f.outs) /\ item \in StreamEvent
      /\ u.outbox = f.outbox /\ u \in HeadState
  BY FilledEffect, PolledEffect DEF SameOutbox
<1> HIDE DEF f, u, item
<1>4. PICK n \in Stations(top) :
         /\ n.owed = NoPayload /\ Path(f.outs, R, m, n)
         /\ Path(f.outbox, ChunkSteps(top, {}), n.at, top)
  BY <1>2 DEF Sends
<1>5. PICK k : <<m, item, k>> \in R /\ Path(u.outs, R, k, n)
  <2>1. f.outs \in Seq(StreamEvent)
    BY <1>3 DEF HeadState
  <2> HIDE DEF R
  <2> QED BY <1>3, <1>4, <2>1, PathTail
<1>6. k \in Stations(top)
  BY <1>5, StepsIff
<1> HIDE DEF R
<1>7. Path(Append(frames, item), R, b, k)
  BY <1>1, <1>3, <1>5, PathAppend
<1>8. Sends(u, top, ends, k)
  BY <1>3, <1>4, <1>5 DEF Sends, R
<1> QED BY <1>1, <1>6, <1>7, <1>8 DEF Flow, R, u, item

-----------------------------------------------------------------------------
\* A frame that on_input accepts, and that resets nothing.
LEMMA EventForm ==
  ASSUME NEW event \in StreamEvent
  PROVE  /\ event.kind = "Data" => event = Data(event.flags, event.size)
         /\ event.kind = "DataChunk" => event = DataChunk(event.chunk)
         /\ event.kind = "WindowUpdate" =>
               event = WindowUpdate(event.flags, event.delta)
  BY DEF StreamEvent, DataEvent, ChunkEvent, UpdateEvent, Data, DataChunk,
         WindowUpdate

\* The frame ends the direction for a head that knows of its peer.
EndsRemote(s, event) ==
    HasFin(event) /\ (s.remote \/ "ACK" \in EventFlags(event))

LEMMA InputEffect ==
  ASSUME NEW s \in HeadState, NEW event \in StreamEvent,
         "RST" \notin EventFlags(event), ~InputError(s, event)
  PROVE  LET t == OnInput(s, event)
             got == s.recv + PayloadOf(event)
         IN  /\ t \in HeadState /\ t.alive = s.alive
             /\ SameReader(s, t) /\ SameOutbox(s, t)
             /\ (t.local <=> s.local) /\ t.send = s.send + CreditOf(event)
             /\ t.remote <=> ((s.remote \/ "ACK" \in EventFlags(event))
                              /\ ~HasFin(event))
             /\ t.recvState =
                   CASE event.kind = "Data" -> event.size
                     [] event.kind = "DataChunk" ->
                           IF s.recvState = Len(event.chunk) THEN NoPayload
                           ELSE s.recvState - Len(event.chunk)
                     [] event.kind = "WindowUpdate" -> s.recvState
             /\ s.tx /\ s.rxOpen =>
                   /\ t.tx
                   /\ t.inbox = IF event.kind = "DataChunk"
                                THEN Append(s.inbox, event.chunk)
                                ELSE IF EndsRemote(s, event)
                                     THEN Append(s.inbox, <<>>) ELSE s.inbox
             /\ \/ t.outs = s.outs /\ t.recv = got
                   /\ (event.kind # "DataChunk"
                       \/ ~(t.recv + ChunkCapacity >= UpdateThreshold))
                \/ /\ t.recv = 0
                   /\ t.outs = Append(s.outs, WindowUpdate({}, got))
<1> DEFINE t == OnInput(s, event)
           got == s.recv + PayloadOf(event)
<1>0. s.recv \in Nat /\ s.recvState \in Nat \cup {NoPayload} /\ s.send \in Nat
  BY DEF HeadState
<1>1. CASE event.kind = "Data"
  <2> DEFINE flags == event.flags
             h == HandleFlag(s, flags)
  <2>1. /\ flags \in SUBSET Flag /\ event.size \in Nat
        /\ event = Data(flags, event.size) /\ s.recvState = NoPayload
        /\ EventFlags(event) = flags
    BY <1>1, EventType, EventForm DEF InputError, EventFlags
  <2>2. /\ t \in HeadState /\ t.recvState = event.size
        /\ t.outs = h.outs /\ t.alive = s.alive
        /\ SameState(h, t) /\ SameInbox(h, t)
        /\ SameWindow(s, t) /\ SameOutbox(s, t) /\ SameReader(s, t)
    BY <2>1, OnDataEffect
  <2>3. /\ h.local <=> s.local
        /\ h.remote <=> ((s.remote \/ "ACK" \in flags) /\ "FIN" \notin flags)
        /\ h.outs = s.outs
        /\ h.inbox = IF (s.remote \/ "ACK" \in flags) /\ "FIN" \in flags
                     THEN Marked(s) ELSE s.inbox
        /\ (s.tx /\ s.rxOpen => h.tx)
    BY <2>1, HandleFlagEffect
  <2>4. PayloadOf(event) = 0 /\ CreditOf(event) = 0
    BY <1>1 DEF PayloadOf, CreditOf
  <2> HIDE DEF t, h, flags
  <2>5. s.recv + PayloadOf(event) = t.recv /\ t.send = s.send + CreditOf(event)
    BY <1>0, <2>2, <2>4 DEF SameWindow
  <2>6. s.tx /\ s.rxOpen =>
           /\ t.tx
           /\ t.inbox = IF EndsRemote(s, event) THEN Append(s.inbox, <<>>)
                                                ELSE s.inbox
    BY <2>1, <2>2, <2>3 DEF SameInbox, Marked, EndsRemote, HasFin
  <2>7. t.remote <=> ((s.remote \/ "ACK" \in EventFlags(event))
                      /\ ~HasFin(event))
    BY <2>1, <2>2, <2>3 DEF SameState, HasFin
  <2>8. (t.local <=> s.local) /\ t.outs = s.outs
    BY <2>2, <2>3 DEF SameState
  <2> QED BY <1>1, <2>2, <2>5, <2>6, <2>7, <2>8 DEF t
<1>2. CASE event.kind = "WindowUpdate"
  <2> DEFINE flags == event.flags
             h == HandleFlag(s, flags)
  <2>1. /\ flags \in SUBSET Flag /\ event.delta \in Nat
        /\ event = WindowUpdate(flags, event.delta)
        /\ EventFlags(event) = flags
    BY <1>2, EventType, EventForm DEF EventFlags
  <2>2. /\ t \in HeadState
        /\ t.send = s.send + event.delta /\ t.recv = s.recv
        /\ t.recvState = s.recvState
        /\ t.outs = h.outs /\ t.alive = s.alive
        /\ SameState(h, t) /\ SameInbox(h, t)
        /\ SameOutbox(s, t) /\ SameReader(s, t)
    <3>1. PICK delta \in Nat :
             delta = event.delta /\ event = WindowUpdate(flags, delta)
      BY <2>1
    <3> HIDE DEF flags
    <3>2. /\ OnInput(s, WindowUpdate(flags, delta)) \in HeadState
          /\ LET w == OnInput(s, WindowUpdate(flags, delta))
             IN  /\ w.send = s.send + delta /\ w.recv = s.recv
                 /\ w.recvState = s.recvState
                 /\ w.outs = h.outs /\ w.alive = s.alive
                 /\ SameState(h, w) /\ SameInbox(h, w)
                 /\ SameOutbox(s, w) /\ SameReader(s, w)
      BY <2>1, OnWindowUpdateEffect
    <3> QED BY <3>1, <3>2
  <2>3. /\ h.local <=> s.local
        /\ h.remote <=> ((s.remote \/ "ACK" \in flags) /\ "FIN" \notin flags)
        /\ h.outs = s.outs
        /\ h.inbox = IF (s.remote \/ "ACK" \in flags) /\ "FIN" \in flags
                     THEN Marked(s) ELSE s.inbox
        /\ (s.tx /\ s.rxOpen => h.tx)
    BY <2>1, HandleFlagEffect
  <2>4. PayloadOf(event) = 0 /\ CreditOf(event) = event.delta
    BY <1>2 DEF PayloadOf, CreditOf
  <2> HIDE DEF t, h, flags
  <2>5. s.recv + PayloadOf(event) = t.recv /\ t.send = s.send + CreditOf(event)
    BY <1>0, <2>2, <2>4
  <2>6. s.tx /\ s.rxOpen =>
           /\ t.tx
           /\ t.inbox = IF EndsRemote(s, event) THEN Append(s.inbox, <<>>)
                                                ELSE s.inbox
    BY <2>1, <2>2, <2>3 DEF SameInbox, Marked, EndsRemote, HasFin
  <2>7. t.remote <=> ((s.remote \/ "ACK" \in EventFlags(event))
                      /\ ~HasFin(event))
    BY <2>1, <2>2, <2>3 DEF SameState, HasFin
  <2>8. (t.local <=> s.local) /\ t.outs = s.outs
    BY <2>2, <2>3 DEF SameState
  <2> QED BY <1>2, <2>2, <2>5, <2>6, <2>7, <2>8 DEF t
<1>3. CASE event.kind = "DataChunk"
  <2> DEFINE chunk == event.chunk
             n == Len(chunk)
  <2>1. /\ chunk \in Chunk /\ event = DataChunk(chunk)
        /\ EventFlags(event) = {} /\ ~HasFin(event)
        /\ PayloadOf(event) = n /\ CreditOf(event) = 0 /\ n \in Nat
    BY <1>3, EventType, EventForm
       DEF EventFlags, HasFin, PayloadOf, CreditOf, Chunk
  <2>2. s.recvState \in Nat /\ n <= s.recvState
    BY <1>0, <1>3, <2>1 DEF InputError
  <2>3. /\ t \in HeadState
        /\ t.recvState = IF s.recvState = n THEN NoPayload ELSE s.recvState - n
        /\ \/ /\ t.recv = s.recv + n /\ t.outs = s.outs
              /\ ~(t.recv + ChunkCapacity >= UpdateThreshold)
           \/ /\ t.recv = 0
              /\ t.outs = Append(s.outs, WindowUpdate({}, s.recv + n))
        /\ t.inbox = IF s.tx /\ s.rxOpen THEN Append(s.inbox, chunk)
                                         ELSE s.inbox
        /\ t.tx <=> s.tx /\ s.rxOpen
        /\ t.send = s.send /\ t.alive = s.alive
        /\ SameState(s, t) /\ SameOutbox(s, t) /\ SameReader(s, t)
    BY <2>1, <2>2, OnDataChunkEffect
  <2> HIDE DEF t
  <2>4. t.send = s.send + CreditOf(event)
    BY <1>0, <2>1, <2>3
  <2>5. t.remote <=> ((s.remote \/ "ACK" \in EventFlags(event))
                      /\ ~HasFin(event))
    BY <2>1, <2>3 DEF SameState
  <2>6. \/ t.outs = s.outs /\ t.recv = got
           /\ ~(t.recv + ChunkCapacity >= UpdateThreshold)
        \/ t.recv = 0 /\ t.outs = Append(s.outs, WindowUpdate({}, got))
    BY <2>1, <2>3
  <2>7. s.tx /\ s.rxOpen => t.tx /\ t.inbox = Append(s.inbox, event.chunk)
    BY <2>3
  <2>8. t.recvState = IF s.recvState = Len(event.chunk) THEN NoPayload
                      ELSE s.recvState - Len(event.chunk)
    BY <2>3
  <2>9. (t.local <=> s.local)
    BY <2>3 DEF SameState
  <2> QED BY <1>3, <2>3, <2>4, <2>5, <2>6, <2>7, <2>8, <2>9 DEF t
<1> QED BY <1>1, <1>2, <1>3, EventType

\* The sender hears a frame: it may have to return credit.
LEMMA QuietInput ==
  ASSUME NEW s \in HeadState, NEW event \in StreamEvent,
         "RST" \notin EventFlags(event)
  PROVE  LET t == OnInput(s, event) IN
         /\ t.local <=> s.local
         /\ \/ t.outs = s.outs
            \/ \E update \in StreamEvent :
                  /\ update.kind = "WindowUpdate" /\ EventFlags(update) = {}
                  /\ t.outs = Append(s.outs, update)
<1>1. CASE InputError(s, event)
  <2>1. OnInput(s, event) = s
    BY <1>1 DEF OnInput, InputError
  <2> QED BY <2>1
<1>2. CASE ~InputError(s, event)
  <2> DEFINE got == s.recv + PayloadOf(event)
             t == OnInput(s, event)
  <2>1. /\ t.outs = s.outs \/ t.outs = Append(s.outs, WindowUpdate({}, got))
        /\ t.local <=> s.local
    BY <1>2, InputEffect
  <2> HIDE DEF t
  <2>2. PayloadOf(event) \in Nat /\ s.recv \in Nat
    BY OfType DEF HeadState
  <2>3. got \in Nat /\ {} \in SUBSET Flag
    BY <2>2
  <2> HIDE DEF got
  <2>4. PICK delta \in Nat, flags \in SUBSET Flag : delta = got /\ flags = {}
    BY <2>3
  <2>5. LET update == WindowUpdate({}, got)
        IN  /\ update \in StreamEvent /\ update.kind = "WindowUpdate"
            /\ EventFlags(update) = {}
    BY <2>4, WindowUpdateType DEF EventFlags
  <2> QED BY <2>1, <2>5 DEF t
<1> QED BY <1>1, <1>2

LEMMA FlowHeard ==
  ASSUME NEW top \in Nat, NEW ends, NEW frames, NEW s \in HeadState, NEW t,
         NEW got, Flow(top, ends, frames, s, t, got),
         NEW event \in StreamEvent, "RST" \notin EventFlags(event)
  PROVE  Flow(top, ends, frames, OnInput(s, event), t, got)
<1> DEFINE R == EventSteps(top, ends)
           u == OnInput(s, event)
<1>1. PICK b \in Stations(top), m \in Stations(top), a \in 0..top :
         /\ Path(frames, R, b, m)
         /\ s.alive => Sends(s, top, ends, m)
         /\ t.alive => t.recvState = b.owed
         /\ t.rxOpen => Reads(t, top, ends, got, a)
         /\ t.rxOpen /\ t.alive => b.at = a
  BY DEF Flow
<1>2. u.alive = s.alive /\ u.outbox = s.outbox
  BY OnInputEffect DEF SameOutbox
<1>3. \/ u.outs = s.outs
      \/ \E update \in StreamEvent :
            /\ update.kind = "WindowUpdate" /\ ~HasFin(update)
            /\ u.outs = Append(s.outs, update)
  BY QuietInput DEF HasFin
<1> HIDE DEF u
<1>4. ASSUME s.alive PROVE Sends(u, top, ends, m)
  <2>1. PICK n \in Stations(top) :
           /\ n.owed = NoPayload /\ Path(s.outs, R, m, n)
           /\ Path(s.outbox, ChunkSteps(top, {}), n.at, top)
    BY <1>1, <1>4 DEF Sends
  <2>2. Path(u.outs, R, m, n)
    <3>1. CASE u.outs = s.outs
      BY <2>1, <3>1
    <3>2. CASE u.outs # s.outs
      <4>1. PICK update \in StreamEvent :
               /\ update.kind = "WindowUpdate" /\ ~HasFin(update)
               /\ u.outs = Append(s.outs, update)
        BY <1>3, <3>2
      <4>2. <<n, update, n>> \in R
        BY <2>1, <4>1, SentSteps
      <4>3. s.outs \in Seq(StreamEvent)
        BY DEF HeadState
      <4> HIDE DEF R
      <4> QED BY <2>1, <4>1, <4>2, <4>3, PathAppend
    <3> QED BY <3>1, <3>2
  <2> QED BY <1>2, <2>1, <2>2 DEF Sends
<1> QED BY <1>1, <1>2, <1>4 DEF Flow, u

\* FrameReader takes the first step of the path, or a part of it.
LEMMA TakenStep ==
  ASSUME NEW top \in Nat, NEW ends, NEW frames \in Seq(StreamEvent),
         frames # <<>>, NEW next \in Arrivals(frames), NEW b, NEW m,
         Path(frames, EventSteps(top, ends), b, m)
  PROVE  \E u \in Stations(top) :
            /\ <<b, next.event, u>> \in EventSteps(top, ends)
            /\ Path(next.rest \o Tail(frames), EventSteps(top, ends), u, m)
<1> DEFINE R == EventSteps(top, ends)
           first == Head(frames)
           tail == Tail(frames)
<1>1. PICK k : <<b, first, k>> \in R /\ Path(tail, R, k, m)
  <2>1. Path(frames, R, b, m)
    OBVIOUS
  <2> HIDE DEF R
  <2> QED BY <2>1, PathTail
<1>2. /\ b \in Stations(top) /\ k \in Stations(top) /\ first \in StreamEvent
      /\ EventStep(b, first, k, ends) /\ tail \in Seq(StreamEvent)
  BY <1>1, StepsIff, HeadTailType
<1>3. CASE next.event = first /\ next.rest = <<>>
  <2>1. next.rest \o tail = tail
    BY <1>2, <1>3
  <2> QED BY <1>1, <1>2, <1>3, <2>1
<1>4. CASE ~(next.event = first /\ next.rest = <<>>)
  <2> DEFINE c == first.chunk
             len == Len(c)
  <2>1. PICK n \in 1..len - 1 :
           /\ first.kind = "DataChunk" /\ c \in Chunk
           /\ next.event = DataChunk(SubSeq(c, 1, n))
           /\ next.rest = <<DataChunk(SubSeq(c, n + 1, len))>>
    BY <1>4, ArrivalsEffect
  <2> DEFINE one == SubSeq(c, 1, n)
             two == SubSeq(c, n + 1, len)
             at == b.at
             owed == b.owed
             u == Station(at + n, owed - n)
  <2>2. /\ at \in Nat /\ owed \in Nat /\ len <= owed /\ c # <<>>
        /\ \A j \in 1..len : c[j] = at + j
        /\ k = Station(at + len, IF len = owed THEN NoPayload ELSE owed - len)
    BY <1>2, <2>1, StationType DEF EventStep, Run
  <2>3. len \in Nat /\ n \in Nat /\ n <= len /\ n < len /\ n # 0 /\ c \in Seq(Byte)
    BY <2>1 DEF Chunk
  <2>4. at + len \in 0..top
    BY <1>2, <2>2 DEF Stations, Station
  <2> HIDE DEF at, owed, first, tail, R, len
  <2>5. /\ one \in Seq(Byte) /\ Len(one) = n
        /\ \A i \in 1..n : one[i] = c[i]
    <3>1. 0 <= n /\ n - 0 = n /\ 0 + 1 = 1 /\ \A i \in 1..n : 0 + i = i
      BY <2>3
    <3>2. /\ SubSeq(c, 0 + 1, n) \in Seq(Byte)
          /\ Len(SubSeq(c, 0 + 1, n)) = n - 0
          /\ \A i \in 1..n - 0 : SubSeq(c, 0 + 1, n)[i] = c[0 + i]
      BY <2>3, <3>1, PartType DEF len
    <3> QED BY <3>1, <3>2
  <2>6. /\ two \in Seq(Byte) /\ Len(two) = len - n
        /\ \A i \in 1..len - n : two[i] = c[n + i]
    BY <2>3, PartType DEF len
  <2> HIDE DEF one, two, c
  <2>7. one # <<>> /\ two # <<>> /\ one \in Chunk /\ two \in Chunk
    BY <2>3, <2>5, <2>6 DEF Chunk
  <2>8. Run(one, at) /\ Run(two, at + n)
    <3>1. ASSUME NEW j \in 1..Len(one) PROVE one[j] = at + j
      BY <2>2, <2>3, <2>5
    <3>2. ASSUME NEW j \in 1..Len(two) PROVE two[j] = at + n + j
      <4>1. j \in 1..len - n /\ n + j \in 1..len
        BY <2>3, <2>6
      <4>2. two[j] = c[n + j] /\ c[n + j] = at + (n + j)
        BY <2>2, <2>6, <4>1
      <4> QED BY <2>2, <2>3, <4>1, <4>2
    <3> QED BY <3>1, <3>2 DEF Run
  <2>9. /\ u \in Stations(top) /\ u.at = at + n /\ u.owed = owed - n
        /\ u.owed \in Nat
    <3>1. PICK to \in 0..top, left \in Nat \cup {NoPayload} :
             to = at + n /\ left = owed - n /\ left \in Nat
      BY <2>2, <2>3, <2>4
    <3> QED BY <3>1, StationType
  <2>10. ASSUME NEW part \in {one, two}
         PROVE  /\ DataChunk(part) \in StreamEvent
                /\ DataChunk(part).kind = "DataChunk"
                /\ DataChunk(part).chunk = part /\ ~HasFin(DataChunk(part))
    BY <2>7, DataChunkType DEF HasFin, EventFlags
  <2>11. EventStep(b, DataChunk(one), u, ends)
    <3>1. n # owed /\ n <= owed
      BY <2>2, <2>3
    <3> QED BY <2>2, <2>5, <2>7, <2>8, <2>10, <3>1 DEF EventStep, at, owed
  <2> HIDE DEF u
  <2>12. EventStep(u, DataChunk(two), k, ends)
    <3>1. /\ u.at + Len(two) = at + len /\ Len(two) <= u.owed
          /\ (Len(two) = u.owed <=> len = owed)
          /\ u.owed - Len(two) = owed - len
      BY <2>2, <2>3, <2>6, <2>9
    <3>2. k = Station(u.at + Len(two), IF Len(two) = u.owed THEN NoPayload
                                       ELSE u.owed - Len(two))
      BY <2>2, <3>1
    <3> QED BY <2>7, <2>8, <2>9, <2>10, <3>1, <3>2 DEF EventStep
  <2>13. <<b, DataChunk(one), u>> \in R /\ <<u, DataChunk(two), k>> \in R
    BY <1>2, <2>9, <2>10, <2>11, <2>12, StepsIff DEF R
  <2>14. Path(<<DataChunk(two)>> \o tail, R, u, m)
    BY <1>1, <1>2, <2>10, <2>13, PathCons
  <2>15. next.event = DataChunk(one) /\ next.rest = <<DataChunk(two)>>
    BY <2>1 DEF one, two
  <2> QED BY <2>9, <2>13, <2>14, <2>15 DEF R, tail
<1> QED BY <1>3, <1>4

\* The receiver's session takes a frame, or a part of one: it is one that
\* on_input accepts, and the path to the reader grows by what it carries.
LEMMA FlowTaken ==
  ASSUME NEW top \in Nat, NEW ends, NEW frames \in Seq(StreamEvent),
         frames # <<>>, NEW next \in Arrivals(frames),
         NEW s, NEW t \in HeadState, NEW got \in Nat,
         Flow(top, ends, frames, s, t, got), t.rxOpen => t.tx,
         next.event \in StreamEvent, "RST" \notin EventFlags(next.event)
  PROVE  LET v == IF t.alive THEN OnInput(t, next.event) ELSE t
         IN  /\ Flow(top, ends, next.rest \o Tail(frames), s, v, got)
             /\ t.alive => ~InputError(t, next.event)
             /\ v.rxOpen => v.tx
<1> DEFINE R == EventSteps(top, ends)
           event == next.event
           left == next.rest \o Tail(frames)
<1>1. PICK b \in Stations(top), m \in Stations(top), a \in 0..top :
         /\ Path(frames, R, b, m)
         /\ s.alive => Sends(s, top, ends, m)
         /\ t.alive => t.recvState = b.owed
         /\ t.rxOpen => Reads(t, top, ends, got, a)
         /\ t.rxOpen /\ t.alive => b.at = a
  BY DEF Flow
<1>2. PICK u \in Stations(top) : <<b, event, u>> \in R /\ Path(left, R, u, m)
  BY <1>1, TakenStep
<1>3. event \in StreamEvent /\ EventStep(b, event, u, ends)
  BY <1>2, StepsIff
<1>4. CASE ~t.alive
  BY <1>1, <1>2, <1>4 DEF Flow
<1>5. CASE t.alive
  <2> DEFINE v == OnInput(t, event)
  <2> HIDE DEF event, left, R
  <2>1. t.recvState = b.owed /\ b.at \in Nat /\ b.owed \in Nat \cup {NoPayload}
    BY <1>1, <1>5, StationType
  <2>2. ~InputError(t, event)
    <3>1. event.kind = "DataChunk" => Len(event.chunk) \in Nat
      BY <1>3, EventType DEF Chunk
    <3>2. event.kind = "Data" => t.recvState = NoPayload
      BY <1>3, <2>1 DEF EventStep
    <3>3. event.kind = "DataChunk" =>
             t.recvState \in Nat /\ Len(event.chunk) <= t.recvState
      BY <1>3, <2>1 DEF EventStep
    <3> QED BY <3>1, <3>2, <3>3, NoPayloadAssumption DEF InputError
  <2>3. /\ v \in HeadState /\ v.alive /\ v.rxOpen = t.rxOpen
        /\ v.reading = t.reading
        /\ v.recvState =
              CASE event.kind = "Data" -> event.size
                [] event.kind = "DataChunk" ->
                      IF t.recvState = Len(event.chunk) THEN NoPayload
                      ELSE t.recvState - Len(event.chunk)
                [] event.kind = "WindowUpdate" -> t.recvState
        /\ t.tx /\ t.rxOpen =>
              /\ v.tx
              /\ v.inbox = IF event.kind = "DataChunk"
                           THEN Append(t.inbox, event.chunk)
                           ELSE IF EndsRemote(t, event)
                                THEN Append(t.inbox, <<>>) ELSE t.inbox
    BY <1>3, <1>5, <2>2, InputEffect DEF SameReader, event
  <2> HIDE DEF v
  <2>4. v.recvState = u.owed
    <3>1. CASE event.kind = "Data"
      BY <1>3, <2>3, <3>1 DEF EventStep, Station
    <3>2. CASE event.kind = "DataChunk"
      BY <1>3, <2>1, <2>3, <3>2 DEF EventStep, Station
    <3>3. CASE event.kind = "WindowUpdate"
      BY <1>3, <2>1, <2>3, <3>3 DEF EventStep
    <3> QED BY <1>3, <3>1, <3>2, <3>3, EventType
  <2>5. ASSUME t.rxOpen PROVE Reads(v, top, ends, got, u.at)
    <3> DEFINE from == got + Len(t.reading)
               C == ChunkSteps(top, ends)
    <3>1. /\ Run(t.reading, got) /\ from <= top /\ Path(t.inbox, C, from, b.at)
      BY <1>1, <1>5, <2>5 DEF Reads
    <3>2. b.at \in 0..top /\ u.at \in 0..top /\ t.inbox \in Seq(Chunk)
      BY <1>2, StationType DEF HeadState
    <3>3. v.tx /\ v.inbox = IF event.kind = "DataChunk"
                            THEN Append(t.inbox, event.chunk)
                            ELSE IF EndsRemote(t, event)
                                 THEN Append(t.inbox, <<>>) ELSE t.inbox
      BY <2>3, <2>5
    <3> HIDE DEF from, C
    <3>4. Path(v.inbox, C, from, u.at)
      <4>1. CASE event.kind = "DataChunk"
        <5>1. event.chunk \in Chunk /\ event.chunk # <<>>
              /\ Run(event.chunk, b.at) /\ u.at = b.at + Len(event.chunk)
          BY <1>3, <4>1, EventType DEF EventStep, Station
        <5>2. <<b.at, event.chunk, u.at>> \in C
          BY <3>2, <5>1, StepsIff DEF C, ChunkStep
        <5> QED BY <3>1, <3>2, <3>3, <4>1, <5>1, <5>2, PathAppend
      <4>2. CASE event.kind # "DataChunk"
        <5>1. u.at = b.at
          <6>1. CASE event.kind = "Data"
            BY <1>3, <6>1 DEF EventStep, Station
          <6>2. CASE event.kind = "WindowUpdate"
            BY <1>3, <6>2 DEF EventStep
          <6> QED BY <1>3, <4>2, <6>1, <6>2, EventType
        <5>2. CASE EndsRemote(t, event)
          <6>1. b.at \in ends
            BY <1>3, <5>1, <5>2 DEF EndsRemote, EventStep
          <6>2. <<>> \in Chunk /\ Len(<<>>) = 0 /\ Run(<<>>, b.at)
                /\ b.at = b.at + Len(<<>>)
            BY <2>1, EmptyChunk DEF Run
          <6>3. ChunkStep(b.at, <<>>, b.at, ends)
            BY <6>1, <6>2 DEF ChunkStep
          <6>4. <<b.at, <<>>, b.at>> \in C
            BY <3>2, <6>2, <6>3, StepsIff DEF C
          <6> QED BY <3>1, <3>2, <3>3, <4>2, <5>1, <5>2, <6>2, <6>4, PathAppend
        <5>3. CASE ~EndsRemote(t, event)
          BY <3>1, <3>3, <4>2, <5>1, <5>3
        <5> QED BY <5>2, <5>3
      <4> QED BY <4>1, <4>2
    <3> QED BY <2>3, <3>1, <3>4 DEF Reads, from, C
  <2>6. u.at \in 0..top
    BY <1>2, StationType
  <2>7. Flow(top, ends, left, s, v, got)
    BY <1>1, <1>2, <2>3, <2>4, <2>5, <2>6 DEF Flow, R
  <2>8. v.rxOpen => v.tx
    BY <2>3
  <2> QED BY <1>5, <2>2, <2>7, <2>8 DEF v, event, left
<1> QED BY <1>4, <1>5

\* The reader takes bytes from the chunk it has loaded.
LEMMA FlowRead ==
  ASSUME NEW top \in Nat, NEW ends, NEW frames, NEW s, NEW t \in HeadState,
         NEW v \in HeadState, NEW got \in Nat,
         Flow(top, ends, frames, s, t, got), t.rxOpen,
         NEW n \in 0..Len(Loaded(t).reading),
         Len(v.reading) = Len(Loaded(t).reading) - n,
         \A i \in 1..Len(v.reading) : v.reading[i] = Loaded(t).reading[n + i],
         v.inbox = Loaded(t).inbox, v.alive = t.alive, v.rxOpen = t.rxOpen,
         v.recvState = t.recvState
  PROVE  /\ Flow(top, ends, frames, s, v, got + n)
         /\ Run(Loaded(t).reading, got) /\ got + Len(Loaded(t).reading) <= top
         /\ ReadsEof(t) => got \in ends
<1> DEFINE R == EventSteps(top, ends)
           C == ChunkSteps(top, ends)
           reading == Loaded(t).reading
           inbox == Loaded(t).inbox
           len == Len(reading)
<1>1. PICK b \in Stations(top), m \in Stations(top), a \in 0..top :
         /\ Path(frames, R, b, m)
         /\ s.alive => Sends(s, top, ends, m)
         /\ t.alive => t.recvState = b.owed
         /\ t.rxOpen => Reads(t, top, ends, got, a)
         /\ t.rxOpen /\ t.alive => b.at = a
  BY DEF Flow
<1>2. /\ Run(t.reading, got) /\ got + Len(t.reading) <= top
      /\ Path(t.inbox, C, got + Len(t.reading), a)
  BY <1>1 DEF Reads
<1>3. /\ t.inbox \in Seq(Chunk) /\ t.reading \in Chunk
      /\ reading \in Chunk /\ len \in Nat
      /\ IF t.reading # <<>> \/ t.inbox = <<>>
         THEN reading = t.reading /\ inbox = t.inbox
         ELSE reading = Head(t.inbox) /\ inbox = Tail(t.inbox)
  <2>1. Loaded(t) \in HeadState
    BY LoadedEffect
  <2>2. reading \in Chunk /\ t.inbox \in Seq(Chunk) /\ t.reading \in Chunk
    BY <2>1 DEF HeadState
  <2>3. IF t.reading # <<>> \/ t.inbox = <<>>
        THEN reading = t.reading /\ inbox = t.inbox
        ELSE reading = Head(t.inbox) /\ inbox = Tail(t.inbox)
    BY LoadedEffect
  <2> HIDE DEF reading, inbox
  <2> QED BY <2>2, <2>3 DEF Chunk
<1> HIDE DEF reading, inbox, C
<1>4. /\ Run(reading, got) /\ got + len <= top /\ Path(inbox, C, got + len, a)
      /\ reading = <<>> /\ t.inbox # <<>> => got \in ends
  <2>1. CASE t.reading # <<>> \/ t.inbox = <<>>
    BY <1>2, <1>3, <2>1
  <2>2. CASE t.reading = <<>> /\ t.inbox # <<>>
    <3>1. got + Len(t.reading) = got
      BY <2>2
    <3>2. reading = Head(t.inbox) /\ inbox = Tail(t.inbox)
      BY <1>3, <2>2
    <3>3. PICK k : <<got, reading, k>> \in C /\ Path(inbox, C, k, a)
      BY <1>2, <1>3, <2>2, <3>1, <3>2, PathTail
    <3>4. k \in 0..top /\ ChunkStep(got, reading, k, ends)
      BY <3>3, StepsIff DEF C
    <3>5. k = got + len /\ Run(reading, got) /\ (reading = <<>> => k \in ends)
      BY <3>4 DEF ChunkStep
    <3>6. reading = <<>> => k = got
      BY <3>5
    <3> QED BY <3>3, <3>4, <3>5, <3>6
  <2> QED BY <2>1, <2>2
<1>5. Reads(v, top, ends, got + n, a)
  <2>1. Len(v.reading) = len - n /\ n \in Nat /\ n <= len
        /\ got + n + Len(v.reading) = got + len
    BY <1>3 DEF reading
  <2>2. Run(v.reading, got + n)
    <3>1. ASSUME NEW i \in 1..Len(v.reading) PROVE v.reading[i] = got + n + i
      <4>1. n + i \in 1..len
        BY <1>3, <2>1
      <4>2. v.reading[i] = reading[n + i] /\ reading[n + i] = got + (n + i)
        BY <1>4, <4>1 DEF Run, reading
      <4> QED BY <2>1, <4>2
    <3> QED BY <3>1 DEF Run
  <2> QED BY <1>4, <2>1, <2>2 DEF Reads, inbox, C
<1>6. ReadsEof(t) => got \in ends
  BY <1>4 DEF ReadsEof, reading
<1> QED BY <1>1, <1>4, <1>5, <1>6 DEF Flow, reading

-----------------------------------------------------------------------------
\* A direction, with what its reader has seen: it has read the first bytes, an
\* end only where the direction ends, and an error only when nothing is left
\* for it and nothing will come.
EndsOf(s, top) == IF s.txOpen THEN {} ELSE {top}
Direction(top, frames, s, t, got, ended, broke) ==
    /\ Flow(top, EndsOf(s, top), frames, s, t, Len(got))
    /\ Run(got, 0)
    /\ ended => Len(got) \in EndsOf(s, top)
    /\ broke => t.reading = <<>> /\ t.inbox = <<>> /\ ~t.alive
    /\ t.rxOpen => t.tx

LEMMA DirectionKept ==
  ASSUME NEW top \in Nat, NEW frames, NEW s, NEW t, NEW u, NEW v,
         NEW got, NEW ended, NEW broke,
         Direction(top, frames, s, t, got, ended, broke),
         u.alive => s.alive /\ u.outs = s.outs /\ u.outbox = s.outbox,
         u.txOpen => s.txOpen,
         v.alive => t.alive /\ v.recvState = t.recvState,
         v.rxOpen => /\ t.rxOpen /\ v.reading = t.reading /\ v.inbox = t.inbox
                     /\ (t.tx => v.tx),
         t.reading = <<>> => v.reading = <<>>,
         t.inbox = <<>> => v.inbox = <<>>
  PROVE  Direction(top, frames, u, v, got, ended, broke)
<1>1. EndsOf(s, top) \subseteq EndsOf(u, top)
  BY DEF EndsOf
<1>2. Flow(top, EndsOf(s, top), frames, s, t, Len(got))
  BY DEF Direction
<1>3. Flow(top, EndsOf(u, top), frames, u, v, Len(got))
  BY <1>1, <1>2, FlowKept
<1> QED BY <1>1, <1>3 DEF Direction

LEMMA DirectionWritten ==
  ASSUME NEW top \in Nat, NEW frames, NEW s \in HeadState, NEW t \in HeadState,
         NEW u, NEW got \in Seq(Byte), NEW ended, NEW broke,
         Direction(top, frames, s, t, got, ended, broke),
         s.alive, s.txOpen, u.txOpen,
         NEW chunk \in Chunk \ {<<>>}, Run(chunk, top),
         u.outs = s.outs, u.outbox = Append(s.outbox, chunk)
  PROVE  Direction(top + Len(chunk), frames, u, t, got, ended, broke)
<1>1. /\ Flow(top, {}, frames, s, t, Len(got)) /\ ~ended
      /\ EndsOf(u, top + Len(chunk)) = {}
  BY DEF Direction, EndsOf
<1>2. Len(got) \in Nat
  OBVIOUS
<1>3. Flow(top + Len(chunk), {}, frames, u, t, Len(got))
  BY <1>1, <1>2, FlowWritten
<1> QED BY <1>1, <1>3 DEF Direction

LEMMA DirectionPolled ==
  ASSUME NEW top \in Nat, NEW frames \in Seq(StreamEvent),
         NEW s \in HeadState, NEW t, NEW got, NEW ended, NEW broke,
         Direction(top, frames, s, t, got, ended, broke), s.alive, PollsItem(s)
  PROVE  Direction(top, Append(frames, PolledItem(s)), Polled(s), t,
                   got, ended, broke)
<1>1. ~s.txOpen => top \in EndsOf(s, top)
  BY DEF EndsOf
<1>2. Flow(top, EndsOf(s, top), frames, s, t, Len(got))
  BY DEF Direction
<1>3. Flow(top, EndsOf(s, top), Append(frames, PolledItem(s)), Polled(s), t,
           Len(got))
  BY <1>1, <1>2, FlowPolled
<1>4. EndsOf(Polled(s), top) = EndsOf(s, top)
  BY PolledEffect DEF Kept, EndsOf
<1> QED BY <1>3, <1>4 DEF Direction

LEMMA DirectionHeard ==
  ASSUME NEW top \in Nat, NEW frames, NEW s \in HeadState, NEW t,
         NEW got, NEW ended, NEW broke,
         Direction(top, frames, s, t, got, ended, broke),
         NEW event \in StreamEvent, "RST" \notin EventFlags(event)
  PROVE  Direction(top, frames, OnInput(s, event), t, got, ended, broke)
<1>1. Flow(top, EndsOf(s, top), frames, s, t, Len(got))
  BY DEF Direction
<1>2. Flow(top, EndsOf(s, top), frames, OnInput(s, event), t, Len(got))
  BY <1>1, FlowHeard
<1>3. EndsOf(OnInput(s, event), top) = EndsOf(s, top)
  BY OnInputEffect DEF SameOutbox, EndsOf
<1> QED BY <1>2, <1>3 DEF Direction

LEMMA DirectionTaken ==
  ASSUME NEW top \in Nat, NEW frames \in Seq(StreamEvent), frames # <<>>,
         NEW next \in Arrivals(frames),
         NEW s, NEW t \in HeadState, NEW got \in Seq(Byte), NEW ended, NEW broke,
         Direction(top, frames, s, t, got, ended, broke),
         next.event \in StreamEvent, "RST" \notin EventFlags(next.event)
  PROVE  /\ Direction(top, next.rest \o Tail(frames), s,
                      IF t.alive THEN OnInput(t, next.event) ELSE t,
                      got, ended, broke)
         /\ t.alive => ~InputError(t, next.event)
<1> DEFINE v == IF t.alive THEN OnInput(t, next.event) ELSE t
<1>1. /\ Flow(top, EndsOf(s, top), frames, s, t, Len(got))
      /\ (t.rxOpen => t.tx) /\ Len(got) \in Nat
  BY DEF Direction
<1>2. /\ Flow(top, EndsOf(s, top), next.rest \o Tail(frames), s, v, Len(got))
      /\ t.alive => ~InputError(t, next.event)
      /\ v.rxOpen => v.tx
  BY <1>1, FlowTaken
<1>3. broke => v = t
  BY DEF Direction
<1> HIDE DEF v
<1> QED BY <1>2, <1>3 DEF Direction, v

\* What poll_read makes of a handle: bytes are the first n of the chunk loaded.
Serves(s, t, bytes, n) ==
    LET reading == Loaded(s).reading
    IN  /\ n \in 0..Len(reading) /\ bytes \in Chunk /\ Len(bytes) = n
        /\ \A i \in 1..n : bytes[i] = reading[i]
        /\ Len(t.reading) = Len(reading) - n
        /\ \A i \in 1..Len(t.reading) : t.reading[i] = reading[n + i]
        /\ t.inbox = Loaded(s).inbox /\ t.alive = s.alive
        /\ t.rxOpen = s.rxOpen /\ t.recvState = s.recvState /\ (t.tx <=> s.tx)

LEMMA DirectionRead ==
  ASSUME NEW top \in Nat, NEW frames, NEW s, NEW t \in HeadState,
         NEW v \in HeadState, NEW got \in Seq(Byte), NEW ended, NEW broke,
         Direction(top, frames, s, t, got, ended, broke), t.rxOpen,
         NEW bytes, NEW n, Serves(t, v, bytes, n)
  PROVE  /\ Direction(top, frames, s, v, got \o bytes,
                      ended \/ ReadsEof(t), broke \/ ReadsBroken(t))
         /\ Len(got) + Len(Loaded(t).reading) <= top
         /\ Run(got \o bytes, 0) /\ Len(got \o bytes) = Len(got) + n
         /\ ReadsEof(t) => Len(got) \in EndsOf(s, top) /\ n = 0
         /\ ReadsBroken(t) => n = 0
         /\ broke => ReadsBroken(t)
<1> DEFINE reading == Loaded(t).reading
           more == got \o bytes
<1>0. /\ n \in 0..Len(Loaded(t).reading) /\ bytes \in Chunk /\ Len(bytes) = n
      /\ Len(v.reading) = Len(Loaded(t).reading) - n
      /\ \A i \in 1..Len(v.reading) :
            v.reading[i] = Loaded(t).reading[n + i]
      /\ \A i \in 1..n : bytes[i] = Loaded(t).reading[i]
      /\ v.inbox = Loaded(t).inbox /\ v.alive = t.alive
      /\ v.rxOpen = t.rxOpen /\ v.recvState = t.recvState /\ (v.tx <=> t.tx)
  BY DEF Serves
<1>1. /\ Flow(top, EndsOf(s, top), frames, s, t, Len(got))
      /\ (t.rxOpen => t.tx) /\ Len(got) \in Nat /\ Run(got, 0)
      /\ ended => Len(got) \in EndsOf(s, top)
      /\ broke => t.reading = <<>> /\ t.inbox = <<>> /\ ~t.alive
  BY DEF Direction
<1>2. /\ Flow(top, EndsOf(s, top), frames, s, v, Len(got) + n)
      /\ Run(reading, Len(got)) /\ Len(got) + Len(reading) <= top
      /\ ReadsEof(t) => Len(got) \in EndsOf(s, top)
  BY <1>0, <1>1, FlowRead
<1>3. /\ n \in Nat /\ n <= Len(reading)
      /\ Len(reading) \in Nat /\ reading \in Chunk
      /\ \A i \in 1..n : bytes[i] = reading[i]
      /\ ReadsEof(t) => reading = <<>>
      /\ ReadsBroken(t) => reading = <<>> /\ Loaded(t) = t
  <2>1. reading \in Chunk
    BY LoadedEffect DEF HeadState
  <2>2. Len(reading) \in Nat
    BY <2>1 DEF Chunk
  <2>3. ReadsEof(t) => reading = <<>>
    BY DEF ReadsEof
  <2>4. ReadsBroken(t) => reading = <<>> /\ Loaded(t) = t
    BY DEF ReadsBroken, Loaded
  <2>5. n \in 0..Len(reading) /\ \A i \in 1..n : bytes[i] = reading[i]
    BY <1>0
  <2> HIDE DEF reading
  <2> QED BY <2>1, <2>2, <2>3, <2>4, <2>5
<1>4. /\ more \in Seq(Byte) /\ Len(more) = Len(got) + n
      /\ \A i \in 1..Len(got) + n :
            more[i] = IF i <= Len(got) THEN got[i] ELSE bytes[i - Len(got)]
  <2>1. got \in Seq(Byte) /\ bytes \in Seq(Byte)
    BY <1>0 DEF Chunk
  <2> QED BY <1>0, <2>1, ConcatProperties
<1> HIDE DEF more, reading
<1>5. Run(more, 0)
  <2>1. ASSUME NEW i \in 1..Len(more) PROVE more[i] = 0 + i
    <3>1. i \in Nat /\ i \in 1..Len(got) + n
      BY <1>4
    <3>2. CASE i <= Len(got)
      <4>1. i \in 1..Len(got)
        BY <3>1, <3>2, <1>1
      <4> QED BY <1>1, <1>4, <3>1, <3>2, <4>1 DEF Run
    <3>3. CASE ~(i <= Len(got))
      <4>1. i - Len(got) \in 1..n /\ i - Len(got) \in 1..Len(reading)
        BY <1>1, <1>3, <3>1, <3>3
      <4>2. more[i] = reading[i - Len(got)]
        BY <1>3, <1>4, <3>1, <3>3, <4>1
      <4>3. reading[i - Len(got)] = Len(got) + (i - Len(got))
        BY <1>2, <4>1 DEF Run
      <4> QED BY <1>1, <3>1, <4>2, <4>3
    <3> QED BY <3>2, <3>3
  <2> QED BY <2>1 DEF Run
<1>6. (ReadsEof(t) \/ ReadsBroken(t) => n = 0) /\ (broke => ReadsBroken(t))
  <2>1. ReadsEof(t) \/ ReadsBroken(t) => n = 0
    BY <1>3
  <2> QED BY <1>1, <2>1 DEF ReadsBroken
<1>7. ended \/ ReadsEof(t) => Len(more) \in EndsOf(s, top)
  <2>1. CASE ReadsEof(t)
    BY <1>1, <1>2, <1>4, <1>6, <2>1
  <2>2. CASE ended
    <3>1. Len(got) = top
      BY <1>1, <2>2 DEF EndsOf
    <3>2. n = 0
      BY <1>1, <1>2, <1>3, <3>1
    <3> QED BY <1>1, <1>4, <2>2, <3>2
  <2> QED BY <2>1, <2>2
<1>8. broke \/ ReadsBroken(t) =>
         v.reading = <<>> /\ v.inbox = <<>> /\ ~v.alive
  <2> SUFFICES ASSUME ReadsBroken(t)
               PROVE  v.reading = <<>> /\ v.inbox = <<>> /\ ~v.alive
    BY <1>6
  <2>1. Loaded(t) = t /\ n = 0 /\ reading = <<>>
    BY <1>3, <1>6
  <2>2. t.inbox = <<>> /\ ~t.alive
    BY <1>1 DEF ReadsBroken
  <2>3. v.reading \in Seq(Byte) /\ Len(v.reading) = 0
    BY <1>0, <2>1 DEF HeadState, Chunk, reading
  <2> QED BY <1>0, <2>1, <2>2, <2>3
<1>9. v.rxOpen => v.tx
  BY <1>0, <1>1
<1>10. Flow(top, EndsOf(s, top), frames, s, v, Len(more))
  BY <1>2, <1>4
<1> QED BY <1>2, <1>4, <1>5, <1>6, <1>7, <1>8, <1>9, <1>10
        DEF Direction, more, reading

-----------------------------------------------------------------------------
\* Both directions of the stream.  Before its session has seen the opening
\* frame, the acceptor counts as the head that frame will create.
Ghost(x) == IF x = "acceptor" /\ accepts = 0 THEN AcceptStream ELSE end[x]

FlowInv ==
    \A x \in Side : Direction(written[x], wire[x], Ghost(x), Ghost(Peer(x)),
                              read[Peer(x)], eof[Peer(x)], broken[Peer(x)])

LEMMA GhostType ==
  ASSUME TypeOK, NEW x \in Side
  PROVE  Ghost(x) \in HeadState
  BY NewEnds DEF Ghost, TypeOK

\* What a step makes of the two ends.
LEMMA GhostLocal ==
  ASSUME TypeOK, AcceptInv, NEW x \in Side,
         \/ PollItem(x) \/ PollNone(x) \/ EndSession(x) \/ Write(x) \/ Close(x)
         \/ Drop(x) \/ Read(x)
  PROVE  \/ /\ Ghost(x) = end[x] /\ Ghost(x)' = end'[x]
            /\ Ghost(Peer(x))' = Ghost(Peer(x)) /\ accepts' = accepts
         \/ /\ UNCHANGED <<wire, accepts, written, read, eof, broken>>
            /\ \A z \in Side : Ghost(z)' = Ghost(z)
            /\ \A z \in Side : end'[z].txOpen = end[z].txOpen
<1>1. /\ accepts' = accepts /\ end'[Peer(x)] = end[Peer(x)]
      /\ end[x] = NoStream => /\ ~PollItem(x)
                              /\ end'[x] = NoStream
                              /\ UNCHANGED <<wire, written, read, eof, broken>>
  <2>1. CASE PollItem(x)
    <3>1. end[x].alive /\ end' = [end EXCEPT ![x] = Polled(@)] /\ accepts' = accepts
      BY <2>1 DEF PollItem
    <3>2. end[x] # NoStream
      BY <3>1, NewEnds
    <3> QED BY <3>1, <3>2, Sides DEF TypeOK
  <2>2. CASE ~PollItem(x)
    BY <2>2, LocalStep
  <2> QED BY <2>1, <2>2
<1>2. CASE x = "acceptor" /\ accepts = 0
  <2>1. end[x] = NoStream
    BY <1>2 DEF AcceptInv
  <2>2. end'[x] = end[x] /\ \A z \in Side : end'[z] = end[z]
    BY <1>1, <2>1, Sides
  <2> QED BY <1>1, <2>1, <2>2 DEF Ghost
<1>3. CASE ~(x = "acceptor" /\ accepts = 0)
  BY <1>1, <1>3 DEF Ghost
<1> QED BY <1>2, <1>3

LEMMA GhostReceive ==
  ASSUME TypeOK, AcceptInv, NEW x \in Side, Receive(x)
  PROVE  LET y == Peer(x)
             frames == wire[y]
         IN  /\ frames \in Seq(StreamEvent) /\ frames # <<>>
             /\ \E next \in Arrivals(frames) :
                /\ next.event \in StreamEvent
                /\ "RST" \notin EventFlags(next.event)
                /\ next.rest \o Tail(frames) \in Seq(StreamEvent)
                /\ wire'[y] = next.rest \o Tail(frames) /\ wire'[x] = wire[x]
                /\ Ghost(y)' = Ghost(y)
                /\ Ghost(x)' = IF Ghost(x).alive
                               THEN OnInput(Ghost(x), next.event) ELSE Ghost(x)
                /\ UNCHANGED <<written, read, eof, broken>>
<1> DEFINE y == Peer(x)
           frames == wire[y]
<1>1. PICK next \in Arrivals(frames) :
         /\ next.event \in StreamEvent
         /\ next.rest \o Tail(frames) \in Seq(Plain)
         /\ wire' = [wire EXCEPT ![y] = next.rest \o Tail(frames)]
         /\ end'[y] = end[y]
         /\ UNCHANGED <<up, written, read, eof, broken>>
         /\ \/ /\ accepts = 0 /\ x = "acceptor" /\ next.event = Syn
               /\ accepts' = 1
               /\ end'[x] = OnInput(AcceptStream, next.event)
            \/ /\ accepts = 1 /\ accepts' = 1
               /\ next.event \in Plain
               /\ end'[x] = IF end[x].alive
                            THEN OnInput(end[x], next.event) ELSE end[x]
  BY ReceiveCases
<1>2. frames \in Seq(StreamEvent) /\ frames # <<>>
  BY ReceiveCases
<1>3. "RST" \notin EventFlags(next.event)
  BY <1>1, SynType DEF Plain
<1>4. y \in Side /\ x # y
  BY Sides
<1> DEFINE left == next.rest \o Tail(frames)
<1>5. wire' = [wire EXCEPT ![y] = left] /\ left \in Seq(Plain)
  BY <1>1
<1> HIDE DEF left, y
<1>6. wire'[y] = left /\ wire'[x] = wire[x]
  BY <1>4, <1>5 DEF TypeOK
<1>7. left \in Seq(StreamEvent)
  BY <1>5 DEF Plain
<1>8. CASE accepts = 0
  <2>1. x = "acceptor" /\ y = "opener"
    BY <1>1, <1>8, TwoSides DEF y
  <2>2. Ghost(x) = AcceptStream /\ Ghost(x)' = end'[x] /\ Ghost(y)' = Ghost(y)
    BY <1>1, <1>8, <2>1 DEF Ghost
  <2>3. Ghost(x)' = IF Ghost(x).alive THEN OnInput(Ghost(x), next.event)
                                      ELSE Ghost(x)
    BY <1>1, <1>8, <2>2, NewEnds
  <2> QED BY <1>1, <1>2, <1>3, <1>6, <1>7, <2>2, <2>3 DEF left, y
<1>9. CASE accepts # 0
  <2>1. Ghost(x) = end[x] /\ Ghost(y) = end[y] /\ Ghost(x)' = end'[x]
        /\ Ghost(y)' = end'[y]
    BY <1>1, <1>9 DEF Ghost
  <2> QED BY <1>1, <1>2, <1>3, <1>6, <1>7, <1>9, <2>1 DEF left, y
<1> QED BY <1>8, <1>9

LEMMA NewDirection ==
  ASSUME NEW remote \in BOOLEAN, NEW opening \in Flag, opening # "FIN",
         NEW premote \in BOOLEAN, NEW popening \in Flag
  PROVE  Direction(0, <<>>, NewHead(remote, opening),
                   NewHead(premote, popening), <<>>, FALSE, FALSE)
<1> DEFINE s == NewHead(remote, opening)
           t == NewHead(premote, popening)
           b == Station(0, NoPayload)
           update == WindowUpdate({opening}, InitialWindow)
<1>1. /\ s.outs = <<update>> /\ s.outbox = <<>> /\ s.txOpen
      /\ t.rxOpen /\ t.tx /\ t.inbox = <<>> /\ t.reading = <<>>
      /\ t.recvState = NoPayload
  BY NewHeadEffect
<1> HIDE DEF s, t
<1>2. b \in Stations(0) /\ b.at = 0 /\ b.owed = NoPayload
  BY DEF Stations, Station
<1>3. update \in StreamEvent /\ update.kind = "WindowUpdate" /\ ~HasFin(update)
  <2>1. PICK flags \in SUBSET Flag : flags = {opening}
    OBVIOUS
  <2> QED BY <2>1, WindowUpdateType, WindowAssumption DEF HasFin, EventFlags
<1> HIDE DEF b, update
<1>4. <<b, update, b>> \in EventSteps(0, {})
  <2>1. EventStep(b, update, b, {})
    BY <1>3 DEF EventStep
  <2> QED BY <1>2, <1>3, <2>1 DEF EventSteps
<1>5. Path(s.outs, EventSteps(0, {}), b, b)
  <2>1. Append(<<>>, update) = <<update>> /\ <<>> \in Seq(StreamEvent)
    OBVIOUS
  <2>2. Path(<<>>, EventSteps(0, {}), b, b)
    BY PathEmpty
  <2>3. Path(Append(<<>>, update), EventSteps(0, {}), b, b)
    BY <1>3, <1>4, <2>1, <2>2, PathAppend
  <2> QED BY <1>1, <2>1, <2>3
<1>6. Path(<<>>, EventSteps(0, {}), b, b) /\ Path(<<>>, ChunkSteps(0, {}), 0, 0)
  BY PathEmpty
<1>7. Len(<<>>) = 0 /\ 0 + 0 = 0 /\ Run(<<>>, 0) /\ 0 \in 0..0
  BY DEF Run
<1>8. Sends(s, 0, {}, b) /\ Reads(t, 0, {}, 0, 0)
  BY <1>1, <1>2, <1>5, <1>6, <1>7 DEF Sends, Reads
<1>9. Flow(0, {}, <<>>, s, t, 0)
  BY <1>1, <1>2, <1>6, <1>7, <1>8 DEF Flow
<1> QED BY <1>1, <1>7, <1>9 DEF Direction, EndsOf, s, t

LEMMA InitFlow == Init => FlowInv
<1> SUFFICES ASSUME Init PROVE FlowInv
  OBVIOUS
<1>1. /\ Ghost("opener") = NewHead(FALSE, "SYN")
      /\ Ghost("acceptor") = NewHead(TRUE, "ACK")
  BY TwoSides DEF Init, Ghost, OpenStream, AcceptStream
<1>2. /\ {"SYN", "ACK"} \subseteq Flag /\ FALSE \in BOOLEAN /\ TRUE \in BOOLEAN
      /\ "SYN" # "FIN" /\ "ACK" # "FIN"
  BY DEF Flag
<1>3. /\ Direction(0, <<>>, Ghost("opener"), Ghost("acceptor"), <<>>, FALSE, FALSE)
      /\ Direction(0, <<>>, Ghost("acceptor"), Ghost("opener"), <<>>, FALSE, FALSE)
  BY <1>1, <1>2, NewDirection
<1>4. \A x \in Side : /\ written[x] = 0 /\ wire[x] = <<>> /\ read[x] = <<>>
                      /\ eof[x] = FALSE /\ broken[x] = FALSE
  BY DEF Init
<1> QED BY <1>3, <1>4, TwoSides DEF FlowInv

LEMMA NextFlow == TypeOK /\ AcceptInv /\ FlowInv /\ [Next]_vars => FlowInv'
<1> SUFFICES ASSUME TypeOK, AcceptInv, FlowInv, [Next]_vars PROVE FlowInv'
  OBVIOUS
<1>0. ASSUME NEW x \in Side
      PROVE  /\ Peer(x) \in Side /\ Peer(x) # x /\ Peer(Peer(x)) = x
             /\ Ghost(x) \in HeadState /\ end[x] \in HeadState
             /\ written[x] \in Nat /\ read[x] \in Seq(Byte)
             /\ wire[x] \in Seq(StreamEvent)
             /\ Direction(written[x], wire[x], Ghost(x), Ghost(Peer(x)),
                          read[Peer(x)], eof[Peer(x)], broken[Peer(x)])
  BY Sides, GhostType DEF TypeOK, FlowInv
\* It is enough to look at the direction from an end and the one to it.
<1>1. ASSUME NEW x \in Side,
             Direction(written'[x], wire'[x], Ghost(x)', Ghost(Peer(x))',
                       read'[Peer(x)], eof'[Peer(x)], broken'[Peer(x)]),
             Direction(written'[Peer(x)], wire'[Peer(x)], Ghost(Peer(x))',
                       Ghost(x)', read'[x], eof'[x], broken'[x])
      PROVE  FlowInv'
  <2>1. \A z \in Side : z = x \/ z = Peer(x)
    BY Sides
  <2> QED BY <1>0, <1>1, <2>1 DEF FlowInv
<1>2. ASSUME NEW x \in Side, Receive(x) PROVE FlowInv'
  <2> DEFINE y == Peer(x)
             frames == wire[y]
  <2>1. /\ frames \in Seq(StreamEvent) /\ frames # <<>>
        /\ UNCHANGED <<written, read, eof, broken>>
    BY <1>2, GhostReceive
  <2>2. PICK next \in Arrivals(frames) :
           /\ next.event \in StreamEvent
           /\ "RST" \notin EventFlags(next.event)
           /\ wire'[y] = next.rest \o Tail(frames) /\ wire'[x] = wire[x]
           /\ Ghost(y)' = Ghost(y)
           /\ Ghost(x)' = IF Ghost(x).alive
                          THEN OnInput(Ghost(x), next.event) ELSE Ghost(x)
    BY <1>2, GhostReceive
  <2> HIDE DEF frames, y
  <2>3. /\ y \in Side
        /\ Direction(written[y], frames, Ghost(y), Ghost(x), read[x], eof[x],
                     broken[x])
        /\ Direction(written[x], wire[x], Ghost(x), Ghost(y), read[y], eof[y],
                     broken[y])
    BY <1>0 DEF y, frames
  <2>4. Direction(written[y], next.rest \o Tail(frames), Ghost(y), Ghost(x)',
                  read[x], eof[x], broken[x])
    BY <1>0, <2>1, <2>2, <2>3, DirectionTaken
  <2>5. Direction(written[x], wire[x], Ghost(x)', Ghost(y), read[y], eof[y],
                  broken[y])
    <3>1. CASE Ghost(x).alive
      BY <1>0, <2>2, <2>3, <3>1, DirectionHeard
    <3>2. CASE ~Ghost(x).alive
      BY <2>2, <2>3, <3>2
    <3> QED BY <3>1, <3>2
  <2> QED BY <1>1, <2>1, <2>2, <2>4, <2>5 DEF y
\* The other steps are of one end, x, and its head u becomes v.
<1>3. ASSUME NEW x \in Side,
             \/ PollItem(x) \/ PollNone(x) \/ EndSession(x) \/ Write(x)
             \/ Close(x) \/ Drop(x) \/ Read(x)
      PROVE  FlowInv'
  <2> DEFINE y == Peer(x)
             u == end[x]
             v == end'[x]
  <2>1. \/ /\ Ghost(x) = u /\ Ghost(x)' = v /\ Ghost(y)' = Ghost(y)
        \/ /\ UNCHANGED <<wire, accepts, written, read, eof, broken>>
           /\ \A z \in Side : Ghost(z)' = Ghost(z)
    BY <1>3, GhostLocal
  <2>2. CASE /\ UNCHANGED <<wire, accepts, written, read, eof, broken>>
             /\ \A z \in Side : Ghost(z)' = Ghost(z)
    BY <1>0, <1>1, <2>2
  <2>3. CASE Ghost(x) = u /\ Ghost(x)' = v /\ Ghost(y)' = Ghost(y)
    <3> HIDE DEF y
    <3>1. /\ y \in Side /\ y # x
          /\ Direction(written[y], wire[y], Ghost(y), u, read[x], eof[x],
                       broken[x])
          /\ Direction(written[x], wire[x], u, Ghost(y), read[y], eof[y],
                       broken[y])
      BY <1>0, <2>3 DEF y
    \* It is enough to look at the two directions with x's new head.
    <3>2. ASSUME Direction(written'[y], wire'[y], Ghost(y), v, read'[x],
                           eof'[x], broken'[x]),
                 Direction(written'[x], wire'[x], v, Ghost(y), read'[y],
                           eof'[y], broken'[y])
          PROVE  FlowInv'
      BY <1>1, <2>3, <3>2 DEF y
    <3>3. CASE PollItem(x)
      <4>1. /\ u.alive /\ PollsItem(u) /\ v = Polled(u)
            /\ wire'[x] = Append(wire[x], PolledItem(u)) /\ wire'[y] = wire[y]
            /\ UNCHANGED <<written, read, eof, broken>>
        BY <3>1, <3>3 DEF PollItem, TypeOK
      <4>2. Direction(written[x], wire'[x], v, Ghost(y), read[y], eof[y],
                      broken[y])
        BY <1>0, <3>1, <4>1, DirectionPolled
      <4>3. /\ v.recvState = u.recvState /\ v.alive = u.alive
            /\ (v.tx <=> u.tx) /\ v.rxOpen = u.rxOpen
            /\ v.inbox = u.inbox /\ v.reading = u.reading
        <5>1. u \in HeadState
          BY <1>0
        <5> HIDE DEF u, v
        <5>2. Kept(u, Polled(u))
          BY <5>1, PolledEffect
        <5> QED BY <4>1, <5>2 DEF Kept, SameInbox, SameReader
      <4> HIDE DEF v, u
      <4>4. Direction(written[y], wire[y], Ghost(y), v, read[x], eof[x],
                      broken[x])
        BY <1>0, <3>1, <4>3, DirectionKept
      <4> QED BY <3>2, <4>1, <4>2, <4>4
    <3>4. CASE PollNone(x) \/ EndSession(x) \/ Close(x) \/ Drop(x)
      <4>1. /\ UNCHANGED <<wire, written, read, eof, broken>>
            /\ \/ v = RemoveHead(u) \/ v = PollClose(u) \/ v = DropHandle(u)
        BY <3>4 DEF PollNone, EndSession, Close, Drop, TypeOK
      <4>2. /\ v.alive => /\ u.alive /\ v.outs = u.outs /\ v.outbox = u.outbox
                          /\ v.recvState = u.recvState
            /\ v.txOpen => u.txOpen
            /\ v.rxOpen => /\ u.rxOpen /\ v.reading = u.reading
                           /\ v.inbox = u.inbox /\ (u.tx => v.tx)
            /\ u.reading = <<>> => v.reading = <<>>
            /\ u.inbox = <<>> => v.inbox = <<>>
        <5>1. CASE v = RemoveHead(u)
          BY <1>0, <5>1, RemoveHeadEffect DEF SameInbox, SameReader
        <5>2. CASE v = PollClose(u)
          BY <1>0, <5>2, PollCloseEffect DEF HeadKept, SameReader
        <5>3. CASE v = DropHandle(u)
          BY <1>0, <5>3, DropHandleEffect DEF HeadKept
        <5> QED BY <4>1, <5>1, <5>2, <5>3
      <4> HIDE DEF v, u
      <4>3. Direction(written[y], wire[y], Ghost(y), v, read[x], eof[x],
                      broken[x])
        BY <1>0, <3>1, <4>2, DirectionKept
      <4>4. Direction(written[x], wire[x], v, Ghost(y), read[y], eof[y],
                      broken[y])
        BY <1>0, <3>1, <4>2, DirectionKept
      <4> QED BY <3>2, <4>1, <4>3, <4>4
    <3>5. CASE Write(x)
      <4>1. PICK chunk \in Chunk, t \in HeadState :
               /\ WriteReady(u) /\ chunk # <<>>
               /\ \A i \in 1..Len(chunk) : chunk[i] = written[x] + i
               /\ end' = [end EXCEPT ![x] = t]
               /\ t.outbox = Append(u.outbox, chunk)
               /\ t.txOpen = u.txOpen /\ t.inbox = u.inbox
               /\ SameReader(u, t) /\ HeadKept(u, t)
               /\ written' = [written EXCEPT ![x] = written[x] + Len(chunk)]
               /\ UNCHANGED <<wire, up, accepts, read, eof, broken>>
        BY <3>5, WriteEffect
      <4>2. v = t /\ written'[x] = written[x] + Len(chunk)
            /\ written'[y] = written[y] /\ u.alive /\ u.txOpen
        BY <3>1, <4>1 DEF WriteReady, TypeOK
      <4>3. /\ v.outbox = Append(u.outbox, chunk) /\ v.outs = u.outs
            /\ v.txOpen /\ v.inbox = u.inbox /\ v.reading = u.reading
            /\ v.rxOpen = u.rxOpen /\ (v.tx <=> u.tx) /\ v.alive = u.alive
            /\ v.recvState = u.recvState
        BY <4>1, <4>2 DEF SameReader, HeadKept
      <4>4. Run(chunk, written[x])
        BY <4>1 DEF Run
      <4> HIDE DEF v, u
      <4>5. Direction(written[x] + Len(chunk), wire[x], v, Ghost(y), read[y],
                      eof[y], broken[y])
        <5>1. u \in HeadState
          BY <1>0 DEF u
        <5>2. Ghost(y) \in HeadState /\ read[y] \in Seq(Byte)
              /\ written[x] \in Nat
          BY <1>0, <3>1
        <5> QED BY <3>1, <4>1, <4>2, <4>3, <4>4, <5>1, <5>2, DirectionWritten
      <4>6. Direction(written[y], wire[y], Ghost(y), v, read[x], eof[x],
                      broken[x])
        BY <1>0, <3>1, <4>3, DirectionKept
      <4> QED BY <3>2, <4>1, <4>2, <4>5, <4>6
    <3>6. CASE Read(x)
      <4> DEFINE reading == Loaded(u).reading
      <4>1. PICK n \in 0..Len(reading), bytes \in Chunk, t \in HeadState :
               /\ u.rxOpen
               /\ Len(bytes) = n /\ Len(t.reading) = Len(reading) - n
               /\ \A i \in 1..n : bytes[i] = reading[i]
               /\ \A i \in 1..Len(reading) - n : t.reading[i] = reading[n + i]
               /\ t.inbox = Loaded(u).inbox
               /\ SameOutbox(u, t) /\ t.rxOpen = u.rxOpen /\ HeadKept(u, t)
               /\ end' = [end EXCEPT ![x] = t]
               /\ read' = [read EXCEPT ![x] = @ \o bytes]
               /\ eof' = [eof EXCEPT ![x] = @ \/ ReadsEof(u)]
               /\ broken' = [broken EXCEPT ![x] = @ \/ ReadsBroken(u)]
               /\ UNCHANGED <<wire, up, accepts, written>>
        BY <3>6, ReadEffect
      <4>2. v = t /\ t \in HeadState
        BY <4>1 DEF TypeOK
      <4>3. /\ read'[x] = read[x] \o bytes /\ read'[y] = read[y]
            /\ eof'[x] = (eof[x] \/ ReadsEof(u)) /\ eof'[y] = eof[y]
            /\ broken'[x] = (broken[x] \/ ReadsBroken(u)) /\ broken'[y] = broken[y]
        BY <3>1, <4>1 DEF TypeOK
      <4>4. /\ t.inbox = Loaded(u).inbox /\ t.outbox = u.outbox
            /\ t.txOpen = u.txOpen /\ t.outs = u.outs /\ t.rxOpen = u.rxOpen
            /\ (t.tx <=> u.tx) /\ t.alive = u.alive
            /\ t.recvState = u.recvState
        BY <4>1 DEF SameOutbox, HeadKept
      <4>5. u \in HeadState /\ read[x] \in Seq(Byte) /\ written[y] \in Nat
        BY <1>0, <3>1
      <4> HIDE DEF v, u, reading
      <4>6. Direction(written[y], wire[y], Ghost(y), t, read[x] \o bytes,
                      eof[x] \/ ReadsEof(u), broken[x] \/ ReadsBroken(u))
        <5>1. Serves(u, t, bytes, n)
          BY <4>1, <4>4 DEF reading, Serves
        <5> QED BY <3>1, <4>1, <4>2, <4>5, <5>1, DirectionRead
      <4>7. Direction(written[x], wire[x], t, Ghost(y), read[y], eof[y],
                      broken[y])
        BY <1>0, <3>1, <4>4, DirectionKept
      <4> QED BY <3>2, <4>1, <4>2, <4>3, <4>6, <4>7
    <3> QED BY <1>3, <3>3, <3>4, <3>5, <3>6
  <2> QED BY <2>1, <2>2, <2>3
<1>4. CASE Unmoved
  <2>1. \A x \in Side : Ghost(x)' = Ghost(x)
    BY <1>4 DEF Unmoved, Ghost
  <2> QED BY <1>4, <2>1, Sides DEF Unmoved, FlowInv
<1> QED BY <1>2, <1>3, <1>4, FlushUnmoved DEF Next

-----------------------------------------------------------------------------
\* The pair implements ByteStream.
LEMMA InvInductive == Spec => [](TypeOK /\ AcceptInv /\ FlowInv)
<1> QED BY InitTypeOK, NextTypeOK, InitAccept, NextAccept, InitFlow, NextFlow,
           PTL DEF Spec

LEMMA ReadSeen ==
  ASSUME TypeOK, AcceptInv, FlowInv, NEW x \in Side, Read(x)
  PROVE  LET y == Peer(x)
             s == end[x]
         IN  /\ UNCHANGED <<wire, up, accepts, written>>
             /\ Ghost(x)'.txOpen = Ghost(x).txOpen /\ Ghost(y)' = Ghost(y)
             /\ \/ ReadsData(s) /\ ~ReadsEof(s) /\ ~ReadsBroken(s)
                \/ ~ReadsData(s) /\ ReadsEof(s) /\ ~ReadsBroken(s)
                \/ ~ReadsData(s) /\ ~ReadsEof(s) /\ ReadsBroken(s)
             /\ eof' = [eof EXCEPT ![x] = @ \/ ReadsEof(s)]
             /\ broken' = [broken EXCEPT ![x] = @ \/ ReadsBroken(s)]
             /\ \E more \in Seq(Byte) :
                   /\ read' = [read EXCEPT ![x] = more]
                   /\ Run(more, 0) /\ Run(read[x], 0)
                   /\ Len(read[x]) <= Len(more) /\ Len(more) <= written[y]
                   /\ ReadsData(s) => /\ Len(read[x]) < Len(more)
                                      /\ ~eof[x] /\ ~broken[x]
                   /\ ~ReadsData(s) => more = read[x]
                   /\ ReadsEof(s) => /\ Len(read[x]) = written[y]
                                     /\ ~Ghost(y).txOpen /\ ~broken[x]
<1> DEFINE y == Peer(x)
           s == end[x]
           reading == Loaded(s).reading
<1>1. PICK n \in 0..Len(reading), bytes \in Chunk, t \in HeadState :
         /\ s.rxOpen /\ (ReadsData(s) \/ ReadsEof(s) \/ ReadsBroken(s))
         /\ reading \in Chunk /\ (reading # <<>> => n # 0)
         /\ Len(bytes) = n /\ Len(t.reading) = Len(reading) - n
         /\ \A i \in 1..n : bytes[i] = reading[i]
         /\ \A i \in 1..Len(reading) - n : t.reading[i] = reading[n + i]
         /\ t.inbox = Loaded(s).inbox
         /\ SameOutbox(s, t) /\ t.rxOpen = s.rxOpen /\ HeadKept(s, t)
         /\ n <= MaxRead
         /\ end' = [end EXCEPT ![x] = t]
         /\ read' = [read EXCEPT ![x] = @ \o bytes]
         /\ eof' = [eof EXCEPT ![x] = @ \/ ReadsEof(s)]
         /\ broken' = [broken EXCEPT ![x] = @ \/ ReadsBroken(s)]
         /\ UNCHANGED <<wire, up, accepts, written>>
  BY ReadEffect
<1>2. /\ s \in HeadState /\ read[x] \in Seq(Byte) /\ written[y] \in Nat
      /\ y \in Side /\ read \in [Side -> Seq(Byte)] /\ Peer(y) = x /\ y # x
      /\ end'[x] = t /\ end'[y] = end[y]
  BY <1>1, Sides DEF TypeOK
<1>3. /\ Ghost(x) = s /\ Ghost(x)' = t /\ Ghost(y)' = Ghost(y)
  <2>1. s # NoStream
    BY <1>1, NewEnds
  <2>2. ~(x = "acceptor" /\ accepts = 0) /\ accepts' = accepts
    BY <1>1, <2>1 DEF AcceptInv
  <2> QED BY <1>2, <2>2 DEF Ghost
<1>4. Direction(written[y], wire[y], Ghost(y), s, read[x], eof[x], broken[x])
  BY <1>2, <1>3 DEF FlowInv
<1> DEFINE more == read[x] \o bytes
<1> HIDE DEF y, s
<1>5. Serves(s, t, bytes, n)
  BY <1>1 DEF Serves, HeadKept
<1>6. /\ Len(read[x]) + Len(Loaded(s).reading) <= written[y]
      /\ Run(more, 0) /\ Len(more) = Len(read[x]) + n
      /\ ReadsEof(s) => Len(read[x]) \in EndsOf(Ghost(y), written[y]) /\ n = 0
      /\ ReadsBroken(s) => n = 0
      /\ broken[x] => ReadsBroken(s)
  BY <1>1, <1>2, <1>4, <1>5, DirectionRead
<1>7. /\ n \in Nat /\ n <= Len(reading) /\ Len(reading) \in Nat
      /\ (ReadsData(s) => n # 0) /\ Len(read[x]) \in Nat
      /\ Len(read[x]) + Len(reading) <= written[y]
  <2>1. Len(reading) \in Nat /\ (ReadsData(s) => reading # <<>>)
        /\ Len(read[x]) \in Nat /\ Len(read[x]) + Len(reading) <= written[y]
    BY <1>1, <1>2, <1>6 DEF Chunk, ReadsData
  <2>2. n \in 0..Len(reading) /\ (reading # <<>> => n # 0)
    BY <1>1
  <2> HIDE DEF reading
  <2> QED BY <2>1, <2>2
<1>8. /\ ReadsData(s) => ~ReadsEof(s) /\ ~ReadsBroken(s)
      /\ ReadsEof(s) => ~ReadsBroken(s)
  BY DEF ReadsData, ReadsEof, ReadsBroken, Loaded
<1>9. more \in Seq(Byte) /\ (n = 0 => more = read[x])
  <2>1. read[x] \in Seq(Byte) /\ bytes \in Seq(Byte)
    BY <1>1, <1>2 DEF Chunk
  <2>2. n = 0 => bytes = <<>>
    BY <1>1, <2>1
  <2>3. read[x] \o <<>> = read[x]
    BY <1>2
  <2> QED BY <2>1, <2>2, <2>3, ConcatProperties
<1> HIDE DEF reading, more
<1>10. Run(read[x], 0) /\ (eof[x] => Len(read[x]) = written[y])
  BY <1>4 DEF Direction, EndsOf
<1>11. ReadsEof(s) => Len(read[x]) = written[y] /\ ~Ghost(y).txOpen
  BY <1>6 DEF EndsOf
<1>12. Len(read[x]) <= Len(more) /\ Len(more) <= written[y]
  BY <1>2, <1>6, <1>7
<1>13. ReadsData(s) => Len(read[x]) < Len(more) /\ ~eof[x] /\ ~broken[x]
  BY <1>2, <1>6, <1>7, <1>8, <1>10
<1>14. ~ReadsData(s) => more = read[x]
  BY <1>1, <1>6, <1>9
<1>15. read' = [read EXCEPT ![x] = more]
  BY <1>1 DEF more
<1>16. Ghost(x)'.txOpen = Ghost(x).txOpen
  BY <1>1, <1>3 DEF SameOutbox, s
<1> QED BY <1>1, <1>3, <1>6, <1>8, <1>9, <1>10, <1>11, <1>12, <1>13, <1>14,
           <1>15, <1>16 DEF s, y

\* The counterparts of ByteStream's variables.
Sent == [x \in Side |-> [i \in 1..written[x] |-> i]]
Shut == [x \in Side |-> Exists(x) /\ ~end[x].txOpen]

ShutInv == \A x \in Side : Shut[x] <=> ~Ghost(x).txOpen

LEMMA ShutIs == AcceptInv => ShutInv
<1> SUFFICES ASSUME AcceptInv, NEW x \in Side
             PROVE  Shut[x] <=> ~Ghost(x).txOpen
  BY DEF ShutInv
<1>0. Shut[x] = (Exists(x) /\ ~end[x].txOpen)
  BY DEF Shut
<1>1. CASE x = "acceptor" /\ accepts = 0
  <2>1. ~Exists(x)
    BY <1>1 DEF Exists
  <2>2. Ghost(x).txOpen
    BY <1>1, NewEnds DEF Ghost
  <2> QED BY <1>0, <2>1, <2>2
<1>2. CASE ~(x = "acceptor" /\ accepts = 0)
  <2>1. Exists(x)
    BY <1>2, TwoSides DEF Exists, AcceptInv
  <2>2. Ghost(x) = end[x]
    BY <1>2 DEF Ghost
  <2> QED BY <1>0, <2>1, <2>2
<1> QED BY <1>1, <1>2

LEMMA PromisedPeer ==
  ASSUME NEW x \in Side
  PROVE  Promise!Peer(x) = Peer(x)
  BY Sides DEF Promise!Peer

LEMMA InitPromise == Init => Promise!Init
<1> SUFFICES ASSUME Init PROVE Promise!Init
  OBVIOUS
<1>1. [x \in Side |-> [i \in 1..written[x] |-> i]] = [x \in Side |-> <<>>]
  <2>1. \A x \in Side : [i \in 1..written[x] |-> i] = <<>>
    <3>1. \A x \in Side : 1..written[x] = {}
      BY DEF Init
    <3>2. [i \in {} |-> i] = <<>>
      OBVIOUS
    <3> QED BY <3>1, <3>2
  <2> QED BY <2>1
<1>2. [x \in Side |-> Exists(x) /\ ~end[x].txOpen] = [x \in Side |-> FALSE]
  <2>1. ASSUME NEW x \in Side PROVE (Exists(x) /\ ~end[x].txOpen) = FALSE
    <3>1. CASE x = "opener"
      <4>1. end[x].txOpen
        BY <3>1, NewHeadEffect DEF Init, OpenStream, Flag
      <4> QED BY <4>1
    <3>2. CASE x # "opener"
      BY <3>2 DEF Init, Exists
    <3> QED BY <3>1, <3>2
  <2> QED BY <2>1
<1> QED BY <1>1, <1>2 DEF Init, Promise!Init

\* A step that no application sees.
LEMMA StutterPromise ==
  ASSUME AcceptInv, AcceptInv', UNCHANGED <<written, read, eof, broken>>,
         \A x \in Side : Ghost(x)'.txOpen <=> Ghost(x).txOpen
  PROVE  UNCHANGED Promise!vars
<1>1. Shut' = Shut
  <2>1. \A x \in Side : Shut'[x] <=> Shut[x]
    <3>1. ShutInv /\ ShutInv'
      BY ShutIs, PTL
    <3> QED BY <3>1 DEF ShutInv
  <2> QED BY <2>1 DEF Shut
<1>2. Sent' = Sent
  BY DEF Sent
<1> QED BY <1>1, <1>2 DEF Promise!vars, Shut, Sent

LEMMA SameSeq ==
  ASSUME NEW S, NEW T, NEW q \in Seq(S), NEW r \in Seq(T), Len(q) = Len(r),
         \A i \in 1..Len(q) : q[i] = r[i]
  PROVE  q = r
<1>1. q = [i \in 1..Len(q) |-> q[i]] /\ r = [i \in 1..Len(r) |-> r[i]]
  OBVIOUS
<1> QED BY <1>1

\* The bytes of a chunk that is written continue those written before.
LEMMA Continued ==
  ASSUME NEW w \in Nat, NEW chunk \in Seq(Byte), Run(chunk, w)
  PROVE  [i \in 1..w |-> i] \o chunk = [i \in 1..w + Len(chunk) |-> i]
<1> DEFINE old == [i \in 1..w |-> i]
           new == [i \in 1..w + Len(chunk) |-> i]
<1>1. /\ Len(chunk) \in Nat /\ old \in Seq(Int) /\ Len(old) = w
      /\ new \in Seq(Int) /\ Len(new) = w + Len(chunk)
      /\ \A i \in 1..w : old[i] = i
      /\ \A i \in 1..w + Len(chunk) : new[i] = i
  OBVIOUS
<1>2. \A i \in 1..Len(chunk) : chunk[i] = w + i
  BY DEF Run
<1>3. chunk \in Seq(Int)
  BY <1>1, <1>2
<1> HIDE DEF old, new
<1>4. /\ old \o chunk \in Seq(Int)
      /\ Len(old \o chunk) = Len(old) + Len(chunk)
      /\ \A i \in 1..Len(old) + Len(chunk) :
            (old \o chunk)[i] = IF i <= Len(old) THEN old[i]
                                                ELSE chunk[i - Len(old)]
  BY <1>1, <1>3, ConcatProperties
<1> DEFINE all == old \o chunk
<1> HIDE DEF all
<1>5. ASSUME NEW i \in 1..w + Len(chunk) PROVE all[i] = new[i]
  <2>1. CASE i <= w
    BY <1>1, <1>4, <2>1 DEF all
  <2>2. CASE ~(i <= w)
    <3>1. i - w \in 1..Len(chunk)
      BY <1>1, <2>2
    <3> QED BY <1>1, <1>2, <1>4, <2>2, <3>1 DEF all
  <2> QED BY <2>1, <2>2
<1>6. all \in Seq(Int) /\ Len(all) = Len(new)
  BY <1>1, <1>4 DEF all
<1>7. all = new
  <2>1. \A i \in 1..Len(all) : all[i] = new[i]
    BY <1>1, <1>5, <1>6
  <2> QED BY <1>1, <1>6, <2>1, SameSeq
<1> QED BY <1>7 DEF all, old, new

LEMMA NextPromise ==
  TypeOK /\ AcceptInv /\ FlowInv /\ AcceptInv' /\ [Next]_vars
     => [Promise!Next]_Promise!vars
<1> SUFFICES ASSUME TypeOK, AcceptInv, FlowInv, AcceptInv', [Next]_vars
             PROVE  [Promise!Next]_Promise!vars
  OBVIOUS
<1>0. /\ ShutInv /\ ShutInv'
      /\ written \in [Side -> Nat] /\ read \in [Side -> Seq(Byte)]
      /\ eof \in [Side -> BOOLEAN] /\ broken \in [Side -> BOOLEAN]
      /\ end \in [Side -> HeadState]
  BY ShutIs, PTL DEF TypeOK
<1>1. CASE \E x \in Side : Receive(x)
  <2>1. PICK x \in Side : Receive(x)
    BY <1>1
  <2>2. PICK event \in StreamEvent :
           /\ Ghost(Peer(x))' = Ghost(Peer(x))
           /\ Ghost(x)' = IF Ghost(x).alive THEN OnInput(Ghost(x), event)
                                            ELSE Ghost(x)
           /\ UNCHANGED <<written, read, eof, broken>>
    BY <2>1, GhostReceive
  <2>3. Ghost(x)'.txOpen <=> Ghost(x).txOpen
    BY <2>2, GhostType, OnInputEffect DEF SameOutbox
  <2>4. \A z \in Side : Ghost(z)'.txOpen <=> Ghost(z).txOpen
    BY <2>2, <2>3, Sides
  <2> QED BY <2>2, <2>4, StutterPromise
<1>2. CASE \E x \in Side : PollItem(x) \/ PollNone(x) \/ EndSession(x)
  <2>1. PICK x \in Side : PollItem(x) \/ PollNone(x) \/ EndSession(x)
    BY <1>2
  <2>2. /\ UNCHANGED <<written, read, eof, broken>>
        /\ \/ end' = [end EXCEPT ![x] = Polled(end[x])]
           \/ end' = [end EXCEPT ![x] = RemoveHead(end[x])]
    BY <1>0, <2>1 DEF PollItem, PollNone, EndSession
  <2>3. end[x] \in HeadState
    BY <1>0
  <2>4. end'[x].txOpen = end[x].txOpen
    BY <1>0, <2>2, <2>3, PolledEffect, RemoveHeadEffect DEF Kept
  <2>5. \A z \in Side : Ghost(z)'.txOpen <=> Ghost(z).txOpen
    BY <2>1, <2>4, GhostLocal, Sides
  <2> QED BY <2>2, <2>5, StutterPromise
<1>3. CASE \E x \in Side : Close(x) \/ Drop(x)
  <2>1. PICK x \in Side : Close(x) \/ Drop(x)
    BY <1>3
  <2>2. /\ UNCHANGED <<written, read, eof, broken, accepts>>
        /\ \/ end' = [end EXCEPT ![x] = PollClose(end[x])] /\ end[x].txOpen
           \/ end' = [end EXCEPT ![x] = DropHandle(end[x])] /\ end[x].rxOpen
    BY <1>0, <2>1 DEF Close, Drop
  <2>3. end[x] \in HeadState /\ Exists(x)
    <3>1. end[x] # NoStream
      BY <2>2, NewEnds
    <3> QED BY <1>0, <3>1, TwoSides DEF AcceptInv, Exists
  <2>4. ~end'[x].txOpen
    BY <1>0, <2>2, <2>3, PollCloseEffect, DropHandleEffect
  <2>5. Shut' = [Shut EXCEPT ![x] = TRUE]
    <3>1. (Exists(x) /\ ~end'[x].txOpen) = TRUE /\ \A z \in Side : Exists(z)' <=> Exists(z)
      BY <2>2, <2>3, <2>4 DEF Exists
    <3>2. \A z \in Side : z # x => end'[z] = end[z]
      BY <1>0, <2>2
    <3> QED BY <3>1, <3>2 DEF Shut
  <2>6. Promise!Shut(x)
    BY <2>2, <2>5 DEF Promise!Shut, Shut, Sent
  <2> QED BY <2>6 DEF Promise!Next
<1>4. CASE \E x \in Side : Write(x)
  <2>1. PICK x \in Side : Write(x)
    BY <1>4
  <2>2. PICK n \in 1..MaxWrite, chunk \in Chunk, t \in HeadState :
           /\ WriteReady(end[x]) /\ chunk # <<>> /\ Len(chunk) <= n
           /\ \A i \in 1..Len(chunk) : chunk[i] = written[x] + i
           /\ end' = [end EXCEPT ![x] = t] /\ t.txOpen = end[x].txOpen
           /\ written' = [written EXCEPT ![x] = written[x] + Len(chunk)]
           /\ UNCHANGED <<wire, up, accepts, read, eof, broken>>
    BY <2>1, WriteEffect
  <2>3. chunk \in Seq(Byte) /\ Len(chunk) \in 1..MaxWrite
        /\ chunk \in [1..Len(chunk) -> Byte]
    <3>1. chunk \in Seq(Byte) /\ Len(chunk) \in Nat /\ Len(chunk) # 0
      BY <2>2 DEF Chunk
    <3> QED BY <2>2, <3>1, PairAssumption
  <2>4. end[x].txOpen /\ ~Shut[x]
    BY <2>2 DEF WriteReady, Shut
  <2>5. Shut' = Shut
    <3>1. \A z \in Side : /\ Exists(z)' <=> Exists(z)
                          /\ end'[z].txOpen <=> end[z].txOpen
      BY <1>0, <2>2 DEF Exists
    <3> QED BY <3>1 DEF Shut
  <2>6. Sent' = [Sent EXCEPT ![x] = @ \o chunk]
    <3> DEFINE w == written[x]
               old == [i \in 1..w |-> i]
               new == [i \in 1..w + Len(chunk) |-> i]
    <3>1. w \in Nat /\ Len(chunk) \in Nat
      BY <1>0, <2>3
    <3>2. new = old \o chunk
      <4>1. Run(chunk, w)
        BY <2>2 DEF Run
      <4> HIDE DEF w
      <4> QED BY <2>3, <3>1, <4>1, Continued
    <3>3. Sent' = [Sent EXCEPT ![x] = new]
      BY <1>0, <2>2 DEF Sent
    <3>4. Sent[x] = old
      BY DEF Sent
    <3> HIDE DEF old, new
    <3> QED BY <3>2, <3>3, <3>4
  <2>7. Promise!Write(x, chunk)
    BY <2>2, <2>4, <2>5, <2>6 DEF Promise!Write, Shut, Sent
  <2> QED BY <2>3, <2>7 DEF Promise!Next
<1>5. CASE \E x \in Side : Read(x)
  <2>1. PICK x \in Side : Read(x)
    BY <1>5
  <2> DEFINE y == Peer(x)
             s == end[x]
  <2>2. PICK more \in Seq(Byte) :
           /\ read' = [read EXCEPT ![x] = more]
           /\ Run(more, 0) /\ Run(read[x], 0)
           /\ Len(read[x]) <= Len(more) /\ Len(more) <= written[y]
           /\ ReadsData(s) => /\ Len(read[x]) < Len(more)
                              /\ ~eof[x] /\ ~broken[x]
           /\ ~ReadsData(s) => more = read[x]
           /\ ReadsEof(s) => /\ Len(read[x]) = written[y]
                             /\ ~Ghost(y).txOpen /\ ~broken[x]
    BY <2>1, ReadSeen
  <2>3. /\ UNCHANGED written
        /\ eof' = [eof EXCEPT ![x] = @ \/ ReadsEof(s)]
        /\ broken' = [broken EXCEPT ![x] = @ \/ ReadsBroken(s)]
        /\ \/ ReadsData(s) /\ ~ReadsEof(s) /\ ~ReadsBroken(s)
           \/ ~ReadsData(s) /\ ReadsEof(s) /\ ~ReadsBroken(s)
           \/ ~ReadsData(s) /\ ~ReadsEof(s) /\ ReadsBroken(s)
        /\ Ghost(x)'.txOpen = Ghost(x).txOpen /\ Ghost(y)' = Ghost(y)
    BY <2>1, ReadSeen
  <2>4. Shut' = Shut /\ Sent' = Sent
    <3>1. \A z \in Side : Ghost(z)'.txOpen = Ghost(z).txOpen
      BY <2>3, Sides
    <3>2. \A z \in Side : Shut'[z] <=> Shut[z]
      BY <1>0, <3>1 DEF ShutInv
    <3> QED BY <2>3, <3>2 DEF Shut, Sent
  <2>5. /\ y \in Side /\ Promise!Peer(x) = y /\ written[y] \in Nat
        /\ read[x] \in Seq(Byte) /\ Len(read[x]) \in Nat /\ Len(more) \in Nat
        /\ Sent[y] = [i \in 1..written[y] |-> i]
    BY <1>0, Sides, PromisedPeer DEF Sent
  <2>6. Len(Sent[y]) = written[y] /\ Sent[y] \in Seq(Nat)
        /\ \A i \in 1..written[y] : Sent[y][i] = i
    BY <2>5
  <2> HIDE DEF y, s
  <2>7. CASE ReadsData(s)
    <3> DEFINE n == Len(more) - Len(read[x])
    <3>1. n \in 1..written[y] /\ Len(read[x]) + n = Len(more)
      BY <2>2, <2>5, <2>7
    <3>2. more = SubSeq(Sent[y], 1, Len(more))
      <4> DEFINE part == SubSeq(Sent[y], 0 + 1, Len(more))
      <4>1. 0 <= Len(more) /\ Len(more) - 0 = Len(more) /\ 0 \in Nat
            /\ Len(more) <= Len(Sent[y])
        BY <2>2, <2>5, <2>6
      <4>2. /\ part \in Seq(Nat) /\ Len(part) = Len(more)
            /\ \A i \in 1..Len(more) : part[i] = Sent[y][0 + i]
        BY <2>5, <2>6, <4>1, PartType
      <4>3. \A i \in 1..Len(more) : part[i] = more[i]
        <5>1. ASSUME NEW i \in 1..Len(more) PROVE part[i] = more[i]
          <6>1. 0 + i = i /\ i \in 1..written[y]
            BY <2>2, <2>5
          <6> QED BY <2>2, <2>6, <4>2, <6>1 DEF Run
        <5> QED BY <5>1
      <4>4. part = SubSeq(Sent[y], 1, Len(more))
        OBVIOUS
      <4> HIDE DEF part
      <4>5. part = more
        BY <4>2, <4>3, SameSeq
      <4> QED BY <4>4, <4>5
    <3>3. ~eof[x] /\ ~broken[x] /\ eof' = eof /\ broken' = broken
      BY <1>0, <2>2, <2>3, <2>7
    <3> HIDE DEF n
    <3>4. read' = [read EXCEPT ![x] = SubSeq(Sent[y], 1, Len(read[x]) + n)]
      BY <2>2, <3>1, <3>2
    <3>5. Len(read[x]) + n <= Len(Sent[y])
      BY <2>2, <2>6, <3>1
    <3>6. Promise!Read(x, n)
      BY <1>0, <2>4, <2>5, <3>3, <3>4, <3>5 DEF Promise!Read, Sent, Shut
    <3>7. n \in 1..Len(Sent[Promise!Peer(x)])
      BY <2>5, <2>6, <3>1
    <3> QED BY <3>6, <3>7 DEF Promise!Next, Sent
  <2>8. CASE ReadsEof(s)
    <3>1. read' = read /\ broken' = broken /\ ~broken[x]
      BY <1>0, <2>2, <2>3, <2>8
    <3>2. eof' = [eof EXCEPT ![x] = TRUE]
      BY <1>0, <2>3, <2>8
    <3>3. Shut[y] /\ read[x] = Sent[y]
      <4>1. Shut[y]
        BY <1>0, <2>2, <2>5, <2>8 DEF ShutInv
      <4>2. Len(read[x]) = Len(Sent[y])
        BY <2>2, <2>6, <2>8
      <4>3. \A i \in 1..Len(read[x]) : read[x][i] = Sent[y][i]
        <5>1. ASSUME NEW i \in 1..Len(read[x]) PROVE read[x][i] = Sent[y][i]
          <6>1. read[x][i] = 0 + i /\ 0 + i = i
            BY <2>2 DEF Run
          <6> QED BY <2>2, <2>6, <2>8, <6>1
        <5> QED BY <5>1
      <4>4. read[x] = Sent[y]
        <5>1. read[x] \in Seq(Byte) /\ Sent[y] \in Seq(Nat)
          BY <2>5, <2>6
        <5> QED BY <4>2, <4>3, <5>1, SameSeq
      <4> QED BY <4>1, <4>4
    <3>4. CASE eof[x]
      <4>1. eof' = eof
        BY <1>0, <3>2, <3>4
      <4> QED BY <2>4, <3>1, <4>1 DEF Promise!vars, Sent, Shut
    <3>5. CASE ~eof[x]
      <4>1. Promise!End(x)
        BY <2>4, <2>5, <3>1, <3>2, <3>3, <3>5 DEF Promise!End, Sent, Shut
      <4> QED BY <4>1 DEF Promise!Next
    <3> QED BY <3>4, <3>5
  <2>9. CASE ReadsBroken(s)
    <3>1. read' = read /\ eof' = eof /\ broken' = [broken EXCEPT ![x] = TRUE]
      BY <1>0, <2>2, <2>3, <2>9
    <3>2. Promise!Break(x)
      BY <2>4, <3>1 DEF Promise!Break, Sent, Shut
    <3> QED BY <3>2 DEF Promise!Next
  <2> QED BY <2>3, <2>7, <2>8, <2>9
<1>6. CASE Unmoved
  <2>1. \A x \in Side : Ghost(x)'.txOpen <=> Ghost(x).txOpen
    BY <1>6 DEF Unmoved, Ghost
  <2>2. UNCHANGED <<written, read, eof, broken>>
    BY <1>6 DEF Unmoved
  <2> QED BY <2>1, <2>2, StutterPromise
<1> QED BY <1>1, <1>2, <1>3, <1>4, <1>5, <1>6, FlushUnmoved DEF Next

\* What the two applications see of a stream is the promise of ByteStream: bytes
\* come in order and once, whatever the sizes of windows and buffers, and an end
\* of stream is never read before the last byte written.
THEOREM PromiseKept == Spec => ImplementsByteStream
<1>1. Spec => [](TypeOK /\ AcceptInv /\ FlowInv)
  BY InvInductive
<1>2. AcceptInv /\ FlowInv /\ TypeOK /\ [Next]_vars => AcceptInv'
  BY NextAccept
<1> QED BY <1>1, <1>2, InitPromise, NextPromise, PTL
        DEF Spec, ImplementsByteStream, Promise!Spec

-----------------------------------------------------------------------------
\* The window of a direction is conserved.
LEMMA TakenTotals ==
  ASSUME NEW frames \in Seq(StreamEvent), frames # <<>>,
         NEW next \in Arrivals(frames)
  PROVE  LET left == next.rest \o Tail(frames) IN
         /\ Payload(frames) = PayloadOf(next.event) + Payload(left)
         /\ Credit(frames) = CreditOf(next.event) + Credit(left)
<1> DEFINE first == Head(frames)
           tail == Tail(frames)
<1>1. /\ Payload(frames) = PayloadOf(first) + Payload(tail)
      /\ Credit(frames) = CreditOf(first) + Credit(tail)
      /\ tail \in Seq(StreamEvent) /\ Payload(tail) \in Nat /\ Credit(tail) \in Nat
  <2>1. first \in StreamEvent /\ tail \in Seq(StreamEvent)
    BY HeadTailType
  <2>2. Payload(tail) \in Nat /\ Credit(tail) \in Nat
    <3> HIDE DEF tail
    <3> QED BY <2>1, TotalsType
  <2> QED BY <2>1, <2>2, TotalsTail
<1>2. CASE next.event = first /\ next.rest = <<>>
  <2>1. next.rest \o tail = tail
    BY <1>1, <1>2
  <2> QED BY <1>1, <1>2, <2>1
<1>3. CASE ~(next.event = first /\ next.rest = <<>>)
  <2> DEFINE c == first.chunk
             len == Len(c)
  <2>1. PICK n \in 1..len - 1 :
           /\ first.kind = "DataChunk" /\ c \in Chunk
           /\ next.event = DataChunk(SubSeq(c, 1, n))
           /\ next.rest = <<DataChunk(SubSeq(c, n + 1, len))>>
    BY <1>3, ArrivalsEffect
  <2> DEFINE one == SubSeq(c, 0 + 1, n)
             two == SubSeq(c, n + 1, len)
  <2>2. len \in Nat /\ n \in Nat /\ n <= len /\ c \in Seq(Byte) /\ 0 \in Nat
        /\ 0 <= n /\ 0 <= len
    BY <2>1 DEF Chunk
  <2>3. one \in Seq(Byte) /\ Len(one) = n - 0
    BY <2>2, PartType
  <2>4. two \in Seq(Byte) /\ Len(two) = len - n
    BY <2>2, PartType
  <2>5. next.event = DataChunk(one) /\ next.rest = <<DataChunk(two)>>
    BY <2>1
  <2>6. PayloadOf(first) = len /\ CreditOf(first) = 0
    BY <2>1 DEF PayloadOf, CreditOf
  <2> HIDE DEF one, two, len, c, first, tail
  <2>7. one \in Chunk /\ two \in Chunk
    BY <2>3, <2>4 DEF Chunk
  <2>8. /\ PayloadOf(DataChunk(one)) = n /\ CreditOf(DataChunk(one)) = 0
        /\ PayloadOf(DataChunk(two)) = len - n /\ CreditOf(DataChunk(two)) = 0
        /\ DataChunk(two) \in StreamEvent
    BY <2>2, <2>3, <2>4, <2>7, OfEvents, DataChunkType
  <2> DEFINE e == DataChunk(two)
             left == <<e>> \o tail
  <2> HIDE DEF e
  <2>9. left \in Seq(StreamEvent) /\ left # <<>> /\ Head(left) = e
        /\ Tail(left) = tail
    BY <1>1, <2>8 DEF e
  <2> HIDE DEF left
  <2>10. Payload(left) = PayloadOf(e) + Payload(tail)
         /\ Credit(left) = CreditOf(e) + Credit(tail)
    BY <2>9, TotalsTail
  <2>11. Payload(frames) = PayloadOf(next.event) + Payload(left)
         /\ Credit(frames) = CreditOf(next.event) + Credit(left)
    BY <1>1, <2>2, <2>5, <2>6, <2>8, <2>10 DEF e
  <2> QED BY <2>5, <2>11 DEF left, e, tail
<1> QED BY <1>2, <1>3

LEMMA InputTotals ==
  ASSUME NEW s \in HeadState, NEW event \in StreamEvent,
         "RST" \notin EventFlags(event), ~InputError(s, event)
  PROVE  LET t == OnInput(s, event)
         IN  /\ t.send = s.send + CreditOf(event)
             /\ Payload(t.outs) = Payload(s.outs)
             /\ t.recv + Credit(t.outs)
                  = s.recv + Credit(s.outs) + PayloadOf(event)
<1> DEFINE t == OnInput(s, event)
           got == s.recv + PayloadOf(event)
           update == WindowUpdate({}, got)
<1>1. /\ t.send = s.send + CreditOf(event)
      /\ \/ t.outs = s.outs /\ t.recv = got
         \/ t.recv = 0 /\ t.outs = Append(s.outs, update)
  BY InputEffect
<1>2. /\ s.recv \in Nat /\ PayloadOf(event) \in Nat /\ got \in Nat
      /\ s.outs \in Seq(StreamEvent) /\ Credit(s.outs) \in Nat
      /\ Payload(s.outs) \in Nat
  <2>1. s.recv \in Nat /\ s.outs \in Seq(StreamEvent)
    BY DEF HeadState
  <2>2. PayloadOf(event) \in Nat
    BY OfType
  <2> QED BY <2>1, <2>2, TotalsType
<1> HIDE DEF t
<1>3. CASE t.outs = s.outs /\ t.recv = got
  BY <1>1, <1>2, <1>3 DEF t
<1>4. CASE t.recv = 0 /\ t.outs = Append(s.outs, update)
  <2>1. {} \in SUBSET Flag
    OBVIOUS
  <2> HIDE DEF got
  <2>2. update \in StreamEvent /\ PayloadOf(update) = 0 /\ CreditOf(update) = got
    <3>1. PICK flags \in SUBSET Flag : flags = {}
      BY <2>1
    <3> QED BY <1>2, <3>1, WindowUpdateType, OfEvents
  <2> HIDE DEF update
  <2>3. /\ Payload(t.outs) = Payload(s.outs) + 0
        /\ Credit(t.outs) = Credit(s.outs) + got
    BY <1>2, <1>4, <2>2, TotalsAppend
  <2>4. t.recv + Credit(t.outs) = s.recv + Credit(s.outs) + PayloadOf(event)
    BY <1>2, <1>4, <2>3 DEF got
  <2> QED BY <1>1, <1>2, <2>3, <2>4 DEF t
<1> QED BY <1>1, <1>3, <1>4

LEMMA PolledTotals ==
  ASSUME NEW s \in HeadState, PollsItem(s), OutboxBounded(s.outbox),
         NEW frames \in Seq(StreamEvent)
  PROVE  LET t == Polled(s)
             sent == Append(frames, PolledItem(s))
         IN  /\ t.send + Payload(t.outs) + Payload(sent)
                  = s.send + Payload(s.outs) + Payload(frames)
             /\ Credit(t.outs) + Credit(sent) = Credit(s.outs) + Credit(frames)
             /\ t.recv = s.recv /\ OutboxBounded(t.outbox)
<1> DEFINE f == Filled(s)
           t == Polled(s)
           item == PolledItem(s)
           sent == Append(frames, item)
<1>1. /\ f \in HeadState /\ t \in HeadState /\ f.outs # <<>>
      /\ t.outs = Tail(f.outs) /\ item = Head(f.outs) /\ item \in StreamEvent
      /\ t.outbox = f.outbox /\ t.send = f.send /\ t.recv = s.recv
  BY FilledEffect, PolledEffect DEF Kept, SameOutbox
<1>2. /\ Credit(f.outs) = Credit(s.outs)
      /\ f.send + Payload(f.outs) = s.send + Payload(s.outs)
      /\ OutboxBounded(f.outbox)
  BY FilledTotals
<1> HIDE DEF f, t, item
<1>3. /\ f.outs \in Seq(StreamEvent) /\ t.outs \in Seq(StreamEvent)
      /\ s.outs \in Seq(StreamEvent)
      /\ f.send \in Nat /\ s.send \in Nat
  BY <1>1 DEF HeadState
<1>4. /\ Payload(f.outs) = PayloadOf(item) + Payload(t.outs)
      /\ Credit(f.outs) = CreditOf(item) + Credit(t.outs)
  BY <1>1, <1>3, TotalsTail
<1>5. /\ Payload(sent) = Payload(frames) + PayloadOf(item)
      /\ Credit(sent) = Credit(frames) + CreditOf(item)
  BY <1>1, TotalsAppend
<1>6. /\ Payload(frames) \in Nat /\ Credit(frames) \in Nat
      /\ Payload(t.outs) \in Nat /\ Credit(t.outs) \in Nat
      /\ Payload(s.outs) \in Nat /\ Credit(s.outs) \in Nat
      /\ PayloadOf(item) \in Nat /\ CreditOf(item) \in Nat
  BY <1>1, <1>3, TotalsType, OfType
<1> HIDE DEF sent
<1>7. t.send + Payload(t.outs) + Payload(sent)
        = s.send + Payload(s.outs) + Payload(frames)
  BY <1>1, <1>2, <1>3, <1>4, <1>5, <1>6
<1>8. Credit(t.outs) + Credit(sent) = Credit(s.outs) + Credit(frames)
  BY <1>2, <1>4, <1>5, <1>6
<1> QED BY <1>1, <1>2, <1>7, <1>8 DEF sent, t, item

\* What is in the window of the direction from head s to head t, with frames out
\* on their way and frames back on the way of the other direction.
Outgoing(s, out) == s.send + Payload(s.outs) + Payload(out)
Returning(t, back) == t.recv + Credit(t.outs) + Credit(back)
Balance(s, out, t, back) == Outgoing(s, out) + Returning(t, back)

WindowInv ==
    \A x \in Side :
        /\ OutboxBounded(Ghost(x).outbox)
        /\ Ghost(x).alive /\ Ghost(Peer(x)).alive =>
              Balance(Ghost(x), wire[x], Ghost(Peer(x)), wire[Peer(x)])
                = 2 * InitialWindow

LEMMA HeadTotals ==
  ASSUME NEW s \in HeadState
  PROVE  /\ s.send \in Nat /\ s.recv \in Nat
         /\ Payload(s.outs) \in Nat /\ Credit(s.outs) \in Nat
<1>1. s.send \in Nat /\ s.recv \in Nat /\ s.outs \in Seq(StreamEvent)
  BY DEF HeadState
<1> QED BY <1>1, TotalsType

LEMMA OutgoingMoves ==
  ASSUME NEW s, NEW out, NEW t, NEW rest, NEW n \in Nat,
         s.send \in Nat, Payload(s.outs) \in Nat, Payload(rest) \in Nat,
         t.send \in Nat, Payload(t.outs) \in Nat, Payload(out) \in Nat,
         t.send + Payload(t.outs) + Payload(out)
           = s.send + Payload(s.outs) + Payload(rest) + n
  PROVE  /\ Outgoing(t, out) = Outgoing(s, rest) + n
         /\ Outgoing(s, rest) \in Nat
  BY DEF Outgoing

LEMMA ReturningMoves ==
  ASSUME NEW s, NEW back, NEW t, NEW rest, NEW n \in Nat,
         s.recv \in Nat, Credit(s.outs) \in Nat, Credit(rest) \in Nat,
         t.recv \in Nat, Credit(t.outs) \in Nat, Credit(back) \in Nat,
         t.recv + Credit(t.outs) + Credit(back)
           = s.recv + Credit(s.outs) + Credit(rest) + n
  PROVE  /\ Returning(t, back) = Returning(s, rest) + n
         /\ Returning(s, rest) \in Nat
  BY DEF Returning

LEMMA BalanceNew ==
  ASSUME NEW remote \in BOOLEAN, NEW opening \in Flag,
         NEW premote \in BOOLEAN, NEW popening \in Flag
  PROVE  /\ OutboxBounded(NewHead(remote, opening).outbox)
         /\ Balance(NewHead(remote, opening), <<>>,
                    NewHead(premote, popening), <<>>) = 2 * InitialWindow
<1> DEFINE s == NewHead(remote, opening)
           t == NewHead(premote, popening)
<1>1. ASSUME NEW flag \in Flag
      PROVE  /\ Payload(<<WindowUpdate({flag}, InitialWindow)>>) = 0
             /\ Credit(<<WindowUpdate({flag}, InitialWindow)>>) = InitialWindow
  <2> DEFINE update == WindowUpdate({flag}, InitialWindow)
  <2>1. update \in StreamEvent /\ PayloadOf(update) = 0
        /\ CreditOf(update) = InitialWindow
    <3>1. PICK flags \in SUBSET Flag : flags = {flag}
      OBVIOUS
    <3> QED BY <3>1, WindowUpdateType, OfEvents, WindowAssumption
  <2> HIDE DEF update
  <2>2. Append(<<>>, update) = <<update>> /\ <<>> \in Seq(StreamEvent)
    OBVIOUS
  <2>3. Payload(<<update>>) = 0 + 0 /\ Credit(<<update>>) = 0 + InitialWindow
    BY <2>1, <2>2, TotalsAppend, TotalsEmpty
  <2> QED BY <2>3, WindowAssumption DEF update
<1>2. /\ s.send = InitialWindow /\ s.outbox = <<>> /\ t.recv = 0
      /\ s.outs = <<WindowUpdate({opening}, InitialWindow)>>
      /\ t.outs = <<WindowUpdate({popening}, InitialWindow)>>
  BY NewHeadEffect
<1>3. Payload(s.outs) = 0 /\ Credit(t.outs) = InitialWindow
  BY <1>1, <1>2
<1>4. OutboxBounded(<<>>)
  BY DEF OutboxBounded
<1> HIDE DEF s, t
<1>5. Balance(s, <<>>, t, <<>>) = 2 * InitialWindow
  BY <1>2, <1>3, TotalsEmpty, WindowAssumption DEF Balance, Outgoing, Returning
<1> QED BY <1>2, <1>4, <1>5 DEF s, t

\* A step of the session that takes a frame from t to s keeps both balances.
LEMMA BalanceTaken ==
  ASSUME NEW s \in HeadState, NEW t \in HeadState,
         NEW frames \in Seq(StreamEvent), frames # <<>>,
         NEW next \in Arrivals(frames), NEW wires \in Seq(StreamEvent),
         next.event \in StreamEvent, "RST" \notin EventFlags(next.event),
         next.rest \o Tail(frames) \in Seq(StreamEvent),
         ~InputError(s, next.event)
  PROVE  LET v == OnInput(s, next.event)
             left == next.rest \o Tail(frames)
         IN  /\ Balance(v, wires, t, left) = Balance(s, wires, t, frames)
             /\ Balance(t, left, v, wires) = Balance(t, frames, s, wires)
<1> DEFINE v == OnInput(s, next.event)
           left == next.rest \o Tail(frames)
           got == PayloadOf(next.event)
           credit == CreditOf(next.event)
<1>1. /\ Payload(frames) = got + Payload(left)
      /\ Credit(frames) = credit + Credit(left)
  BY TakenTotals
<1>2. /\ v.send = s.send + credit /\ Payload(v.outs) = Payload(s.outs)
      /\ v.recv + Credit(v.outs) = s.recv + Credit(s.outs) + got
  BY InputTotals
<1>3. v \in HeadState
  BY OnInputEffect
<1>4. got \in Nat /\ credit \in Nat /\ left \in Seq(StreamEvent)
  BY OfType
<1> HIDE DEF v, left, got, credit
<1>5. Payload(left) \in Nat /\ Credit(left) \in Nat
  BY <1>4, TotalsType
<1>6. Payload(wires) \in Nat /\ Credit(wires) \in Nat
  BY TotalsType
<1>7. v.send \in Nat /\ v.recv \in Nat /\ Payload(v.outs) \in Nat /\ Credit(v.outs) \in Nat
  BY <1>3, HeadTotals
<1>8. s.send \in Nat /\ s.recv \in Nat /\ Payload(s.outs) \in Nat /\ Credit(s.outs) \in Nat
  BY HeadTotals
<1>9. t.send \in Nat /\ t.recv \in Nat /\ Payload(t.outs) \in Nat /\ Credit(t.outs) \in Nat
  BY HeadTotals
<1>10. got \in Nat /\ credit \in Nat
  BY <1>4
<1>11. Payload(frames) \in Nat /\ Credit(frames) \in Nat
  BY TotalsType
<1>12. \A a, b, c, m \in Nat : /\ (a + m) + b + c = a + b + c + m
                             /\ a + b + (m + c) = a + b + c + m
                             /\ (a + b + m) + c = a + b + c + m
  OBVIOUS
<1>13. Outgoing(v, wires) = Outgoing(s, wires) + credit /\ Outgoing(s, wires) \in Nat
  <2>1. (s.send + credit) + Payload(s.outs) + Payload(wires)
          = s.send + Payload(s.outs) + Payload(wires) + credit
    BY <1>6, <1>8, <1>10, <1>12
  <2>2. v.send + Payload(v.outs) + Payload(wires)
          = s.send + Payload(s.outs) + Payload(wires) + credit
    BY <1>2, <2>1
  <2> QED BY <1>6, <1>7, <1>8, <1>10, <2>2, OutgoingMoves
<1>14. Returning(t, frames) = Returning(t, left) + credit /\ Returning(t, left) \in Nat
  <2>1. t.recv + Credit(t.outs) + (credit + Credit(left))
          = t.recv + Credit(t.outs) + Credit(left) + credit
    BY <1>5, <1>9, <1>10, <1>12
  <2>2. t.recv + Credit(t.outs) + Credit(frames)
          = t.recv + Credit(t.outs) + Credit(left) + credit
    BY <1>1, <2>1
  <2> QED BY <1>5, <1>9, <1>10, <1>11, <2>2, ReturningMoves
<1>15. Outgoing(t, frames) = Outgoing(t, left) + got /\ Outgoing(t, left) \in Nat
  <2>1. t.send + Payload(t.outs) + (got + Payload(left))
          = t.send + Payload(t.outs) + Payload(left) + got
    BY <1>5, <1>9, <1>10, <1>12
  <2>2. t.send + Payload(t.outs) + Payload(frames)
          = t.send + Payload(t.outs) + Payload(left) + got
    BY <1>1, <2>1
  <2> QED BY <1>5, <1>9, <1>10, <1>11, <2>2, OutgoingMoves
<1>16. Returning(v, wires) = Returning(s, wires) + got /\ Returning(s, wires) \in Nat
  <2>1. (s.recv + Credit(s.outs) + got) + Credit(wires)
          = s.recv + Credit(s.outs) + Credit(wires) + got
    BY <1>6, <1>8, <1>10, <1>12
  <2>2. v.recv + Credit(v.outs) + Credit(wires)
          = s.recv + Credit(s.outs) + Credit(wires) + got
    BY <1>2, <2>1
  <2> QED BY <1>6, <1>7, <1>8, <1>10, <2>2, ReturningMoves
<1>17. Balance(v, wires, t, left) = Balance(s, wires, t, frames)
  BY <1>4, <1>13, <1>14 DEF Balance
<1>18. Balance(t, left, v, wires) = Balance(t, frames, s, wires)
  BY <1>4, <1>15, <1>16 DEF Balance
<1> QED BY <1>17, <1>18 DEF v, left

\* So does one that polls head s.
LEMMA BalancePolled ==
  ASSUME NEW s \in HeadState, PollsItem(s), OutboxBounded(s.outbox),
         NEW t \in HeadState, NEW frames \in Seq(StreamEvent),
         NEW wires \in Seq(StreamEvent)
  PROVE  LET v == Polled(s)
             sent == Append(frames, PolledItem(s))
         IN  /\ OutboxBounded(v.outbox)
             /\ Balance(v, sent, t, wires) = Balance(s, frames, t, wires)
             /\ Balance(t, wires, v, sent) = Balance(t, wires, s, frames)
<1> DEFINE v == Polled(s)
           sent == Append(frames, PolledItem(s))
<1>1. /\ v.send + Payload(v.outs) + Payload(sent)
           = s.send + Payload(s.outs) + Payload(frames)
      /\ Credit(v.outs) + Credit(sent) = Credit(s.outs) + Credit(frames)
      /\ v.recv = s.recv /\ OutboxBounded(v.outbox)
  BY PolledTotals
<1>2. v \in HeadState /\ sent \in Seq(StreamEvent)
  <2>1. v \in HeadState /\ PolledItem(s) \in StreamEvent
    BY PolledEffect
  <2> QED BY <2>1, AppendType
<1> HIDE DEF v, sent
<1>3. /\ Payload(sent) \in Nat /\ Credit(sent) \in Nat
      /\ Payload(frames) \in Nat /\ Credit(frames) \in Nat
      /\ Payload(wires) \in Nat /\ Credit(wires) \in Nat
  BY <1>2, TotalsType
<1>4. /\ v.send \in Nat /\ v.recv \in Nat /\ Payload(v.outs) \in Nat
      /\ Credit(v.outs) \in Nat
      /\ s.send \in Nat /\ s.recv \in Nat /\ Payload(s.outs) \in Nat
      /\ Credit(s.outs) \in Nat
      /\ t.send \in Nat /\ t.recv \in Nat /\ Payload(t.outs) \in Nat
      /\ Credit(t.outs) \in Nat
  BY <1>2, HeadTotals
<1>5. Outgoing(v, sent) = Outgoing(s, frames)
  BY <1>1 DEF Outgoing
<1>6. Returning(v, sent) = Returning(s, frames)
  <2> DEFINE a == Credit(v.outs)
             b == Credit(sent)
             c == Credit(s.outs)
             d == Credit(frames)
             n == s.recv
  <2>1. /\ n \in Nat /\ a \in Nat /\ b \in Nat /\ c \in Nat /\ d \in Nat
        /\ a + b = c + d /\ v.recv = n
    BY <1>1, <1>3, <1>4
  <2>2. Returning(v, sent) = n + a + b /\ Returning(s, frames) = n + c + d
    BY <2>1 DEF Returning
  <2> HIDE DEF a, b, c, d, n
  <2>3. n + a + b = n + c + d
    BY <2>1
  <2> QED BY <2>2, <2>3
<1> QED BY <1>1, <1>5, <1>6 DEF v, sent, Balance

LEMMA InitWindow == Init => WindowInv
<1> SUFFICES ASSUME Init PROVE WindowInv
  OBVIOUS
<1>1. /\ Ghost("opener") = NewHead(FALSE, "SYN")
      /\ Ghost("acceptor") = NewHead(TRUE, "ACK")
  BY TwoSides DEF Init, Ghost, OpenStream, AcceptStream
<1>2. {"SYN", "ACK"} \subseteq Flag /\ FALSE \in BOOLEAN /\ TRUE \in BOOLEAN
  BY DEF Flag
<1>3. /\ OutboxBounded(Ghost("opener").outbox)
      /\ OutboxBounded(Ghost("acceptor").outbox)
      /\ Balance(Ghost("opener"), <<>>, Ghost("acceptor"), <<>>)
           = 2 * InitialWindow
      /\ Balance(Ghost("acceptor"), <<>>, Ghost("opener"), <<>>)
           = 2 * InitialWindow
  BY <1>1, <1>2, BalanceNew
<1>4. \A x \in Side : wire[x] = <<>>
  BY DEF Init
<1> QED BY <1>3, <1>4, TwoSides DEF WindowInv

LEMMA NextWindow ==
  TypeOK /\ AcceptInv /\ FlowInv /\ WindowInv /\ [Next]_vars => WindowInv'
<1> SUFFICES ASSUME TypeOK, AcceptInv, FlowInv, WindowInv, [Next]_vars
             PROVE  WindowInv'
  OBVIOUS
<1>0. ASSUME NEW x \in Side
      PROVE  /\ Peer(x) \in Side /\ Peer(x) # x /\ Peer(Peer(x)) = x
             /\ Ghost(x) \in HeadState /\ wire[x] \in Seq(StreamEvent)
             /\ read[x] \in Seq(Byte) /\ written[x] \in Nat
             /\ OutboxBounded(Ghost(x).outbox)
             /\ Ghost(x).alive /\ Ghost(Peer(x)).alive =>
                   Balance(Ghost(x), wire[x], Ghost(Peer(x)), wire[Peer(x)])
                     = 2 * InitialWindow
  BY Sides, GhostType DEF TypeOK, WindowInv
\* It is enough to look at an end, its peer and the balances of both directions.
<1>1. ASSUME NEW x \in Side,
             OutboxBounded(Ghost(x)'.outbox), OutboxBounded(Ghost(Peer(x))'.outbox),
             Ghost(x)'.alive /\ Ghost(Peer(x))'.alive =>
                /\ Balance(Ghost(x)', wire'[x], Ghost(Peer(x))', wire'[Peer(x)])
                     = 2 * InitialWindow
                /\ Balance(Ghost(Peer(x))', wire'[Peer(x)], Ghost(x)', wire'[x])
                     = 2 * InitialWindow
      PROVE  WindowInv'
  <2>1. \A z \in Side : z = x \/ z = Peer(x)
    BY Sides
  <2> QED BY <1>0, <1>1, <2>1 DEF WindowInv, Balance
<1>2. ASSUME NEW x \in Side, Receive(x) PROVE WindowInv'
  <2> DEFINE y == Peer(x)
             frames == wire[y]
             s == Ghost(x)
             t == Ghost(y)
  <2>1. /\ frames \in Seq(StreamEvent) /\ frames # <<>>
        /\ UNCHANGED <<written, read, eof, broken>>
    BY <1>2, GhostReceive
  <2>2. PICK next \in Arrivals(frames) :
           /\ next.event \in StreamEvent
           /\ "RST" \notin EventFlags(next.event)
           /\ next.rest \o Tail(frames) \in Seq(StreamEvent)
           /\ wire'[y] = next.rest \o Tail(frames) /\ wire'[x] = wire[x]
           /\ Ghost(y)' = Ghost(y)
           /\ Ghost(x)' = IF Ghost(x).alive
                          THEN OnInput(Ghost(x), next.event) ELSE Ghost(x)
    BY <1>2, GhostReceive
  <2>3. /\ y \in Side /\ s \in HeadState /\ t \in HeadState
        /\ wire[x] \in Seq(StreamEvent)
        /\ OutboxBounded(s.outbox) /\ OutboxBounded(t.outbox)
        /\ s.alive /\ t.alive =>
              /\ Balance(s, wire[x], t, frames) = 2 * InitialWindow
              /\ Balance(t, frames, s, wire[x]) = 2 * InitialWindow
        /\ Direction(written[y], frames, t, s, read[x], eof[x], broken[x])
    BY <1>0 DEF FlowInv
  <2>4. Ghost(x)' = IF s.alive THEN OnInput(s, next.event) ELSE s
    BY <2>2
  <2>5. OutboxBounded(Ghost(x)'.outbox) /\ Ghost(y)' = t
    <3>1. OnInput(s, next.event).outbox = s.outbox
      BY <2>2, <2>3, OnInputEffect DEF SameOutbox
    <3> QED BY <2>2, <2>3, <2>4, <3>1
  <2>6. CASE s.alive
    <3>1. ~InputError(s, next.event)
      <4>1. written[y] \in Nat /\ read[x] \in Seq(Byte)
        BY <1>0, <2>3
      <4> HIDE DEF s, t, y, frames
      <4> QED BY <2>1, <2>2, <2>3, <2>6, <4>1, DirectionTaken
    <3> HIDE DEF s, t, y, frames
    <3>2. /\ Balance(OnInput(s, next.event), wire[x], t, next.rest \o Tail(frames))
               = Balance(s, wire[x], t, frames)
          /\ Balance(t, next.rest \o Tail(frames), OnInput(s, next.event), wire[x])
               = Balance(t, frames, s, wire[x])
      BY <2>1, <2>2, <2>3, <3>1, BalanceTaken
    <3>3. Ghost(x)'.alive /\ t.alive =>
            /\ Balance(Ghost(x)', wire'[x], Ghost(y)', wire'[y]) = 2 * InitialWindow
            /\ Balance(Ghost(y)', wire'[y], Ghost(x)', wire'[x]) = 2 * InitialWindow
      BY <2>2, <2>3, <2>4, <2>5, <2>6, <3>2
    <3> QED BY <1>1, <2>3, <2>5, <3>3 DEF y
  <2>7. CASE ~s.alive
    <3> HIDE DEF s, t
    <3> QED BY <1>1, <2>3, <2>4, <2>5, <2>7
  <2> QED BY <2>6, <2>7
\* The other steps are of one end, x, and its head u becomes v.
<1>3. ASSUME NEW x \in Side,
             \/ PollItem(x) \/ PollNone(x) \/ EndSession(x) \/ Write(x)
             \/ Close(x) \/ Drop(x) \/ Read(x)
      PROVE  WindowInv'
  <2> DEFINE y == Peer(x)
             u == end[x]
             v == end'[x]
  <2>1. \/ /\ Ghost(x) = u /\ Ghost(x)' = v /\ Ghost(y)' = Ghost(y)
        \/ /\ wire' = wire /\ \A z \in Side : Ghost(z)' = Ghost(z)
    BY <1>3, GhostLocal
  <2>2. CASE wire' = wire /\ \A z \in Side : Ghost(z)' = Ghost(z)
    BY <1>0, <1>1, <2>2
  <2>3. CASE Ghost(x) = u /\ Ghost(x)' = v /\ Ghost(y)' = Ghost(y)
    <3> DEFINE t == Ghost(y)
    <3>1. /\ y \in Side /\ y # x /\ u \in HeadState /\ t \in HeadState
          /\ wire[x] \in Seq(StreamEvent) /\ wire[y] \in Seq(StreamEvent)
          /\ OutboxBounded(u.outbox) /\ OutboxBounded(t.outbox)
          /\ u.alive /\ t.alive =>
                /\ Balance(u, wire[x], t, wire[y]) = 2 * InitialWindow
                /\ Balance(t, wire[y], u, wire[x]) = 2 * InitialWindow
      BY <1>0, <2>3
    \* It is enough to look at the two balances with x's new head.
    <3>2. ASSUME OutboxBounded(v.outbox),
                 v.alive /\ t.alive =>
                    /\ Balance(v, wire'[x], t, wire'[y]) = 2 * InitialWindow
                    /\ Balance(t, wire'[y], v, wire'[x]) = 2 * InitialWindow
          PROVE  WindowInv'
      BY <1>1, <2>3, <3>1, <3>2
    <3> HIDE DEF y, t
    <3>3. CASE PollItem(x)
      <4>1. /\ u.alive /\ PollsItem(u) /\ v = Polled(u)
            /\ wire'[x] = Append(wire[x], PolledItem(u)) /\ wire'[y] = wire[y]
        BY <3>1, <3>3 DEF PollItem, TypeOK
      <4> HIDE DEF u, v
      <4>2. /\ OutboxBounded(v.outbox)
            /\ Balance(v, wire'[x], t, wire[y]) = Balance(u, wire[x], t, wire[y])
            /\ Balance(t, wire[y], v, wire'[x]) = Balance(t, wire[y], u, wire[x])
        BY <3>1, <4>1, BalancePolled
      <4> QED BY <3>1, <3>2, <4>1, <4>2
    <3>4. CASE PollNone(x) \/ EndSession(x)
      <4>1. v = RemoveHead(u)
        BY <3>4 DEF PollNone, EndSession, TypeOK
      <4>2. ~v.alive /\ v.outbox = <<>>
        BY <3>1, <4>1, RemoveHeadEffect
      <4>3. OutboxBounded(<<>>)
        BY DEF OutboxBounded
      <4> HIDE DEF u, v
      <4> QED BY <3>2, <4>2, <4>3
    \* What the application does leaves the head's windows and queue alone.
    <3>5. ASSUME OutboxBounded(v.outbox), HeadKept(u, v), wire' = wire
          PROVE  WindowInv'
      <4> HIDE DEF u, v
      <4>1. /\ v.send = u.send /\ v.recv = u.recv /\ v.outs = u.outs
            /\ v.alive = u.alive
        BY <3>5 DEF HeadKept, SameWindow
      <4>2. /\ Balance(v, wire[x], t, wire[y]) = Balance(u, wire[x], t, wire[y])
            /\ Balance(t, wire[y], v, wire[x]) = Balance(t, wire[y], u, wire[x])
        BY <4>1 DEF Balance, Outgoing, Returning
      <4> QED BY <3>1, <3>2, <3>5, <4>1, <4>2
    <3>6. CASE Write(x)
      <4>1. PICK chunk \in Chunk, w \in HeadState :
               /\ Len(chunk) <= ChunkCapacity
               /\ end' = [end EXCEPT ![x] = w]
               /\ w.outbox = Append(u.outbox, chunk) /\ HeadKept(u, w)
               /\ wire' = wire
        BY <3>6, WriteEffect
      <4>2. v = w
        BY <4>1 DEF TypeOK
      <4>3. u.outbox \in Seq(Chunk)
        BY <3>1 DEF HeadState
      <4> HIDE DEF u, v
      <4>4. OutboxBounded(v.outbox)
        BY <3>1, <4>1, <4>2, <4>3, BoundedAppend
      <4> QED BY <3>5, <4>1, <4>2, <4>4
    <3>7. CASE Close(x) \/ Drop(x)
      <4>1. wire' = wire /\ (v = PollClose(u) \/ v = DropHandle(u))
        BY <3>7 DEF Close, Drop, TypeOK
      <4>2. v.outbox = u.outbox /\ HeadKept(u, v)
        BY <3>1, <4>1, PollCloseEffect, DropHandleEffect
      <4> QED BY <3>1, <3>5, <4>1, <4>2
    <3>8. CASE Read(x)
      <4>1. PICK w \in HeadState :
               /\ SameOutbox(u, w) /\ HeadKept(u, w)
               /\ end' = [end EXCEPT ![x] = w] /\ wire' = wire
        BY <3>8, ReadEffect
      <4>2. v = w /\ v.outbox = u.outbox
        BY <4>1 DEF TypeOK, SameOutbox
      <4> QED BY <3>1, <3>5, <4>1, <4>2
    <3> QED BY <1>3, <3>3, <3>4, <3>6, <3>7, <3>8
  <2> QED BY <2>1, <2>2, <2>3
<1>4. CASE Unmoved
  <2>1. \A x \in Side : Ghost(x)' = Ghost(x) /\ wire'[x] = wire[x]
    BY <1>4 DEF Unmoved, Ghost
  <2> QED BY <2>1, Sides DEF WindowInv
<1> QED BY <1>2, <1>3, <1>4, FlushUnmoved DEF Next

\* The window of a direction is conserved: no byte of credit is lost or granted
\* twice by poll_next, on_input, the batching of credit or a payload
\* that arrives in parts.
THEOREM WindowCorrect == Spec => []WindowConserved
<1>1. TypeOK /\ AcceptInv /\ WindowInv => WindowConserved
  <2> SUFFICES ASSUME TypeOK, AcceptInv, WindowInv, NEW x \in Side,
                      end[x].alive, end[Peer(x)].alive
               PROVE  end[x].send + Payload(end[x].outs) + Payload(wire[x])
                      + end[Peer(x)].recv + Credit(end[Peer(x)].outs)
                      + Credit(wire[Peer(x)]) = 2 * InitialWindow
    BY DEF WindowConserved
  <2> DEFINE s == end[x]
             t == end[Peer(x)]
             out == Payload(wire[x])
             back == Credit(wire[Peer(x)])
  <2>1. \A z \in Side : end[z].alive => Ghost(z) = end[z]
    BY NewEnds DEF Ghost, AcceptInv
  <2>2. Ghost(x) = s /\ Ghost(Peer(x)) = t
    BY <2>1, Sides
  <2>3. Balance(s, wire[x], t, wire[Peer(x)]) = 2 * InitialWindow
    BY <2>2 DEF WindowInv
  <2>4. s \in HeadState /\ t \in HeadState /\ out \in Nat /\ back \in Nat
    BY Sides, TotalsType DEF TypeOK
  <2> HIDE DEF s, t
  <2>5. /\ s.send \in Nat /\ Payload(s.outs) \in Nat
        /\ t.recv \in Nat /\ Credit(t.outs) \in Nat
    BY <2>4, HeadTotals
  <2>6. (s.send + Payload(s.outs) + out) + (t.recv + Credit(t.outs) + back)
          = 2 * InitialWindow
    BY <2>3 DEF Balance, Outgoing, Returning
  <2> HIDE DEF out, back
  <2>7. s.send + Payload(s.outs) + out + t.recv + Credit(t.outs) + back
          = 2 * InitialWindow
    BY <2>4, <2>5, <2>6
  <2> QED BY <2>7 DEF s, t, out, back
<1> QED BY <1>1, InvInductive, InitWindow, NextWindow, PTL DEF Spec

-----------------------------------------------------------------------------
\* The life of a direction as its receiver's head hears it: nothing yet, then
\* the ACK that opens it, then the FIN that closes it.  The acceptor's head is
\* open from the start.
Phase == {"before", "open", "closed"}

LifeStep(p, event, q) ==
    LET acks == "ACK" \in EventFlags(event)
    IN  \/ p = "before" /\ q = "open" /\ acks /\ ~HasFin(event)
        \/ p = "open" /\ q = "closed" /\ ~acks /\ HasFin(event)
        \/ p # "before" /\ q = p /\ ~acks /\ ~HasFin(event)
LifeSteps == {r \in Phase \X StreamEvent \X Phase : LifeStep(r[1], r[2], r[3])}

\* Where the frames of a sender lead, and what a receiver in phase b has seen.
Sending(s) == IF s.local THEN "open" ELSE "closed"
Silent(t) == t.local /\ t.txOpen /\ t.inbox = <<>> /\ t.reading = <<>>
Hears(t, b, got, ended, opener) ==
    /\ IF t.alive THEN t.remote <=> b = "open" ELSE b = "closed"
    /\ b = "closed" /\ t.rxOpen => ended \/ HasEnd(t.inbox)
    /\ b = "before" => opener /\ got = <<>> /\ ~ended /\ Silent(t)
Life(frames, s, t, got, ended, opener) ==
    \E b, m \in Phase :
        /\ Path(frames, LifeSteps, b, m)
        /\ IF s.alive THEN Path(s.outs, LifeSteps, m, Sending(s)) ELSE m = "closed"
        /\ Hears(t, b, got, ended, opener)

LEMMA LifeIff ==
  \A p, event, q :
     <<p, event, q>> \in LifeSteps
     <=> p \in Phase /\ event \in StreamEvent /\ q \in Phase /\ LifeStep(p, event, q)
  BY DEF LifeSteps

\* The frames that a head sends.
LEMMA LifeSent ==
  ASSUME NEW p \in Phase, p # "before"
  PROVE  /\ p = "open" => <<p, Fin, "closed">> \in LifeSteps
         /\ \A event \in StreamEvent :
               EventFlags(event) = {} => <<p, event, p>> \in LifeSteps
         /\ \A chunk \in Chunk :
               /\ <<p, Data({}, Len(chunk)), p>> \in LifeSteps
               /\ <<p, DataChunk(chunk), p>> \in LifeSteps
<1>1. p = "open" => <<p, Fin, "closed">> \in LifeSteps
  BY FinType, LifeIff DEF LifeStep, HasFin, EventFlags, Phase
<1>2. ASSUME NEW event \in StreamEvent, EventFlags(event) = {}
      PROVE  <<p, event, p>> \in LifeSteps
  BY <1>2, LifeIff DEF LifeStep, HasFin
<1>3. ASSUME NEW chunk \in Chunk
      PROVE  /\ <<p, Data({}, Len(chunk)), p>> \in LifeSteps
             /\ <<p, DataChunk(chunk), p>> \in LifeSteps
  <2>1. PICK flags \in SUBSET Flag, size \in Nat :
           flags = {} /\ size = Len(chunk)
    <3>1. {} \in SUBSET Flag /\ Len(chunk) \in Nat
      BY DEF Chunk
    <3> QED BY <3>1
  <2>2. Data(flags, size) \in StreamEvent /\ EventFlags(Data(flags, size)) = {}
    BY <2>1, DataType DEF EventFlags
  <2>3. DataChunk(chunk) \in StreamEvent /\ EventFlags(DataChunk(chunk)) = {}
    BY DataChunkType DEF EventFlags
  <2> QED BY <1>2, <2>1, <2>2, <2>3
<1> QED BY <1>1, <1>2, <1>3

\* Steps that send and hear nothing.
LEMMA LifeKept ==
  ASSUME NEW frames, NEW s, NEW t, NEW u, NEW v,
         NEW got, NEW ended, NEW opener,
         Life(frames, s, t, got, ended, opener),
         u.alive = s.alive, u.outs = s.outs, u.local <=> s.local,
         v.alive = t.alive, v.remote <=> t.remote,
         v.rxOpen => t.rxOpen /\ v.inbox = t.inbox,
         opener /\ got = <<>> /\ ~ended /\ Silent(t) => Silent(v)
  PROVE  Life(frames, u, v, got, ended, opener)
<1>1. PICK b \in Phase, m \in Phase :
         /\ Path(frames, LifeSteps, b, m)
         /\ IF s.alive THEN Path(s.outs, LifeSteps, m, Sending(s)) ELSE m = "closed"
         /\ Hears(t, b, got, ended, opener)
  BY DEF Life
<1>2. Hears(v, b, got, ended, opener)
  BY <1>1 DEF Hears
<1>3. IF u.alive THEN Path(u.outs, LifeSteps, m, Sending(u)) ELSE m = "closed"
  BY <1>1 DEF Sending
<1> QED BY <1>1, <1>2, <1>3 DEF Life

\* A turn of the sender's loop.
LEMMA LifeTurn ==
  ASSUME NEW m, NEW s \in HeadState, NEW t \in HeadState, Turn(s, t),
         Path(s.outs, LifeSteps, m, Sending(s))
  PROVE  Path(t.outs, LifeSteps, m, Sending(t))
<1> DEFINE R == LifeSteps
           p == Sending(s)
<1>1. /\ s.outs \in Seq(StreamEvent) /\ Fin \in StreamEvent
      /\ p \in Phase /\ p # "before" /\ Path(s.outs, R, m, p)
  BY FinType DEF HeadState, Sending, Phase
<1>2. CASE t.outs = s.outs /\ (t.local <=> s.local)
  BY <1>1, <1>2 DEF Sending
<1>3. CASE Ending(s, t)
  <2>1. CASE s.local
    <3>1. p = "open" /\ Sending(t) = "closed" /\ t.outs = Append(s.outs, Fin)
      BY <1>3, <2>1 DEF Ending, Sending
    <3>2. <<p, Fin, "closed">> \in R
      BY <1>1, <3>1, LifeSent
    <3> HIDE DEF R, p
    <3>3. Path(Append(s.outs, Fin), R, m, "closed")
      BY <1>1, <3>2, PathAppend
    <3> QED BY <3>1, <3>3 DEF R
  <2>2. CASE ~s.local
    BY <1>1, <1>3, <2>2 DEF Ending, Sending
  <2> QED BY <2>1, <2>2
<1>4. CASE s.outbox # <<>> /\ Moving(s, t)
  <2> DEFINE chunk == Head(s.outbox)
             header == Data({}, Len(chunk))
             payload == DataChunk(chunk)
  <2>1. /\ chunk \in Chunk /\ t.outs = s.outs \o <<header, payload>>
        /\ Sending(t) = p
    BY <1>4 DEF HeadState, Moving, Sending
  <2> HIDE DEF chunk
  <2>2. <<p, header, p>> \in R /\ <<p, payload, p>> \in R
    BY <1>1, <2>1, LifeSent
  <2>3. header \in StreamEvent /\ payload \in StreamEvent
    BY <2>2, LifeIff
  <2> HIDE DEF header, payload, R, p
  <2>4. t.outs = Append(Append(s.outs, header), payload)
    BY <1>1, <2>1, <2>3
  <2>5. Path(Append(s.outs, header), R, m, p)
    BY <1>1, <2>2, <2>3, PathAppend
  <2>6. Append(s.outs, header) \in Seq(StreamEvent)
    BY <1>1, <2>3
  <2>7. Path(Append(Append(s.outs, header), payload), R, m, p)
    BY <2>2, <2>3, <2>5, <2>6, PathAppend
  <2> QED BY <2>1, <2>4, <2>7 DEF R
<1> QED BY <1>2, <1>3, <1>4 DEF Turn

\* The session moves the next frame of the sender to the wire.
LEMMA LifePolled ==
  ASSUME NEW frames \in Seq(StreamEvent), NEW s \in HeadState, NEW t,
         NEW got, NEW ended, NEW opener,
         Life(frames, s, t, got, ended, opener), s.alive, PollsItem(s)
  PROVE  Life(Append(frames, PolledItem(s)), Polled(s), t, got, ended, opener)
<1> DEFINE R == LifeSteps
           f == Filled(s)
           u == Polled(s)
           item == PolledItem(s)
<1>1. PICK b \in Phase, m \in Phase :
         /\ Path(frames, R, b, m)
         /\ Path(s.outs, R, m, Sending(s))
         /\ Hears(t, b, got, ended, opener)
  BY DEF Life
<1>2. Path(f.outs, R, m, Sending(f))
  <2>1. PICK one, two \in HeadState :
           Turn(s, one) /\ Turn(one, two) /\ Turn(two, f)
    BY FilledTurns
  <2>2. f \in HeadState
    BY FilledEffect
  <2> HIDE DEF f
  <2>3. Path(one.outs, R, m, Sending(one))
    BY <1>1, <2>1, LifeTurn
  <2>4. Path(two.outs, R, m, Sending(two))
    BY <2>1, <2>3, LifeTurn
  <2> QED BY <2>1, <2>2, <2>4, LifeTurn
<1>3. /\ f \in HeadState /\ f.outs # <<>> /\ u.outs = Tail(f.outs)
      /\ item = Head(f.outs) /\ item \in StreamEvent
      /\ Sending(u) = Sending(f) /\ u.alive
  BY FilledEffect, PolledEffect DEF SameState, Sending, Kept
<1> HIDE DEF f, u, item
<1>4. PICK k : <<m, item, k>> \in R /\ Path(u.outs, R, k, Sending(f))
  <2>1. f.outs \in Seq(StreamEvent)
    BY <1>3 DEF HeadState
  <2> HIDE DEF R
  <2> QED BY <1>2, <1>3, <2>1, PathTail
<1>5. k \in Phase
  BY <1>4, LifeIff
<1> HIDE DEF R
<1>6. Path(Append(frames, item), R, b, k)
  BY <1>1, <1>3, <1>4, PathAppend
<1> QED BY <1>1, <1>3, <1>4, <1>5, <1>6 DEF Life, R, u, item

\* The sender hears a frame: it may have to return credit.
LEMMA LifeHeard ==
  ASSUME NEW frames, NEW s \in HeadState, NEW t,
         NEW got, NEW ended, NEW opener,
         Life(frames, s, t, got, ended, opener),
         NEW event \in StreamEvent, "RST" \notin EventFlags(event)
  PROVE  Life(frames, OnInput(s, event), t, got, ended, opener)
<1> DEFINE R == LifeSteps
           u == OnInput(s, event)
           p == Sending(s)
<1>1. PICK b \in Phase, m \in Phase :
         /\ Path(frames, R, b, m)
         /\ IF s.alive THEN Path(s.outs, R, m, p) ELSE m = "closed"
         /\ Hears(t, b, got, ended, opener)
  BY DEF Life
<1>2. u.alive = s.alive
  BY OnInputEffect
<1>3. /\ u.local <=> s.local
      /\ \/ u.outs = s.outs
         \/ \E update \in StreamEvent :
               /\ update.kind = "WindowUpdate" /\ EventFlags(update) = {}
               /\ u.outs = Append(s.outs, update)
  BY QuietInput
<1> HIDE DEF u
<1>4. Sending(u) = p /\ p \in Phase /\ p # "before" /\ s.outs \in Seq(StreamEvent)
  BY <1>3 DEF Sending, Phase, HeadState
<1>5. ASSUME s.alive PROVE Path(u.outs, R, m, p)
  <2>1. CASE u.outs = s.outs
    BY <1>1, <1>5, <2>1
  <2>2. CASE u.outs # s.outs
    <3>1. PICK update \in StreamEvent :
             EventFlags(update) = {} /\ u.outs = Append(s.outs, update)
      BY <1>3, <2>2
    <3>2. <<p, update, p>> \in R
      BY <1>4, <3>1, LifeSent
    <3> HIDE DEF R, p
    <3> QED BY <1>1, <1>4, <1>5, <3>1, <3>2, PathAppend
  <2> QED BY <2>1, <2>2
<1> QED BY <1>1, <1>2, <1>4, <1>5 DEF Life, u

\* FrameReader takes the first step of the path; a part of a payload leaves the
\* phase as it is.
LEMMA LifeStepTaken ==
  ASSUME NEW frames \in Seq(StreamEvent), frames # <<>>,
         NEW next \in Arrivals(frames), next.event \in StreamEvent, NEW b, NEW m,
         Path(frames, LifeSteps, b, m)
  PROVE  \E k \in Phase : /\ <<b, next.event, k>> \in LifeSteps
                          /\ Path(next.rest \o Tail(frames), LifeSteps, k, m)
<1> DEFINE R == LifeSteps
           first == Head(frames)
           tail == Tail(frames)
<1>1. PICK k : <<b, first, k>> \in R /\ Path(tail, R, k, m)
  <2>1. Path(frames, R, b, m)
    OBVIOUS
  <2> HIDE DEF R
  <2> QED BY <2>1, PathTail
<1>2. /\ b \in Phase /\ k \in Phase /\ first \in StreamEvent
      /\ LifeStep(b, first, k) /\ tail \in Seq(StreamEvent)
  BY <1>1, LifeIff, HeadTailType
<1>3. CASE next.event = first /\ next.rest = <<>>
  <2>1. next.rest \o tail = tail
    BY <1>2, <1>3
  <2> QED BY <1>1, <1>2, <1>3, <2>1
<1>4. CASE ~(next.event = first /\ next.rest = <<>>)
  <2>1. PICK n \in 1..Len(first.chunk) - 1 :
           /\ first.kind = "DataChunk" /\ first.chunk \in Chunk
           /\ next.event = DataChunk(SubSeq(first.chunk, 1, n))
           /\ next.rest = <<DataChunk(SubSeq(first.chunk, n + 1,
                                             Len(first.chunk)))>>
    BY <1>4, ArrivalsEffect
  <2> DEFINE two == SubSeq(first.chunk, n + 1, Len(first.chunk))
             payload == DataChunk(two)
  <2>2. two \in Chunk
    <3>1. Len(first.chunk) \in Nat /\ n \in Nat
      BY <2>1 DEF Chunk
    <3> QED BY <2>1, <3>1, PartType DEF Chunk
  <2>3. next.rest = <<payload>>
    BY <2>1
  <2> HIDE DEF two
  <2>4. payload \in StreamEvent /\ EventFlags(payload) = {}
    BY <2>2, DataChunkType DEF EventFlags
  <2>5. EventFlags(first) = {} /\ EventFlags(next.event) = {}
    BY <2>1 DEF EventFlags, DataChunk
  <2>6. k = b /\ b # "before"
    BY <1>2, <2>5 DEF LifeStep, HasFin
  <2>7. <<b, next.event, b>> \in R /\ <<b, payload, b>> \in R
    BY <1>2, <2>4, <2>5, <2>6, LifeSent
  <2> HIDE DEF payload, tail, R
  <2>8. Path(<<payload>> \o tail, R, b, m)
    BY <1>1, <1>2, <2>4, <2>6, <2>7, PathCons
  <2> QED BY <1>2, <2>3, <2>7, <2>8 DEF R, tail
<1> QED BY <1>3, <1>4

\* The receiver's session takes a frame, or a part of one: the receiver's state
\* follows the phase, and it queues the end of stream marker with the FIN.
LEMMA LifeTaken ==
  ASSUME NEW frames \in Seq(StreamEvent), frames # <<>>,
         NEW next \in Arrivals(frames), next.event \in StreamEvent,
         "RST" \notin EventFlags(next.event),
         NEW s, NEW t \in HeadState, NEW got, NEW ended, NEW opener,
         Life(frames, s, t, got, ended, opener),
         t.rxOpen => t.tx, t.alive => ~InputError(t, next.event)
  PROVE  Life(next.rest \o Tail(frames), s,
              IF t.alive THEN OnInput(t, next.event) ELSE t, got, ended, opener)
<1> DEFINE event == next.event
           left == next.rest \o Tail(frames)
           v == OnInput(t, event)
           w == IF t.alive THEN v ELSE t
<1>1. PICK b \in Phase, m \in Phase :
         /\ Path(frames, LifeSteps, b, m)
         /\ IF s.alive THEN Path(s.outs, LifeSteps, m, Sending(s)) ELSE m = "closed"
         /\ Hears(t, b, got, ended, opener)
  BY DEF Life
<1>2. PICK k \in Phase :
         <<b, event, k>> \in LifeSteps /\ Path(left, LifeSteps, k, m)
  BY <1>1, LifeStepTaken
<1>3. LifeStep(b, event, k) /\ k # "before" /\ event \in StreamEvent
  BY <1>2, LifeIff DEF LifeStep
<1> HIDE DEF left
<1>4. CASE ~t.alive
  <2>1. b = "closed" /\ k = "closed"
    BY <1>1, <1>3, <1>4 DEF Hears, LifeStep
  <2> QED BY <1>1, <1>2, <1>4, <2>1 DEF Life, left
<1>5. CASE t.alive
  <2>1. /\ v \in HeadState /\ v.alive /\ v.rxOpen = t.rxOpen
        /\ v.remote <=> ((t.remote \/ "ACK" \in EventFlags(event))
                          /\ ~HasFin(event))
        /\ t.tx /\ t.rxOpen =>
              v.inbox = IF event.kind = "DataChunk"
                        THEN Append(t.inbox, event.chunk)
                        ELSE IF EndsRemote(t, event)
                             THEN Append(t.inbox, <<>>) ELSE t.inbox
    <3>1. "RST" \notin EventFlags(event) /\ ~InputError(t, event)
      BY <1>5
    <3> HIDE DEF event
    <3> QED BY <1>3, <1>5, <3>1, InputEffect DEF SameReader
  <2> HIDE DEF v, event
  <2>2. t.remote <=> b = "open"
    BY <1>1, <1>5 DEF Hears
  <2>3. v.remote <=> k = "open"
    BY <1>3, <2>1, <2>2 DEF LifeStep, Phase
  <2>4. ASSUME k = "closed", v.rxOpen PROVE ended \/ HasEnd(v.inbox)
    <3>1. /\ t.inbox \in Seq(Chunk) /\ <<>> \in Chunk
          /\ event.kind = "DataChunk" => event.chunk \in Chunk
      BY <1>3, EmptyChunk, EventType DEF HeadState
    <3>2. /\ HasEnd(t.inbox) => HasEnd(v.inbox)
          /\ EndsRemote(t, event) => HasEnd(v.inbox)
      <4>1. EndsRemote(t, event) => event.kind # "DataChunk"
        BY DEF EndsRemote, HasFin, EventFlags
      <4> QED BY <2>1, <2>4, <3>1, <4>1, EndAppend
    <3>3. CASE b = "closed"
      BY <1>1, <2>1, <2>4, <3>2, <3>3 DEF Hears
    <3>4. CASE b # "closed"
      <4>1. b = "open" /\ HasFin(event)
        BY <1>3, <2>4, <3>4 DEF LifeStep
      <4> QED BY <2>2, <3>2, <4>1 DEF EndsRemote
    <3> QED BY <3>3, <3>4
  <2>5. Hears(v, k, got, ended, opener)
    BY <1>3, <2>1, <2>3, <2>4 DEF Hears
  <2> QED BY <1>1, <1>2, <1>5, <2>5 DEF Life, v, event, left
<1> QED BY <1>4, <1>5

\* The reader takes from the chunk it has loaded, and finds the marker.
LEMMA LifeRead ==
  ASSUME NEW frames, NEW s, NEW t \in HeadState, NEW v \in HeadState,
         NEW got, NEW ended, NEW opener,
         Life(frames, s, t, got, ended, opener), t.rxOpen,
         NEW bytes, NEW n, Serves(t, v, bytes, n),
         v.remote <=> t.remote, v.local <=> t.local, v.txOpen = t.txOpen,
         NEW more, n = 0 => more = got
  PROVE  Life(frames, s, v, more, ended \/ ReadsEof(t), opener)
<1>1. PICK b \in Phase, m \in Phase :
         /\ Path(frames, LifeSteps, b, m)
         /\ IF s.alive THEN Path(s.outs, LifeSteps, m, Sending(s)) ELSE m = "closed"
         /\ Hears(t, b, got, ended, opener)
  BY DEF Life
<1>2. /\ t.inbox \in Seq(Chunk) /\ t.reading \in Chunk
      /\ v.alive = t.alive /\ v.inbox = Loaded(t).inbox /\ v.rxOpen = t.rxOpen
      /\ n \in 0..Len(Loaded(t).reading)
      /\ Len(v.reading) = Len(Loaded(t).reading) - n /\ v.reading \in Chunk
      /\ IF t.reading # <<>> \/ t.inbox = <<>>
         THEN Loaded(t).reading = t.reading /\ Loaded(t).inbox = t.inbox
         ELSE /\ Loaded(t).reading = Head(t.inbox)
              /\ Loaded(t).inbox = Tail(t.inbox)
  BY LoadedEffect DEF Serves, HeadState
<1>3. ASSUME HasEnd(t.inbox) PROVE ReadsEof(t) \/ HasEnd(v.inbox)
  BY <1>2, <1>3, EndTail DEF ReadsEof
<1>4. ASSUME Silent(t)
      PROVE  Silent(v) /\ n = 0 /\ ~ReadsEof(t)
  <2>1. Loaded(t).reading = <<>> /\ v.inbox = <<>> /\ ~ReadsEof(t)
    BY <1>2, <1>4 DEF Silent, ReadsEof
  <2>2. Len(<<>>) = 0 /\ n = 0
    BY <1>2, <2>1
  <2>3. Len(v.reading) = 0
    BY <1>2, <2>1, <2>2
  <2>4. v.reading = <<>>
    BY <1>2, <2>3 DEF Chunk
  <2> QED BY <1>4, <2>1, <2>2, <2>4 DEF Silent
<1>5. Hears(v, b, more, ended \/ ReadsEof(t), opener)
  BY <1>1, <1>2, <1>3, <1>4 DEF Hears
<1> QED BY <1>1, <1>5 DEF Life

\* A head that the session removes has sent its end and heard its peer's.
LEMMA LifeRemoved ==
  ASSUME NEW frames, NEW s, NEW t, NEW u, NEW v,
         NEW got, NEW ended, NEW opener,
         Life(frames, s, t, got, ended, opener),
         \/ u.alive = s.alive /\ u.outs = s.outs /\ (u.local <=> s.local)
         \/ s.alive /\ ~s.local /\ s.outs = <<>> /\ ~u.alive,
         \/ v = t
         \/ /\ t.alive /\ ~t.local /\ ~t.remote /\ ~v.alive
            /\ v.rxOpen = t.rxOpen /\ v.inbox = t.inbox
  PROVE  Life(frames, u, v, got, ended, opener)
<1>1. PICK b \in Phase, m \in Phase :
         /\ Path(frames, LifeSteps, b, m)
         /\ IF s.alive THEN Path(s.outs, LifeSteps, m, Sending(s)) ELSE m = "closed"
         /\ Hears(t, b, got, ended, opener)
  BY DEF Life
<1>2. IF u.alive THEN Path(u.outs, LifeSteps, m, Sending(u)) ELSE m = "closed"
  BY <1>1, PathEmpty DEF Sending
<1>3. Hears(v, b, got, ended, opener)
  BY <1>1 DEF Hears, Silent, Phase
<1> QED BY <1>1, <1>2, <1>3 DEF Life

-----------------------------------------------------------------------------
\* No empty chunk waits in an outbox: poll_write never sends one.
LEMMA DirectionNoEmpty ==
  ASSUME NEW top, NEW frames, NEW s, NEW t, NEW got, NEW ended, NEW broke,
         top \in Nat, Direction(top, frames, s, t, got, ended, broke), s.alive
  PROVE  NoEmpty(s.outbox)
<1>1. PICK m : Sends(s, top, EndsOf(s, top), m)
  BY DEF Direction, Flow
<1>2. PICK n : Path(s.outbox, ChunkSteps(top, {}), n, top)
  BY <1>1 DEF Sends
<1>3. PICK st : \A k \in 1..Len(s.outbox) :
                   <<st[k - 1], s.outbox[k], st[k]>> \in ChunkSteps(top, {})
  BY <1>2 DEF Path
<1>4. \A from, chunk, to : <<from, chunk, to>> \in ChunkSteps(top, {})
                              => chunk # <<>>
  BY StepsIff DEF ChunkStep
<1> QED BY <1>3, <1>4 DEF NoEmpty

\* The loop ends the local half only for a handle that has closed.
LEMMA FilledLocal ==
  ASSUME NEW s \in HeadState, NoEmpty(s.outbox), s.txOpen
  PROVE  Filled(s).local <=> s.local
<1>1. ASSUME NEW t \in HeadState, NEW u \in HeadState, Turn(t, u), Kept(t, u),
             NoEmpty(t.outbox), t.txOpen
      PROVE  NoEmpty(u.outbox) /\ u.txOpen /\ (u.local <=> t.local)
  <2>1. t.outbox \in Seq(Chunk)
    BY DEF HeadState
  <2>2. t.outbox # <<>> => Head(t.outbox) # <<>> /\ NoEmpty(Tail(t.outbox))
    BY <1>1, <2>1, NoEmptyTail
  <2>3. u.outbox = t.outbox \/ (t.outbox # <<>> /\ u.outbox = Tail(t.outbox))
    BY <1>1 DEF Turn
  <2>4. u.local <=> t.local
    BY <1>1, <2>2 DEF Turn, Moving
  <2> QED BY <1>1, <2>2, <2>3, <2>4 DEF Kept
<1>2. PICK one, two \in HeadState :
         /\ Turn(s, one) /\ Turn(one, two) /\ Turn(two, Filled(s))
         /\ Kept(s, one) /\ Kept(one, two) /\ Kept(two, Filled(s))
  BY FilledTurns
<1>3. Filled(s) \in HeadState
  BY FilledEffect
<1>4. NoEmpty(one.outbox) /\ one.txOpen /\ (one.local <=> s.local)
  BY <1>1, <1>2
<1>5. NoEmpty(two.outbox) /\ two.txOpen /\ (two.local <=> one.local)
  BY <1>1, <1>2, <1>4
<1>6. Filled(s).local <=> two.local
  BY <1>1, <1>2, <1>3, <1>5
<1> QED BY <1>4, <1>5, <1>6

\* Both directions, unless a session has ended.
LifeInv ==
    \/ Cut
    \/ \A x \in Side : Life(wire[x], Ghost(x), Ghost(Peer(x)), read[Peer(x)],
                            eof[Peer(x)], Peer(x) = "opener")

LEMMA InitLife == Init => LifeInv
<1> SUFFICES ASSUME Init PROVE LifeInv
  OBVIOUS
<1>1. /\ Ghost("opener") = NewHead(FALSE, "SYN")
      /\ Ghost("acceptor") = NewHead(TRUE, "ACK")
  BY TwoSides DEF Init, Ghost, OpenStream, AcceptStream
<1> DEFINE o == Ghost("opener")
           a == Ghost("acceptor")
           syn == WindowUpdate({"SYN"}, InitialWindow)
           ack == WindowUpdate({"ACK"}, InitialWindow)
<1>2. /\ o.alive /\ o.outs = <<syn>> /\ Sending(o) = "open" /\ ~o.remote
      /\ Silent(o)
      /\ a.alive /\ a.outs = <<ack>> /\ Sending(a) = "open" /\ a.remote
  BY <1>1, NewHeadEffect DEF Flag, Sending, Silent
<1>3. /\ syn \in StreamEvent /\ EventFlags(syn) = {"SYN"}
      /\ ack \in StreamEvent /\ EventFlags(ack) = {"ACK"}
  <2>1. PICK one, two \in SUBSET Flag : one = {"SYN"} /\ two = {"ACK"}
    BY DEF Flag
  <2> QED BY <2>1, WindowUpdateType, WindowAssumption DEF EventFlags
<1> HIDE DEF o, a, syn, ack
<1>4. /\ <<"open", syn, "open">> \in LifeSteps
      /\ <<"before", ack, "open">> \in LifeSteps
  BY <1>3, LifeIff DEF LifeStep, HasFin, Phase
<1>5. ASSUME NEW p, NEW event \in StreamEvent, <<p, event, "open">> \in LifeSteps
      PROVE  Path(<<event>>, LifeSteps, p, "open")
  <2>1. Path(<<>>, LifeSteps, p, p) /\ <<>> \in Seq(StreamEvent)
    BY PathEmpty
  <2>2. Path(Append(<<>>, event), LifeSteps, p, "open")
    BY <1>5, <2>1, PathAppend
  <2>3. Append(<<>>, event) = <<event>>
    OBVIOUS
  <2> QED BY <2>2, <2>3
<1>6. Life(<<>>, o, a, <<>>, FALSE, FALSE)
  <2>1. Path(<<>>, LifeSteps, "open", "open")
    BY PathEmpty
  <2>2. Path(o.outs, LifeSteps, "open", Sending(o))
    BY <1>2, <1>3, <1>4, <1>5
  <2>3. Hears(a, "open", <<>>, FALSE, FALSE)
    BY <1>2 DEF Hears
  <2>4. "open" \in Phase
    BY DEF Phase
  <2> QED BY <1>2, <2>1, <2>2, <2>3, <2>4 DEF Life
<1>7. Life(<<>>, a, o, <<>>, FALSE, TRUE)
  <2>1. Path(<<>>, LifeSteps, "before", "before")
    BY PathEmpty
  <2>2. Path(a.outs, LifeSteps, "before", Sending(a))
    BY <1>2, <1>3, <1>4, <1>5
  <2>3. Hears(o, "before", <<>>, FALSE, TRUE)
    BY <1>2 DEF Hears
  <2>4. "before" \in Phase
    BY DEF Phase
  <2> QED BY <1>2, <2>1, <2>2, <2>3, <2>4 DEF Life
<1>8. \A x \in Side : wire[x] = <<>> /\ read[x] = <<>> /\ eof[x] = FALSE
  BY DEF Init
<1>9. /\ (Peer("opener") = "opener") = FALSE
      /\ (Peer("acceptor") = "opener") = TRUE
  BY TwoSides
<1> QED BY <1>6, <1>7, <1>8, <1>9, TwoSides DEF LifeInv, o, a

\* A session that has ended does not start again.
LEMMA CutStays ==
  ASSUME TypeOK, Cut, [Next]_vars
  PROVE  Cut'
<1>1. PICK x \in Side : ~up[x]
  BY DEF Cut
<1>3. up' = up \/ \E z \in Side : up' = [up EXCEPT ![z] = FALSE]
  BY DEF Next, vars, Flush, Receive, PollItem, PollNone, EndSession, Write, Close,
         Drop, Read
<1>4. ~up'[x]
  BY <1>1, <1>3 DEF TypeOK
<1> QED BY <1>4 DEF Cut

LEMMA NextLife ==
  ASSUME ~EarlyClose, TypeOK, AcceptInv, FlowInv, LifeInv, [Next]_vars
  PROVE  LifeInv'
<1>1. CASE Cut
  BY <1>1, CutStays DEF LifeInv
<1>2. CASE ~Cut
  <2>0. ASSUME NEW x \in Side
        PROVE  /\ Peer(x) \in Side /\ Peer(x) # x /\ Peer(Peer(x)) = x
               /\ Ghost(x) \in HeadState /\ end[x] \in HeadState
               /\ written[x] \in Nat /\ read[x] \in Seq(Byte)
               /\ wire[x] \in Seq(StreamEvent)
               /\ Direction(written[x], wire[x], Ghost(x), Ghost(Peer(x)),
                            read[Peer(x)], eof[Peer(x)], broken[Peer(x)])
               /\ Life(wire[x], Ghost(x), Ghost(Peer(x)), read[Peer(x)],
                       eof[Peer(x)], Peer(x) = "opener")
    BY <1>2, Sides, GhostType DEF TypeOK, FlowInv, LifeInv
  \* It is enough to look at the direction from an end and the one to it.
  <2>1. ASSUME NEW x \in Side,
               Life(wire'[x], Ghost(x)', Ghost(Peer(x))', read'[Peer(x)],
                    eof'[Peer(x)], Peer(x) = "opener"),
               Life(wire'[Peer(x)], Ghost(Peer(x))', Ghost(x)', read'[x],
                    eof'[x], x = "opener")
        PROVE  LifeInv'
    <3>1. \A z \in Side : z = x \/ z = Peer(x)
      BY Sides
    <3> QED BY <2>0, <2>1, <3>1 DEF LifeInv
  <2>2. ASSUME NEW x \in Side, Receive(x) PROVE LifeInv'
    <3> DEFINE y == Peer(x)
               frames == wire[y]
    <3>1. /\ frames \in Seq(StreamEvent) /\ frames # <<>>
          /\ UNCHANGED <<written, read, eof, broken>>
      BY <2>2, GhostReceive
    <3>2. PICK next \in Arrivals(frames) :
             /\ next.event \in StreamEvent
             /\ "RST" \notin EventFlags(next.event)
             /\ wire'[y] = next.rest \o Tail(frames) /\ wire'[x] = wire[x]
             /\ Ghost(y)' = Ghost(y)
             /\ Ghost(x)' = IF Ghost(x).alive
                            THEN OnInput(Ghost(x), next.event) ELSE Ghost(x)
      BY <2>2, GhostReceive
    <3> HIDE DEF frames, y
    <3>3. /\ y \in Side
          /\ Direction(written[y], frames, Ghost(y), Ghost(x), read[x], eof[x],
                       broken[x])
          /\ Life(frames, Ghost(y), Ghost(x), read[x], eof[x], x = "opener")
          /\ Life(wire[x], Ghost(x), Ghost(y), read[y], eof[y], y = "opener")
      BY <2>0 DEF y, frames
    <3>4. Life(next.rest \o Tail(frames), Ghost(y), Ghost(x)', read[x], eof[x],
               x = "opener")
      <4>1. Ghost(x).alive => ~InputError(Ghost(x), next.event)
        BY <2>0, <3>1, <3>2, <3>3, DirectionTaken
      <4>2. Ghost(x).rxOpen => Ghost(x).tx
        BY <3>3 DEF Direction
      <4>3. Ghost(x) \in HeadState
        BY <2>0
      <4> QED BY <3>1, <3>2, <3>3, <4>1, <4>2, <4>3, LifeTaken
    <3>5. Life(wire[x], Ghost(x)', Ghost(y), read[y], eof[y], y = "opener")
      <4>1. CASE Ghost(x).alive
        <5>1. Ghost(x) \in HeadState
          BY <2>0
        <5> QED BY <3>2, <3>3, <4>1, <5>1, LifeHeard
      <4>2. CASE ~Ghost(x).alive
        BY <3>2, <3>3, <4>2
      <4> QED BY <4>1, <4>2
    <3> QED BY <2>1, <3>1, <3>2, <3>4, <3>5 DEF y
  \* The other steps are of one end, x, and its head u becomes v.
  <2>3. ASSUME NEW x \in Side,
               \/ PollItem(x) \/ PollNone(x) \/ EndSession(x) \/ Write(x)
               \/ Close(x) \/ Drop(x) \/ Read(x)
        PROVE  LifeInv'
    <3> DEFINE y == Peer(x)
               u == end[x]
               v == end'[x]
    <3>1. \/ /\ Ghost(x) = u /\ Ghost(x)' = v /\ Ghost(y)' = Ghost(y)
          \/ /\ UNCHANGED <<wire, accepts, written, read, eof, broken>>
             /\ \A z \in Side : Ghost(z)' = Ghost(z)
      BY <2>3, GhostLocal
    <3>2. CASE /\ UNCHANGED <<wire, accepts, written, read, eof, broken>>
               /\ \A z \in Side : Ghost(z)' = Ghost(z)
      BY <2>0, <2>1, <3>2
    <3>3. CASE Ghost(x) = u /\ Ghost(x)' = v /\ Ghost(y)' = Ghost(y)
      <4> HIDE DEF y
      <4>1. /\ y \in Side /\ y # x /\ u \in HeadState
            /\ wire[x] \in Seq(StreamEvent)
            /\ Direction(written[x], wire[x], u, Ghost(y), read[y], eof[y],
                         broken[y])
            /\ Direction(written[y], wire[y], Ghost(y), u, read[x], eof[x],
                         broken[x])
            /\ Life(wire[x], u, Ghost(y), read[y], eof[y], y = "opener")
            /\ Life(wire[y], Ghost(y), u, read[x], eof[x], x = "opener")
        BY <2>0, <3>3 DEF y
      \* It is enough to look at the two directions with x's new head.
      <4>2. ASSUME Life(wire'[x], v, Ghost(y), read'[y], eof'[y], y = "opener"),
                   Life(wire'[y], Ghost(y), v, read'[x], eof'[x], x = "opener")
            PROVE  LifeInv'
        BY <2>1, <3>3, <4>2 DEF y
      <4>3. CASE PollItem(x)
        <5>1. /\ u.alive /\ PollsItem(u) /\ v = Polled(u)
              /\ wire'[x] = Append(wire[x], PolledItem(u)) /\ wire'[y] = wire[y]
              /\ UNCHANGED <<written, read, eof, broken>>
          BY <4>1, <4>3 DEF PollItem, TypeOK
        <5> HIDE DEF u, v
        <5>2. Life(wire'[x], v, Ghost(y), read[y], eof[y], y = "opener")
          BY <4>1, <5>1, LifePolled
        <5>3. /\ v.alive = u.alive /\ (v.remote <=> u.remote)
              /\ v.rxOpen = u.rxOpen /\ v.txOpen = u.txOpen
              /\ v.inbox = u.inbox /\ v.reading = u.reading
              /\ v.local <=> Filled(u).local
          BY <4>1, <5>1, PolledEffect
             DEF Kept, SameInbox, SameReader, SameState
        <5>4. Silent(u) => Silent(v)
          <6>1. written[x] \in Nat
            BY <2>0
          <6>2. NoEmpty(u.outbox)
            BY <4>1, <5>1, <6>1, DirectionNoEmpty
          <6> QED BY <4>1, <5>3, <6>2, FilledLocal DEF Silent
        <5>5. Life(wire[y], Ghost(y), v, read[x], eof[x], x = "opener")
          BY <4>1, <5>3, <5>4, LifeKept
        <5> QED BY <4>2, <5>1, <5>2, <5>5
      <4>4. CASE PollNone(x)
        <5>1. /\ u.alive /\ PollsNone(u) /\ v = RemoveHead(u)
              /\ UNCHANGED <<wire, read, eof>>
          BY <4>4 DEF PollNone, TypeOK
        <5> HIDE DEF u, v
        <5>2. /\ u.outs = <<>> /\ ~u.local /\ ~u.remote /\ ~v.alive
              /\ v.rxOpen = u.rxOpen /\ v.inbox = u.inbox
          BY <4>1, <5>1, RemoveHeadEffect
             DEF PollsNone, IsClosed, SameInbox, SameReader
        <5>3. Life(wire[x], v, Ghost(y), read[y], eof[y], y = "opener")
          BY <4>1, <5>1, <5>2, LifeRemoved
        <5>4. Life(wire[y], Ghost(y), v, read[x], eof[x], x = "opener")
          BY <4>1, <5>1, <5>2, LifeRemoved
        <5> QED BY <4>2, <5>1, <5>3, <5>4
      <4>5. CASE EndSession(x)
        <5>1. Cut'
          BY <4>5 DEF EndSession, Cut, TypeOK
        <5> QED BY <5>1 DEF LifeInv
      <4>6. CASE Write(x)
        <5>1. PICK w \in HeadState :
                 /\ end' = [end EXCEPT ![x] = w]
                 /\ w.txOpen = u.txOpen /\ w.inbox = u.inbox
                 /\ SameReader(u, w) /\ HeadKept(u, w)
                 /\ UNCHANGED <<wire, up, accepts, read, eof, broken>>
          BY <4>6, WriteEffect
        <5>2. v = w
          BY <5>1 DEF TypeOK
        <5> HIDE DEF u, v
        <5>3. /\ v.alive = u.alive /\ v.outs = u.outs /\ (v.local <=> u.local)
              /\ (v.remote <=> u.remote) /\ v.rxOpen = u.rxOpen
              /\ v.txOpen = u.txOpen /\ v.inbox = u.inbox
              /\ v.reading = u.reading
          BY <5>1, <5>2 DEF SameReader, HeadKept, SameState
        <5>4. Life(wire[x], v, Ghost(y), read[y], eof[y], y = "opener")
          BY <4>1, <5>3, LifeKept
        <5>5. Life(wire[y], Ghost(y), v, read[x], eof[x], x = "opener")
          BY <4>1, <5>3, LifeKept DEF Silent
        <5> QED BY <4>2, <5>1, <5>4, <5>5
      <4>7. CASE Close(x) \/ Drop(x)
        <5>1. /\ UNCHANGED <<wire, read, eof>>
              /\ v = PollClose(u) \/ v = DropHandle(u)
              /\ MayClose(x)
          BY <4>7 DEF Close, Drop, TypeOK
        <5>2. /\ v.alive = u.alive /\ v.outs = u.outs /\ (v.local <=> u.local)
              /\ (v.remote <=> u.remote)
              /\ v.rxOpen => u.rxOpen /\ v.inbox = u.inbox
          BY <4>1, <5>1, PollCloseEffect, DropHandleEffect
             DEF HeadKept, SameState, SameReader
        <5>3. ~(x = "opener" /\ read[x] = <<>> /\ ~eof[x])
          BY <5>1, TwoSides DEF MayClose
        <5> HIDE DEF u, v
        <5>4. Life(wire[x], v, Ghost(y), read[y], eof[y], y = "opener")
          BY <4>1, <5>2, LifeKept
        <5>5. Life(wire[y], Ghost(y), v, read[x], eof[x], x = "opener")
          BY <4>1, <5>2, <5>3, LifeKept
        <5> QED BY <4>2, <5>1, <5>4, <5>5
      <4>8. CASE Read(x)
        <5> DEFINE reading == Loaded(u).reading
        <5>1. PICK n \in 0..Len(reading), bytes \in Chunk, w \in HeadState :
                 /\ u.rxOpen
                 /\ Len(bytes) = n /\ Len(w.reading) = Len(reading) - n
                 /\ \A i \in 1..n : bytes[i] = reading[i]
                 /\ \A i \in 1..Len(reading) - n : w.reading[i] = reading[n + i]
                 /\ w.inbox = Loaded(u).inbox
                 /\ SameOutbox(u, w) /\ w.rxOpen = u.rxOpen /\ HeadKept(u, w)
                 /\ end' = [end EXCEPT ![x] = w]
                 /\ read' = [read EXCEPT ![x] = @ \o bytes]
                 /\ eof' = [eof EXCEPT ![x] = @ \/ ReadsEof(u)]
                 /\ broken' = [broken EXCEPT ![x] = @ \/ ReadsBroken(u)]
                 /\ UNCHANGED <<wire, up, accepts, written>>
          BY <4>8, ReadEffect
        <5>2. /\ v = w /\ read'[x] = read[x] \o bytes /\ read'[y] = read[y]
              /\ eof'[x] = (eof[x] \/ ReadsEof(u)) /\ eof'[y] = eof[y]
          BY <4>1, <5>1 DEF TypeOK
        <5>3. /\ w.inbox = Loaded(u).inbox /\ w.txOpen = u.txOpen
              /\ w.outs = u.outs /\ w.rxOpen = u.rxOpen /\ (w.tx <=> u.tx)
              /\ w.alive = u.alive /\ w.recvState = u.recvState
              /\ (w.local <=> u.local) /\ (w.remote <=> u.remote)
          BY <5>1 DEF SameOutbox, HeadKept, SameState
        <5>4. n = 0 => read[x] \o bytes = read[x]
          <6>1. read[x] \in Seq(Byte)
            BY <2>0
          <6>2. n = 0 => bytes = <<>>
            BY <5>1 DEF Chunk
          <6> QED BY <6>1, <6>2
        <5> HIDE DEF v, u, reading
        <5>5. Serves(u, w, bytes, n)
          BY <5>1, <5>3 DEF reading, Serves
        <5>6. Life(wire[y], Ghost(y), w, read[x] \o bytes, eof[x] \/ ReadsEof(u),
                   x = "opener")
          <6> DEFINE more == read[x] \o bytes
          <6>1. n = 0 => more = read[x]
            BY <5>4
          <6> HIDE DEF more
          <6>2. /\ Life(wire[y], Ghost(y), u, read[x], eof[x], x = "opener")
                /\ u \in HeadState /\ w \in HeadState /\ u.rxOpen
                /\ (w.remote <=> u.remote) /\ (w.local <=> u.local)
                /\ w.txOpen = u.txOpen
            BY <4>1, <5>1, <5>3
          <6>3. Life(wire[y], Ghost(y), w, more, eof[x] \/ ReadsEof(u),
                     x = "opener")
            <7> DEFINE ended == eof[x]
                       opener == x = "opener"
            <7>1. Life(wire[y], Ghost(y), u, read[x], ended, opener)
              BY <6>2
            <7> HIDE DEF ended, opener
            <7>2. Life(wire[y], Ghost(y), w, more, ended \/ ReadsEof(u), opener)
              BY <5>5, <6>1, <6>2, <7>1, LifeRead
            <7> QED BY <7>2 DEF ended, opener
          <6> QED BY <6>3 DEF more
        <5>7. Life(wire[x], w, Ghost(y), read[y], eof[y], y = "opener")
          BY <4>1, <5>3, LifeKept
        <5> QED BY <4>2, <5>1, <5>2, <5>6, <5>7
      <4> QED BY <2>3, <4>3, <4>4, <4>5, <4>6, <4>7, <4>8
    <3> QED BY <3>1, <3>2, <3>3
  <2>4. CASE Unmoved
    <3>1. \A x \in Side : Ghost(x)' = Ghost(x)
      BY <2>4 DEF Unmoved, Ghost
    <3> QED BY <2>4, <3>1, Sides DEF Unmoved, LifeInv, Cut
  <2> QED BY <2>2, <2>3, <2>4, FlushUnmoved DEF Next
<1> QED BY <1>1, <1>2

-----------------------------------------------------------------------------
\* A reader that gets BrokenPipe has lost its head, which heard the peer's end:
\* it has read the marker before.
LEMMA NextBroken ==
  ASSUME TypeOK, AcceptInv, FlowInv, LifeInv, BrokenOnlyAfterEof, [Next]_vars
  PROVE  BrokenOnlyAfterEof'
<1>1. CASE Cut
  BY <1>1, CutStays DEF BrokenOnlyAfterEof
<1>2. ASSUME NEW x \in Side, Read(x), ~Cut PROVE BrokenOnlyAfterEof'
  <2> DEFINE y == Peer(x)
             s == end[x]
  <2>1. /\ s.rxOpen
        /\ eof' = [eof EXCEPT ![x] = @ \/ ReadsEof(s)]
        /\ broken' = [broken EXCEPT ![x] = @ \/ ReadsBroken(s)]
    BY <1>2 DEF Read
  <2>2. s # NoStream
    BY <2>1, NewEnds
  <2>3. Ghost(x) = s /\ y \in Side /\ Peer(y) = x
    BY <2>2, Sides DEF AcceptInv, Ghost
  <2>4. /\ Direction(written[y], wire[y], Ghost(y), s, read[x], eof[x], broken[x])
        /\ Life(wire[y], Ghost(y), s, read[x], eof[x], x = "opener")
    BY <1>2, <2>3 DEF FlowInv, LifeInv
  <2> HIDE DEF s, y
  <2>5. ASSUME ReadsBroken(s) PROVE eof[x]
    <3>1. s.inbox = <<>> /\ ~s.alive
      BY <2>1, <2>4, <2>5 DEF Direction, ReadsBroken
    <3>2. ~HasEnd(<<>>)
      BY DEF HasEnd
    <3>3. PICK b \in Phase : Hears(s, b, read[x], eof[x], x = "opener")
      BY <2>4 DEF Life
    <3> QED BY <2>1, <3>1, <3>2, <3>3 DEF Hears
  <2>6. ASSUME NEW z \in Side, broken'[z] PROVE eof'[z]
    <3>1. CASE z = x
      BY <1>2, <2>1, <2>5, <2>6, <3>1 DEF TypeOK, BrokenOnlyAfterEof
    <3>2. CASE z # x
      BY <1>2, <2>1, <2>6, <3>2 DEF TypeOK, BrokenOnlyAfterEof
    <3> QED BY <3>1, <3>2
  <2> QED BY <2>6 DEF BrokenOnlyAfterEof
<1>3. CASE ~Cut /\ UNCHANGED <<eof, broken>>
  BY <1>3 DEF BrokenOnlyAfterEof
<1>4. \/ UNCHANGED <<eof, broken>>
      \/ \E x \in Side : Read(x)
  BY DEF Next, vars, Flush, Receive, PollItem, PollNone, EndSession, Write, Close, Drop
<1> QED BY <1>1, <1>2, <1>3, <1>4

LEMMA LifeInductive ==
  ASSUME ~EarlyClose
  PROVE  Spec => [](TypeOK /\ AcceptInv /\ FlowInv /\ LifeInv)
<1>1. TypeOK /\ AcceptInv /\ FlowInv /\ LifeInv /\ [Next]_vars => LifeInv'
  BY NextLife
<1> QED BY <1>1, InvInductive, InitLife, PTL DEF Spec

\* A reader is told BrokenPipe only after the end of the stream, unless a
\* session has ended: no head is removed before its handle has been sent the end
\* of stream marker.  The opener must not close before it has heard of its peer:
\* with EarlyClose the model reaches a counterexample.
THEOREM BrokenCorrect ==
  ASSUME ~EarlyClose
  PROVE  Spec => []BrokenOnlyAfterEof
<1>1. Init => BrokenOnlyAfterEof
  BY DEF Init, BrokenOnlyAfterEof
<1>2. TypeOK /\ AcceptInv /\ FlowInv /\ LifeInv /\ BrokenOnlyAfterEof /\ [Next]_vars
         => BrokenOnlyAfterEof'
  BY NextBroken
<1> QED BY <1>1, <1>2, LifeInductive, PTL DEF Spec

-----------------------------------------------------------------------------
\* When all is quiet.  Credit that a head has not returned stays below what it
\* returns at once, so that a direction with nothing on its way has a window of
\* at least a chunk.
RecvInv == \A x \in Side : Ghost(x).recv + ChunkCapacity < UpdateThreshold

LEMMA InputRecv ==
  ASSUME NEW s \in HeadState, NEW event \in StreamEvent,
         "RST" \notin EventFlags(event),
         s.recv + ChunkCapacity < UpdateThreshold
  PROVE  OnInput(s, event).recv + ChunkCapacity < UpdateThreshold
<1>1. CASE InputError(s, event)
  <2>1. OnInput(s, event) = s
    BY <1>1 DEF OnInput, InputError
  <2> QED BY <2>1
<1>2. CASE ~InputError(s, event)
  <2> DEFINE t == OnInput(s, event)
             got == s.recv + PayloadOf(event)
  <2>1. \/ /\ t.recv = got
           /\ event.kind # "DataChunk"
              \/ ~(t.recv + ChunkCapacity >= UpdateThreshold)
        \/ t.recv = 0
    BY <1>2, InputEffect
  <2>2. t \in HeadState
    BY OnInputEffect
  <2> HIDE DEF t
  <2>3. /\ s.recv \in Nat /\ t.recv \in Nat /\ ChunkCapacity \in Nat
        /\ UpdateThreshold \in Nat
    BY <2>2, ChunkAssumption, WindowAssumption DEF HeadState, UpdateThreshold
  <2>4. event.kind # "DataChunk" => got = s.recv
    BY <2>3 DEF PayloadOf
  <2> HIDE DEF got
  <2>5. t.recv + ChunkCapacity < UpdateThreshold
    BY <2>1, <2>3, <2>4, ThresholdAssumption
  <2> QED BY <2>5 DEF t
<1> QED BY <1>1, <1>2

LEMMA InitRecv == Init => RecvInv
<1> SUFFICES ASSUME Init PROVE RecvInv
  OBVIOUS
<1>1. /\ Ghost("opener") = NewHead(FALSE, "SYN")
      /\ Ghost("acceptor") = NewHead(TRUE, "ACK")
  BY TwoSides DEF Init, Ghost, OpenStream, AcceptStream
<1>2. Ghost("opener").recv = 0 /\ Ghost("acceptor").recv = 0
  BY <1>1, NewHeadEffect DEF Flag
<1>3. 0 + ChunkCapacity < UpdateThreshold
  BY ChunkAssumption, ThresholdAssumption
<1> QED BY <1>2, <1>3, TwoSides DEF RecvInv

LEMMA NextRecv ==
  ASSUME TypeOK, AcceptInv, RecvInv, [Next]_vars
  PROVE  RecvInv'
\* It is enough to look at an end and its peer.
<1>1. ASSUME NEW x \in Side,
             Ghost(x)'.recv + ChunkCapacity < UpdateThreshold,
             Ghost(Peer(x))' = Ghost(Peer(x))
      PROVE  RecvInv'
  <2>1. \A z \in Side : z = x \/ z = Peer(x)
    BY Sides
  <2> QED BY <1>1, <2>1, Sides DEF RecvInv, UpdateThreshold
<1>2. ASSUME NEW x \in Side, Receive(x) PROVE RecvInv'
  <2>1. PICK event \in StreamEvent :
           /\ "RST" \notin EventFlags(event)
           /\ Ghost(Peer(x))' = Ghost(Peer(x))
           /\ Ghost(x)' = IF Ghost(x).alive THEN OnInput(Ghost(x), event)
                                            ELSE Ghost(x)
    BY <1>2, GhostReceive
  <2>2. Ghost(x) \in HeadState /\ Ghost(x).recv + ChunkCapacity < UpdateThreshold
    BY GhostType DEF RecvInv
  <2>3. Ghost(x)'.recv + ChunkCapacity < UpdateThreshold
    BY <2>1, <2>2, InputRecv
  <2> QED BY <1>1, <2>1, <2>3
<1>3. ASSUME NEW x \in Side,
             \/ PollItem(x) \/ PollNone(x) \/ EndSession(x) \/ Write(x)
             \/ Close(x) \/ Drop(x) \/ Read(x)
      PROVE  RecvInv'
  <2>1. CASE \A z \in Side : Ghost(z)' = Ghost(z)
    BY <2>1 DEF RecvInv, UpdateThreshold
  <2>2. CASE /\ Ghost(x) = end[x] /\ Ghost(x)' = end'[x]
             /\ Ghost(Peer(x))' = Ghost(Peer(x))
    <3>1. end[x] \in HeadState
      BY DEF TypeOK
    <3>2. end'[x].recv = end[x].recv
      <4>1. CASE PollItem(x)
        <5>1. end'[x] = Polled(end[x])
          BY <4>1 DEF PollItem, TypeOK
        <5> QED BY <3>1, <5>1, PolledEffect DEF Kept
      <4>2. CASE ~PollItem(x)
        <5>1. end'[x] = RemoveHead(end[x]) \/ HeadKept(end[x], end'[x])
          BY <1>3, <4>2, LocalStep
        <5> QED BY <3>1, <5>1, RemoveHeadEffect DEF HeadKept, SameWindow
      <4> QED BY <4>1, <4>2
    <3>3. Ghost(x)'.recv + ChunkCapacity < UpdateThreshold
      BY <2>2, <3>2 DEF RecvInv
    <3> QED BY <1>1, <2>2, <3>3
  <2> QED BY <1>3, <2>1, <2>2, GhostLocal
<1>4. CASE Unmoved
  <2>1. \A x \in Side : Ghost(x)' = Ghost(x)
    BY <1>4 DEF Unmoved, Ghost
  <2> QED BY <2>1 DEF RecvInv, UpdateThreshold
<1> QED BY <1>2, <1>3, <1>4, FlushUnmoved DEF Next

\* An end when all is quiet: both are there, with nothing on the way between
\* them, heads that wait and readers that have read everything.
Settled(s) ==
    /\ s.alive => Waits(s)
    /\ s.rxOpen => s.reading = <<>> /\ s.inbox = <<>>

LEMMA IdleSettled ==
  ASSUME TypeOK, FlowInv, ~Cut, NEW x \in Side, Ghost(x) = end[x], Idle(x)
  PROVE  wire[x] = <<>> /\ Settled(end[x])
<1> DEFINE s == end[x]
<1>1. /\ wire[x] = <<>> /\ s \in HeadState /\ written[x] \in Nat
      /\ s.alive => ~PollsNone(s) /\ ~PollsItem(s)
      /\ s.rxOpen => ~ReadsData(s) /\ ~ReadsEof(s)
      /\ Direction(written[x], wire[x], s, Ghost(Peer(x)),
                   read[Peer(x)], eof[Peer(x)], broken[Peer(x)])
  BY DEF Idle, Cut, TypeOK, FlowInv
<1> HIDE DEF s
<1>2. s.alive => Waits(s)
  BY <1>1, DirectionNoEmpty, PolledWaits
<1>3. s.rxOpen => s.reading = <<>> /\ s.inbox = <<>>
  BY <1>1, LoadedEffect DEF ReadsData, ReadsEof
<1> QED BY <1>1, <1>2, <1>3 DEF Settled, s

\* Where a direction with nothing on its way has come to.
LEMMA QuietLife ==
  ASSUME NEW s, NEW t, NEW got, NEW ended, NEW opener,
         Life(<<>>, s, t, got, ended, opener), Settled(s)
  PROVE  \E b \in Phase : /\ IF s.alive THEN b = Sending(s) ELSE b = "closed"
                          /\ Hears(t, b, got, ended, opener)
<1>1. PICK b \in Phase, m \in Phase :
         /\ Path(<<>>, LifeSteps, b, m)
         /\ IF s.alive THEN Path(s.outs, LifeSteps, m, Sending(s)) ELSE m = "closed"
         /\ Hears(t, b, got, ended, opener)
  BY DEF Life
<1>2. b = m /\ (s.alive => s.outs = <<>>)
  BY <1>1, PathEmpty DEF Settled, Waits
<1>3. s.alive => m = Sending(s)
  BY <1>1, <1>2, PathEmpty
<1> QED BY <1>1, <1>2, <1>3

\* The opening frame has been sent and heard.
LEMMA QuietExists ==
  ASSUME TypeOK, AcceptInv, FlowInv, LifeInv, ~Cut, Quiet, NEW x \in Side
  PROVE  Exists(x) /\ Ghost(x) = end[x]
<1> SUFFICES ASSUME accepts = 0 PROVE FALSE
  BY DEF Exists, Ghost, AcceptInv
<1> DEFINE s == end["opener"]
<1>1. /\ Ghost("opener") = s /\ Ghost("acceptor") = AcceptStream
      /\ Idle("opener") /\ "opener" \in Side /\ Peer("opener") = "acceptor"
  BY TwoSides DEF Ghost, Quiet
<1>2. wire["opener"] = <<>> /\ Settled(s)
  BY <1>1, IdleSettled
<1>3. Opening(s.outs) \/ ~s.alive
  BY <1>2 DEF AcceptInv, Opening
<1>4. ~s.alive
  BY <1>2, <1>3 DEF Settled, Waits, Opening
<1>5. Life(<<>>, s, AcceptStream, read["acceptor"], eof["acceptor"],
           "acceptor" = "opener")
  BY <1>1, <1>2 DEF LifeInv
<1>6. AcceptStream.alive /\ AcceptStream.remote
  BY NewHeadEffect DEF AcceptStream, Flag
<1> HIDE DEF s
<1>7. Hears(AcceptStream, "closed", read["acceptor"], eof["acceptor"],
            "acceptor" = "opener")
  BY <1>2, <1>4, <1>5, QuietLife
<1> QED BY <1>6, <1>7 DEF Hears

\* Both ends and both directions, when all is quiet.
LEMMA QuietPair ==
  ASSUME TypeOK, AcceptInv, FlowInv, LifeInv, ~Cut, Quiet, NEW x \in Side
  PROVE  LET y == Peer(x) IN
         /\ y \in Side /\ Peer(y) = x /\ Exists(x) /\ Exists(y)
         /\ Ghost(x) = end[x] /\ Ghost(y) = end[y]
         /\ end[x] \in HeadState /\ end[y] \in HeadState
         /\ Settled(end[x]) /\ Settled(end[y])
         /\ wire[x] = <<>> /\ wire[y] = <<>>
         /\ Direction(written[x], <<>>, end[x], end[y], read[y], eof[y], broken[y])
         /\ \E b \in Phase :
               /\ IF end[x].alive THEN b = Sending(end[x]) ELSE b = "closed"
               /\ Hears(end[y], b, read[y], eof[y], y = "opener")
<1> DEFINE y == Peer(x)
<1>1. y \in Side /\ Peer(y) = x /\ Idle(x) /\ Idle(y)
  BY Sides DEF Quiet
<1>2. Exists(x) /\ Exists(y) /\ Ghost(x) = end[x] /\ Ghost(y) = end[y]
  BY <1>1, QuietExists
<1>3. /\ wire[x] = <<>> /\ wire[y] = <<>>
      /\ Settled(end[x]) /\ Settled(end[y])
  BY <1>1, <1>2, IdleSettled
<1>4. /\ Direction(written[x], <<>>, end[x], end[y], read[y], eof[y], broken[y])
      /\ Life(<<>>, end[x], end[y], read[y], eof[y], y = "opener")
  BY <1>2, <1>3 DEF FlowInv, LifeInv
<1>5. \E b \in Phase :
         /\ IF end[x].alive THEN b = Sending(end[x]) ELSE b = "closed"
         /\ Hears(end[y], b, read[y], eof[y], y = "opener")
  <2> DEFINE s == end[x]
             t == end[y]
             got == read[y]
             ended == eof[y]
             opener == y = "opener"
  <2>1. Life(<<>>, s, t, got, ended, opener) /\ Settled(s)
    BY <1>3, <1>4
  <2> HIDE DEF s, t, got, ended, opener
  <2>2. \E b \in Phase : /\ IF s.alive THEN b = Sending(s) ELSE b = "closed"
                         /\ Hears(t, b, got, ended, opener)
    BY <2>1, QuietLife
  <2> QED BY <2>2 DEF s, t, got, ended, opener
<1> QED BY <1>1, <1>2, <1>3, <1>4, <1>5 DEF TypeOK

\* A head that waits has all of its window back, and so has sent what it was
\* given.
LEMMA QuietWindow ==
  ASSUME TypeOK, AcceptInv, FlowInv, LifeInv, WindowInv, RecvInv, ~Cut, Quiet,
         NEW x \in Side, end[x].alive, end[Peer(x)].alive
  PROVE  end[x].outbox = <<>> /\ (end[x].txOpen \/ ~end[x].local)
<1> DEFINE s == end[x]
           t == end[Peer(x)]
<1>1. /\ Balance(s, <<>>, t, <<>>) = 2 * InitialWindow
      /\ t.recv + ChunkCapacity < UpdateThreshold
      /\ Settled(s) /\ Settled(t) /\ s \in HeadState /\ t \in HeadState
      /\ s.alive /\ t.alive
  BY QuietPair DEF WindowInv, RecvInv, UpdateThreshold
<1> HIDE DEF s, t
<1>2. s.outs = <<>> /\ t.outs = <<>>
  BY <1>1 DEF Settled, Waits
<1>3. /\ s.send \in Nat /\ t.recv \in Nat /\ ChunkCapacity \in Nat
      /\ InitialWindow \in Nat /\ UpdateThreshold \in Nat
      /\ UpdateThreshold <= InitialWindow
  BY <1>1, ChunkAssumption, WindowAssumption DEF HeadState, UpdateThreshold
<1>4. s.send + t.recv = 2 * InitialWindow
  BY <1>1, <1>2, <1>3, TotalsEmpty DEF Balance, Outgoing, Returning
<1>5. s.send >= ChunkCapacity
  BY <1>1, <1>3, <1>4
<1>6. ~(s.send < ChunkCapacity)
  BY <1>3, <1>5
<1> QED BY <1>1, <1>6 DEF Settled, Waits, s

\* A direction whose queues are empty has delivered everything.
LEMMA EmptyDirection ==
  ASSUME NEW top \in Nat, NEW s, NEW t, NEW got \in Seq(Byte), NEW ended, NEW broke,
         Direction(top, <<>>, s, t, got, ended, broke),
         s.alive, s.outs = <<>>, s.outbox = <<>>,
         t.alive, t.rxOpen, t.reading = <<>>, t.inbox = <<>>
  PROVE  Len(got) = top
<1> DEFINE ends == EndsOf(s, top)
           R == EventSteps(top, ends)
           C == ChunkSteps(top, ends)
<1>1. PICK b \in Stations(top), m \in Stations(top), a \in 0..top :
         /\ Path(<<>>, R, b, m) /\ Sends(s, top, ends, m)
         /\ Reads(t, top, ends, Len(got), a) /\ b.at = a
  BY DEF Direction, Flow
<1>2. PICK n \in Stations(top) :
         Path(<<>>, R, m, n) /\ Path(<<>>, ChunkSteps(top, {}), n.at, top)
  BY <1>1 DEF Sends
<1>3. Path(<<>>, C, Len(got) + Len(<<>>), a)
  BY <1>1 DEF Reads
<1> HIDE DEF R, C
<1>4. b = m /\ m = n /\ n.at = top /\ Len(got) + Len(<<>>) = a
  BY <1>1, <1>2, <1>3, PathEmpty
<1>5. Len(got) \in Nat /\ Len(<<>>) = 0
  OBVIOUS
<1> QED BY <1>1, <1>4, <1>5

LEMMA StallFree ==
  ASSUME TypeOK, AcceptInv, FlowInv, LifeInv, WindowInv, RecvInv, ~Cut
  PROVE  NoStall
<1> SUFFICES ASSUME Quiet, NEW x \in Side, ~Gone(Peer(x))
             PROVE  Len(read[Peer(x)]) = written[x]
  BY DEF NoStall
<1> DEFINE y == Peer(x)
           s == end[x]
           t == end[y]
<1>1. /\ Direction(written[x], <<>>, s, t, read[y], eof[y], broken[y])
      /\ Settled(s) /\ Settled(t) /\ t.rxOpen
      /\ written[x] \in Nat /\ read[y] \in Seq(Byte)
  BY QuietPair DEF Gone, TypeOK
<1>2. PICK b \in Phase :
         /\ IF s.alive THEN b = Sending(s) ELSE b = "closed"
         /\ Hears(t, b, read[y], eof[y], y = "opener")
  BY QuietPair
<1>3. s.alive /\ t.alive => s.outbox = <<>>
  BY QuietWindow
<1> HIDE DEF s, t, y
<1>4. CASE s.alive /\ t.alive
  <2>1. s.outs = <<>> /\ s.outbox = <<>> /\ t.reading = <<>> /\ t.inbox = <<>>
    BY <1>1, <1>3, <1>4 DEF Settled, Waits
  <2>2. Len(read[y]) = written[x]
    BY <1>1, <1>4, <2>1, EmptyDirection
  <2> QED BY <2>2 DEF y
<1>5. CASE ~(s.alive /\ t.alive)
  <2>1. b = "closed"
    BY <1>2, <1>5 DEF Hears
  <2>2. ~HasEnd(t.inbox)
    <3>1. t.inbox = <<>> /\ Len(<<>>) = 0
      BY <1>1 DEF Settled
    <3> QED BY <3>1 DEF HasEnd
  <2>3. eof[y]
    BY <1>1, <1>2, <2>1, <2>2 DEF Hears
  <2>4. Len(read[y]) \in EndsOf(s, written[x])
    BY <1>1, <2>3 DEF Direction
  <2> QED BY <2>4 DEF EndsOf, y
<1> QED BY <1>4, <1>5

LEMMA LeftoverFree ==
  ASSUME TypeOK, AcceptInv, FlowInv, LifeInv, WindowInv, RecvInv, ~Cut
  PROVE  NoLeftover
<1> SUFFICES ASSUME Quiet, \A z \in Side : ~end[z].txOpen,
                    NEW x \in Side, end[x].alive
             PROVE  FALSE
  BY DEF NoLeftover
<1> DEFINE y == Peer(x)
           s == end[x]
           t == end[y]
<1>1. /\ y \in Side /\ Peer(y) = x /\ Settled(s) /\ s.alive
      /\ ~s.txOpen /\ ~t.txOpen
  BY QuietPair
<1>2. PICK b \in Phase :
         b = Sending(s) /\ Hears(t, b, read[y], eof[y], y = "opener")
  BY QuietPair
<1>3. PICK c \in Phase :
         /\ IF t.alive THEN c = Sending(t) ELSE c = "closed"
         /\ Hears(s, c, read[x], eof[x], x = "opener")
  BY <1>1, QuietPair
<1>4. t.alive => ~s.local /\ ~t.local
  BY <1>1, QuietWindow
<1> HIDE DEF s, t, y
<1>5. ~s.local
  BY <1>2, <1>4 DEF Hears, Sending
<1>6. ~s.remote
  BY <1>1, <1>3, <1>4 DEF Hears, Sending
<1> QED BY <1>1, <1>5, <1>6 DEF Settled, Waits, IsClosed

\* No session ends in the middle.
UpInv == \A x \in Side : up[x]

LEMMA UpInductive ==
  ASSUME MayEnd = {}
  PROVE  Spec => []UpInv
<1>1. Init => UpInv
  BY DEF Init, UpInv
<1>2. UpInv /\ [Next]_vars => UpInv'
  BY DEF UpInv, Next, vars, Flush, Receive, PollItem, PollNone, EndSession, Write, Close,
         Drop, Read
<1> QED BY <1>1, <1>2, PTL DEF Spec

\* All that the two theorems below rest on.
LEMMA QuietInductive ==
  ASSUME ~EarlyClose, MayEnd = {}
  PROVE  Spec => [](/\ TypeOK /\ AcceptInv /\ FlowInv /\ LifeInv
                    /\ WindowInv /\ RecvInv /\ UpInv)
<1>1. TypeOK /\ AcceptInv /\ FlowInv /\ WindowInv /\ [Next]_vars => WindowInv'
  BY NextWindow
<1>2. TypeOK /\ AcceptInv /\ RecvInv /\ [Next]_vars => RecvInv'
  BY NextRecv
<1> QED BY <1>1, <1>2, LifeInductive, InitWindow, InitRecv, UpInductive,
           PTL DEF Spec

\* Flow control never stalls: once neither session has anything to do and neither
\* reader anything to read, a reader has all that its peer wrote, or is gone.
\* The credit that mark_received_bytes still holds back leaves the writer a
\* window of at least a chunk, so that poll_next has sent all it was given.
THEOREM StallCorrect ==
  ASSUME ~EarlyClose, MayEnd = {}
  PROVE  Spec => []NoStall
<1>1. TypeOK /\ AcceptInv /\ FlowInv /\ LifeInv /\ WindowInv /\ RecvInv /\ UpInv
         => NoStall
  BY StallFree DEF UpInv, Cut
<1> QED BY <1>1, QuietInductive, PTL

\* No stream stays in the map of a session for ever: once all is quiet and both
\* applications have closed or dropped their handles, both heads have been
\* removed.
THEOREM LeftoverCorrect ==
  ASSUME ~EarlyClose, MayEnd = {}
  PROVE  Spec => []NoLeftover
<1>1. TypeOK /\ AcceptInv /\ FlowInv /\ LifeInv /\ WindowInv /\ RecvInv /\ UpInv
         => NoLeftover
  BY LeftoverFree DEF UpInv, Cut
<1> QED BY <1>1, QuietInductive, PTL
================================================================================
