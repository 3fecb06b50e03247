---------------------------- MODULE StreamHeadProofs ----------------------------
(***************************************************************************)
(* What the operators of StreamHead return and preserve, for every stream  *)
(* record: the lemmas that the proofs about the specifications built from  *)
(* them rest on.                                                           *)
(***************************************************************************)
EXTENDS StreamHead, InductionProofs, TLAPS

Fin == WindowUpdate({"FIN"}, 0)

-----------------------------------------------------------------------------
\* Frames.

LEMMA DataType ==
  ASSUME NEW flags \in SUBSET Flag, NEW size \in Nat
  PROVE  /\ Data(flags, size) \in StreamEvent
         /\ Data(flags, size).kind = "Data"
         /\ Data(flags, size).flags = flags
         /\ Data(flags, size).size = size
  BY DEF Data, StreamEvent, DataEvent

LEMMA DataChunkType ==
  ASSUME NEW chunk \in Chunk
  PROVE  /\ DataChunk(chunk) \in StreamEvent
         /\ DataChunk(chunk).kind = "DataChunk"
         /\ DataChunk(chunk).chunk = chunk
  BY DEF DataChunk, StreamEvent, ChunkEvent

LEMMA WindowUpdateType ==
  ASSUME NEW flags \in SUBSET Flag, NEW delta \in Nat
  PROVE  /\ WindowUpdate(flags, delta) \in StreamEvent
         /\ WindowUpdate(flags, delta).kind = "WindowUpdate"
         /\ WindowUpdate(flags, delta).flags = flags
         /\ WindowUpdate(flags, delta).delta = delta
  BY DEF WindowUpdate, StreamEvent, UpdateEvent

LEMMA EmptyChunk == <<>> \in Chunk
  BY DEF Chunk

LEMMA FinType ==
  /\ Fin \in StreamEvent /\ Fin.kind = "WindowUpdate"
  /\ Fin.flags = {"FIN"} /\ Fin.delta = 0
  BY WindowUpdateType DEF Fin, Flag

LEMMA EventType ==
  ASSUME NEW event \in StreamEvent
  PROVE  /\ event.kind \in {"Data", "DataChunk", "WindowUpdate"}
         /\ event.kind = "Data" =>
               event.flags \in SUBSET Flag /\ event.size \in Nat
         /\ event.kind = "DataChunk" => event.chunk \in Chunk
         /\ event.kind = "WindowUpdate" =>
               event.flags \in SUBSET Flag /\ event.delta \in Nat
  BY DEF StreamEvent, DataEvent, ChunkEvent, UpdateEvent

-----------------------------------------------------------------------------
\* Payload and credit in a sequence of events.

LEMMA OfType ==
  ASSUME NEW event \in StreamEvent
  PROVE  PayloadOf(event) \in Nat /\ CreditOf(event) \in Nat
<1>1. event.kind = "DataChunk" => Len(event.chunk) \in Nat
  BY EventType DEF Chunk
<1> QED BY <1>1, EventType DEF PayloadOf, CreditOf

LEMMA TotalsType ==
  ASSUME NEW events \in Seq(StreamEvent)
  PROVE  Payload(events) \in Nat /\ Credit(events) \in Nat
<1> DEFINE n == Len(events)
           p == [i \in 1..n |-> PayloadOf(events[i])]
           c == [i \in 1..n |-> CreditOf(events[i])]
<1>1. n \in Nat /\ \A i \in 1..n : events[i] \in StreamEvent
  OBVIOUS
<1>2. \A i \in 1..n : p[i] \in Nat /\ c[i] \in Nat
  BY <1>1, OfType
<1>3. Payload(events) = SumTo(p, n) /\ Credit(events) = SumTo(c, n)
  BY DEF Payload, Credit
<1> HIDE DEF n, p, c
<1>4. SumTo(p, n) \in Nat /\ SumTo(c, n) \in Nat
  BY <1>1, <1>2, SumType
<1> QED BY <1>3, <1>4

LEMMA TotalsEmpty == Payload(<<>>) = 0 /\ Credit(<<>>) = 0
<1>1. Len(<<>>) = 0
  OBVIOUS
<1> QED BY <1>1, SumZero DEF Payload, Credit

LEMMA TotalsAppend ==
  ASSUME NEW events \in Seq(StreamEvent), NEW event \in StreamEvent
  PROVE  /\ Payload(Append(events, event)) = Payload(events) + PayloadOf(event)
         /\ Credit(Append(events, event)) = Credit(events) + CreditOf(event)
<1> DEFINE n == Len(events)
           after == Append(events, event)
           p == [i \in 1..n |-> PayloadOf(events[i])]
           c == [i \in 1..n |-> CreditOf(events[i])]
           pa == [i \in 1..n + 1 |-> PayloadOf(after[i])]
           ca == [i \in 1..n + 1 |-> CreditOf(after[i])]
<1>1. n \in Nat /\ Len(after) = n + 1 /\ after[n + 1] = event
  OBVIOUS
<1>2. \A i \in 1..n : after[i] = events[i]
  OBVIOUS
<1>3. /\ Payload(events) = SumTo(p, n) /\ Credit(events) = SumTo(c, n)
      /\ Payload(after) = SumTo(pa, n + 1) /\ Credit(after) = SumTo(ca, n + 1)
  <2> HIDE DEF after
  <2> QED BY <1>1 DEF Payload, Credit
<1> HIDE DEF n, after
<1>4. /\ \A i \in 1..n : p[i] = pa[i] /\ c[i] = ca[i]
      /\ pa[n + 1] = PayloadOf(event) /\ ca[n + 1] = CreditOf(event)
  <2>1. \A i \in 1..n : i \in 1..n + 1
    BY <1>1
  <2>2. n + 1 \in 1..n + 1
    BY <1>1
  <2> QED BY <1>1, <1>2, <2>1, <2>2
<1> HIDE DEF p, c, pa, ca
<1>5. SumTo(p, n) = SumTo(pa, n) /\ SumTo(c, n) = SumTo(ca, n)
  BY <1>1, <1>4, SumAgrees
<1>6. /\ SumTo(pa, n + 1) = SumTo(pa, n) + pa[n + 1]
      /\ SumTo(ca, n + 1) = SumTo(ca, n) + ca[n + 1]
  BY <1>1, SumStep
<1>7. /\ Payload(after) = Payload(events) + PayloadOf(event)
      /\ Credit(after) = Credit(events) + CreditOf(event)
  BY <1>3, <1>4, <1>5, <1>6
<1> QED BY <1>7 DEF after

LEMMA TotalsTail ==
  ASSUME NEW events \in Seq(StreamEvent), events # <<>>
  PROVE  /\ Payload(events) = PayloadOf(Head(events)) + Payload(Tail(events))
         /\ Credit(events) = CreditOf(Head(events)) + Credit(Tail(events))
<1> DEFINE n == Len(events) - 1
           rest == Tail(events)
           p == [i \in 1..n + 1 |-> PayloadOf(events[i])]
           c == [i \in 1..n + 1 |-> CreditOf(events[i])]
           pr == [i \in 1..n |-> PayloadOf(rest[i])]
           cr == [i \in 1..n |-> CreditOf(rest[i])]
<1>1. n \in Nat /\ Len(events) = n + 1 /\ Head(events) = events[1]
  OBVIOUS
<1>2. Len(rest) = n
  OBVIOUS
<1>3. \A i \in 1..n : rest[i] = events[i + 1]
  BY <1>1
<1>4. \A i \in 1..n + 1 : events[i] \in StreamEvent
  BY <1>1
<1>5. /\ Payload(events) = SumTo(p, n + 1) /\ Credit(events) = SumTo(c, n + 1)
      /\ Payload(rest) = SumTo(pr, n) /\ Credit(rest) = SumTo(cr, n)
  <2> HIDE DEF rest, n
  <2> QED BY <1>1, <1>2 DEF Payload, Credit
<1> HIDE DEF n, rest
<1>6. /\ \A i \in 1..n + 1 : p[i] \in Nat /\ c[i] \in Nat
      /\ \A i \in 1..n : pr[i] = p[i + 1] /\ cr[i] = c[i + 1]
      /\ p[1] = PayloadOf(events[1]) /\ c[1] = CreditOf(events[1])
  <2>1. \A i \in 1..n : i + 1 \in 1..n + 1
    BY <1>1
  <2>2. 1 \in 1..n + 1
    BY <1>1
  <2> QED BY <1>3, <1>4, <2>1, <2>2, OfType
<1> HIDE DEF p, c, pr, cr
<1>7. /\ SumTo(p, n + 1) = p[1] + SumTo(pr, n)
      /\ SumTo(c, n + 1) = c[1] + SumTo(cr, n)
  BY <1>1, <1>6, SumFirst
<1> QED BY <1>1, <1>5, <1>6, <1>7 DEF rest

LEMMA OfEvents ==
  /\ \A flags \in SUBSET Flag, size \in Nat :
        PayloadOf(Data(flags, size)) = 0 /\ CreditOf(Data(flags, size)) = 0
  /\ \A chunk \in Chunk :
        /\ PayloadOf(DataChunk(chunk)) = Len(chunk)
        /\ CreditOf(DataChunk(chunk)) = 0
  /\ \A flags \in SUBSET Flag, delta \in Nat :
        /\ PayloadOf(WindowUpdate(flags, delta)) = 0
        /\ CreditOf(WindowUpdate(flags, delta)) = delta
  /\ PayloadOf(Fin) = 0 /\ CreditOf(Fin) = 0
  BY DataType, DataChunkType, WindowUpdateType, FinType DEF PayloadOf, CreditOf

-----------------------------------------------------------------------------
\* New streams.

LEMMA NewHeadEffect ==
  ASSUME NEW remote \in BOOLEAN, NEW opening \in Flag
  PROVE  LET t == NewHead(remote, opening) IN
         /\ t \in HeadState
         /\ t.local /\ (t.remote <=> remote)
         /\ t.send = InitialWindow /\ t.recv = 0 /\ t.recvState = NoPayload
         /\ t.outs = <<WindowUpdate({opening}, InitialWindow)>>
         /\ t.tx /\ t.alive /\ t.txOpen /\ t.rxOpen
         /\ t.outbox = <<>> /\ t.inbox = <<>> /\ t.reading = <<>>
<1>1. WindowUpdate({opening}, InitialWindow) \in StreamEvent
  BY WindowUpdateType, WindowAssumption
<1>2. <<WindowUpdate({opening}, InitialWindow)>> \in Seq(StreamEvent)
  BY <1>1
<1>3. <<>> \in Seq(Chunk) /\ <<>> \in Chunk
  BY EmptyChunk
<1> QED BY <1>2, <1>3, WindowAssumption DEF NewHead, HeadState

-----------------------------------------------------------------------------
\* The head: what an incoming frame does.

\* What an operator leaves alone, as groups of fields.
SameState(s, t) == (t.local <=> s.local) /\ (t.remote <=> s.remote)
SameWindow(s, t) == t.send = s.send /\ t.recv = s.recv
SameInbox(s, t) == t.inbox = s.inbox /\ (t.tx <=> s.tx)
SameOutbox(s, t) == t.outbox = s.outbox /\ t.txOpen = s.txOpen
SameReader(s, t) == t.rxOpen = s.rxOpen /\ t.reading = s.reading

LEMMA TryCloseLocalEffect ==
  ASSUME NEW s \in HeadState
  PROVE  LET t == TryCloseLocal(s) IN
         /\ t \in HeadState
         /\ ~t.local /\ (t.remote <=> s.remote)
         /\ t.outs = IF s.local THEN Append(s.outs, Fin) ELSE s.outs
         /\ t.alive = s.alive /\ t.recvState = s.recvState
         /\ SameWindow(s, t) /\ SameInbox(s, t)
         /\ SameOutbox(s, t) /\ SameReader(s, t)
<1> DEFINE t == TryCloseLocal(s)
<1> USE DEF SameWindow, SameInbox, SameOutbox, SameReader
<1>1. CASE s.local
  <2>1. t = [s EXCEPT !.local = FALSE, !.outs = Append(s.outs, Fin)]
    BY <1>1 DEF TryCloseLocal, Fin
  <2>2. Append(s.outs, Fin) \in Seq(StreamEvent)
    BY FinType DEF HeadState
  <2> QED BY <1>1, <2>1, <2>2 DEF HeadState
<1>2. CASE ~s.local
  BY <1>2 DEF TryCloseLocal, HeadState
<1> QED BY <1>1, <1>2

LEMMA ToUserEffect ==
  ASSUME NEW s \in HeadState, NEW chunk \in Chunk
  PROVE  LET t == ToUser(s, chunk) IN
         /\ t \in HeadState
         /\ t.tx <=> s.tx /\ s.rxOpen
         /\ t.inbox = IF s.tx /\ s.rxOpen THEN Append(s.inbox, chunk)
                                          ELSE s.inbox
         /\ t.outs = s.outs /\ t.alive = s.alive /\ t.recvState = s.recvState
         /\ SameState(s, t) /\ SameWindow(s, t)
         /\ SameOutbox(s, t) /\ SameReader(s, t)
<1> DEFINE t == ToUser(s, chunk)
<1> USE DEF SameState, SameWindow, SameOutbox, SameReader
<1>1. Append(s.inbox, chunk) \in Seq(Chunk)
  BY DEF HeadState
<1>2. CASE ~s.tx
  BY <1>2 DEF ToUser, HeadState
<1>3. CASE s.tx /\ s.rxOpen
  <2>1. t = [s EXCEPT !.inbox = Append(s.inbox, chunk)]
    BY <1>3 DEF ToUser
  <2> QED BY <1>3, <2>1, <1>1 DEF HeadState
<1>4. CASE s.tx /\ ~s.rxOpen
  <2>1. t = [s EXCEPT !.tx = FALSE]
    BY <1>4 DEF ToUser
  <2> QED BY <1>4, <2>1 DEF HeadState
<1> QED BY <1>2, <1>3, <1>4 DEF HeadState

\* The channel to the handle after the end of stream marker was sent on it.
Marked(s) == IF s.tx /\ s.rxOpen THEN Append(s.inbox, <<>>) ELSE s.inbox

LEMMA TryCloseRemoteEffect ==
  ASSUME NEW s \in HeadState
  PROVE  LET t == TryCloseRemote(s) IN
         /\ t \in HeadState
         /\ (t.local <=> s.local) /\ ~t.remote
         /\ t.inbox = IF s.remote THEN Marked(s) ELSE s.inbox
         /\ t.tx <=> (s.tx /\ (s.remote => s.rxOpen))
         /\ t.outs = s.outs /\ t.alive = s.alive /\ t.recvState = s.recvState
         /\ SameWindow(s, t) /\ SameOutbox(s, t) /\ SameReader(s, t)
<1> DEFINE t == TryCloseRemote(s)
<1> USE DEF SameState, SameWindow, SameOutbox, SameReader
<1>1. CASE s.remote
  <2> DEFINE u == [s EXCEPT !.remote = FALSE]
  <2>1. /\ u \in HeadState
        /\ (u.local <=> s.local) /\ ~u.remote /\ u.inbox = s.inbox
        /\ (u.tx <=> s.tx) /\ u.outs = s.outs /\ u.alive = s.alive
        /\ u.recvState = s.recvState
        /\ SameWindow(s, u) /\ SameOutbox(s, u) /\ SameReader(s, u)
    BY DEF HeadState
  <2>2. t = ToUser(u, <<>>)
    BY <1>1 DEF TryCloseRemote
  <2> HIDE DEF u
  <2> QED BY <1>1, <2>1, <2>2, ToUserEffect, EmptyChunk DEF Marked
<1>2. CASE ~s.remote
  BY <1>2 DEF TryCloseRemote, HeadState
<1> QED BY <1>1, <1>2

LEMMA HandleFlagEffect ==
  ASSUME NEW s \in HeadState, NEW flags \in SUBSET Flag
  PROVE  LET t == HandleFlag(s, flags) IN
         /\ t \in HeadState
         /\ t.local <=> (s.local /\ "RST" \notin flags)
         /\ t.remote <=> ((s.remote \/ "ACK" \in flags)
                          /\ "RST" \notin flags /\ "FIN" \notin flags)
         /\ t.outs = IF s.local /\ "RST" \in flags THEN Append(s.outs, Fin)
                                                   ELSE s.outs
         /\ LET ends == /\ s.remote \/ "ACK" \in flags
                        /\ "RST" \in flags \/ "FIN" \in flags
            IN  /\ t.inbox = IF ends THEN Marked(s) ELSE s.inbox
                /\ t.tx <=> (s.tx /\ (ends => s.rxOpen))
         /\ t.alive = s.alive /\ t.recvState = s.recvState
         /\ SameWindow(s, t) /\ SameOutbox(s, t) /\ SameReader(s, t)
<1> DEFINE t == HandleFlag(s, flags)
<1> USE DEF SameWindow, SameOutbox, SameReader, SameInbox
<1> DEFINE acked == IF "ACK" \in flags THEN [s EXCEPT !.remote = TRUE] ELSE s
           local == TryCloseLocal(acked)
           both == TryCloseRemote(local)
           reset == IF "RST" \in flags THEN both ELSE acked
           ended == TryCloseRemote(reset)
<1>1. /\ acked \in HeadState
      /\ (acked.local <=> s.local) /\ (acked.remote <=> s.remote \/ "ACK" \in flags)
      /\ acked.inbox = s.inbox /\ (acked.tx <=> s.tx) /\ acked.outs = s.outs
      /\ acked.alive = s.alive /\ acked.recvState = s.recvState
      /\ SameWindow(s, acked) /\ SameOutbox(s, acked) /\ SameReader(s, acked)
  BY DEF HeadState
<1>2. t = IF "FIN" \in flags THEN ended ELSE reset
  BY DEF HandleFlag
<1> HIDE DEF acked
<1>3. /\ local \in HeadState
      /\ ~local.local /\ (local.remote <=> acked.remote)
      /\ local.outs = IF s.local THEN Append(s.outs, Fin) ELSE s.outs
      /\ local.inbox = s.inbox /\ (local.tx <=> s.tx)
      /\ local.alive = s.alive /\ local.recvState = s.recvState
      /\ SameWindow(s, local) /\ SameOutbox(s, local) /\ SameReader(s, local)
  BY <1>1, TryCloseLocalEffect
<1> HIDE DEF local
<1>4. /\ both \in HeadState
      /\ ~both.local /\ ~both.remote
      /\ both.outs = IF s.local THEN Append(s.outs, Fin) ELSE s.outs
      /\ both.inbox = IF acked.remote THEN Marked(s) ELSE s.inbox
      /\ both.tx <=> (s.tx /\ (acked.remote => s.rxOpen))
      /\ both.alive = s.alive /\ both.recvState = s.recvState
      /\ SameWindow(s, both) /\ SameOutbox(s, both) /\ SameReader(s, both)
  <2>1. Marked(local) = Marked(s)
    BY <1>3 DEF Marked
  <2> QED BY <1>3, <2>1, TryCloseRemoteEffect
<1> HIDE DEF both
<1>5. /\ reset \in HeadState
      /\ reset.local <=> (s.local /\ "RST" \notin flags)
      /\ reset.remote <=> (acked.remote /\ "RST" \notin flags)
      /\ reset.outs = IF s.local /\ "RST" \in flags THEN Append(s.outs, Fin)
                                                    ELSE s.outs
      /\ reset.inbox = IF acked.remote /\ "RST" \in flags THEN Marked(s)
                                                          ELSE s.inbox
      /\ reset.tx <=> (s.tx /\ (acked.remote /\ "RST" \in flags => s.rxOpen))
      /\ reset.alive = s.alive /\ reset.recvState = s.recvState
      /\ SameWindow(s, reset) /\ SameOutbox(s, reset) /\ SameReader(s, reset)
  <2>1. CASE "RST" \in flags
    BY <1>4, <2>1
  <2>2. CASE "RST" \notin flags
    BY <1>1, <2>2 DEF HeadState
  <2> QED BY <2>1, <2>2
<1> HIDE DEF reset
<1>6. /\ ended \in HeadState
      /\ (ended.local <=> reset.local) /\ ~ended.remote
      /\ ended.outs = reset.outs
      /\ ended.inbox = IF reset.remote THEN Marked(reset) ELSE reset.inbox
      /\ ended.tx <=> (reset.tx /\ (reset.remote => s.rxOpen))
      /\ ended.alive = s.alive /\ ended.recvState = s.recvState
      /\ SameWindow(s, ended) /\ SameOutbox(s, ended) /\ SameReader(s, ended)
  BY <1>5, TryCloseRemoteEffect
<1>7. reset.remote => Marked(reset) = Marked(s)
  BY <1>5 DEF Marked, HeadState
<1> HIDE DEF ended
<1> QED BY <1>1, <1>2, <1>5, <1>6, <1>7

LEMMA MarkReceivedBytesEffect ==
  ASSUME NEW s \in HeadState, NEW n \in Nat
  PROVE  LET t == MarkReceivedBytes(s, n) IN
         /\ t \in HeadState
         /\ \/ /\ t.recv = s.recv + n /\ t.outs = s.outs
               /\ ~(t.recv + ChunkCapacity >= UpdateThreshold)
            \/ /\ t.recv = 0
               /\ t.outs = Append(s.outs, WindowUpdate({}, s.recv + n))
         /\ t.send = s.send
         /\ t.alive = s.alive /\ t.recvState = s.recvState
         /\ SameState(s, t) /\ SameInbox(s, t)
         /\ SameOutbox(s, t) /\ SameReader(s, t)
<1> DEFINE t == MarkReceivedBytes(s, n)
           recv == s.recv + n
<1> USE DEF SameState, SameInbox, SameOutbox, SameReader
<1>1. recv \in Nat
  BY DEF HeadState
<1>2. CASE recv + ChunkCapacity >= UpdateThreshold
  <2> DEFINE outs == Append(s.outs, WindowUpdate({}, recv))
  <2>1. t = [s EXCEPT !.recv = 0, !.outs = outs]
    BY <1>2 DEF MarkReceivedBytes
  <2>2. outs \in Seq(StreamEvent)
    <3>1. {} \in SUBSET Flag
      OBVIOUS
    <3> QED BY <1>1, <3>1, WindowUpdateType DEF HeadState
  <2> HIDE DEF outs, t
  <2>3. /\ t \in HeadState
        /\ t.recv = 0 /\ t.outs = outs /\ t.send = s.send
        /\ t.alive = s.alive /\ t.recvState = s.recvState
        /\ SameState(s, t) /\ SameInbox(s, t)
        /\ SameOutbox(s, t) /\ SameReader(s, t)
    BY <2>1, <2>2 DEF HeadState
  <2> QED BY <2>3 DEF t, outs
<1>3. CASE ~(recv + ChunkCapacity >= UpdateThreshold)
  <2>1. t = [s EXCEPT !.recv = recv]
    BY <1>3 DEF MarkReceivedBytes
  <2> HIDE DEF recv, t
  <2>2. /\ t \in HeadState
        /\ t.recv = recv /\ t.outs = s.outs /\ t.send = s.send
        /\ t.alive = s.alive /\ t.recvState = s.recvState
        /\ SameState(s, t) /\ SameInbox(s, t)
        /\ SameOutbox(s, t) /\ SameReader(s, t)
    BY <1>1, <2>1 DEF HeadState
  <2> QED BY <1>3, <2>2 DEF recv, t
<1> QED BY <1>2, <1>3

LEMMA OnDataEffect ==
  ASSUME NEW s \in HeadState, NEW flags \in SUBSET Flag, NEW size \in Nat,
         s.recvState = NoPayload
  PROVE  LET t == OnInput(s, Data(flags, size))
             h == HandleFlag(s, flags)
         IN  /\ t \in HeadState
             /\ t.recvState = size
             /\ t.outs = h.outs /\ t.alive = s.alive
             /\ SameState(h, t) /\ SameInbox(h, t)
             /\ SameWindow(s, t) /\ SameOutbox(s, t) /\ SameReader(s, t)
<1> DEFINE t == OnInput(s, Data(flags, size))
           h == HandleFlag(s, flags)
<1> USE DEF SameState, SameInbox, SameWindow, SameOutbox, SameReader
<1>1. t = OnData(s, Data(flags, size))
  BY DataType DEF OnInput, InputError
<1>2. t = [h EXCEPT !.recvState = size]
  BY <1>1, DataType DEF OnData
<1>3. h \in HeadState
  BY HandleFlagEffect
<1>4. h.alive = s.alive /\ SameWindow(s, h) /\ SameOutbox(s, h) /\ SameReader(s, h)
  BY HandleFlagEffect
<1> HIDE DEF h, t
<1>5. /\ t \in HeadState
      /\ t.recvState = size
      /\ t.outs = h.outs /\ t.alive = h.alive
      /\ SameState(h, t) /\ SameInbox(h, t)
      /\ SameWindow(h, t) /\ SameOutbox(h, t) /\ SameReader(h, t)
  BY <1>2, <1>3 DEF HeadState
<1> QED BY <1>4, <1>5 DEF h, t

LEMMA OnWindowUpdateEffect ==
  ASSUME NEW s \in HeadState, NEW flags \in SUBSET Flag, NEW delta \in Nat
  PROVE  LET t == OnInput(s, WindowUpdate(flags, delta))
             h == HandleFlag(s, flags)
         IN  /\ t \in HeadState
             /\ t.send = s.send + delta /\ t.recv = s.recv
             /\ t.recvState = s.recvState
             /\ t.outs = h.outs /\ t.alive = s.alive
             /\ SameState(h, t) /\ SameInbox(h, t)
             /\ SameOutbox(s, t) /\ SameReader(s, t)
<1> DEFINE t == OnInput(s, WindowUpdate(flags, delta))
           h == HandleFlag(s, flags)
           send == h.send + delta
<1> USE DEF SameState, SameInbox, SameWindow, SameOutbox, SameReader
<1>1. t = OnWindowUpdate(s, WindowUpdate(flags, delta))
  BY WindowUpdateType DEF OnInput, InputError
<1>2. t = [h EXCEPT !.send = send]
  BY <1>1, WindowUpdateType DEF OnWindowUpdate
<1>3. h \in HeadState /\ send \in Nat
  BY HandleFlagEffect DEF HeadState
<1>4. /\ h.alive = s.alive /\ h.recvState = s.recvState
      /\ SameWindow(s, h) /\ SameOutbox(s, h) /\ SameReader(s, h)
  BY HandleFlagEffect
<1> HIDE DEF h, t, send
<1>5. /\ t \in HeadState
      /\ t.send = send /\ t.recv = h.recv
      /\ t.recvState = h.recvState
      /\ t.outs = h.outs /\ t.alive = h.alive
      /\ SameState(h, t) /\ SameInbox(h, t)
      /\ SameOutbox(h, t) /\ SameReader(h, t)
  BY <1>2, <1>3 DEF HeadState
<1> QED BY <1>4, <1>5 DEF h, t, send

LEMMA OnDataChunkEffect ==
  ASSUME NEW s \in HeadState, NEW chunk \in Chunk,
         s.recvState \in Nat, Len(chunk) <= s.recvState
  PROVE  LET t == OnInput(s, DataChunk(chunk))
             n == Len(chunk)
         IN  /\ t \in HeadState
             /\ t.recvState = IF s.recvState = n THEN NoPayload
                                                 ELSE s.recvState - n
             /\ \/ /\ t.recv = s.recv + n /\ t.outs = s.outs
                   /\ ~(t.recv + ChunkCapacity >= UpdateThreshold)
                \/ /\ t.recv = 0
                   /\ t.outs = Append(s.outs, WindowUpdate({}, s.recv + n))
             /\ t.inbox = IF s.tx /\ s.rxOpen THEN Append(s.inbox, chunk)
                                              ELSE s.inbox
             /\ t.tx <=> s.tx /\ s.rxOpen
             /\ t.send = s.send /\ t.alive = s.alive
             /\ SameState(s, t) /\ SameOutbox(s, t) /\ SameReader(s, t)
<1> DEFINE t == OnInput(s, DataChunk(chunk))
           n == Len(chunk)
           remain == s.recvState - n
           state == IF remain = 0 THEN NoPayload ELSE remain
           delivered == ToUser(s, chunk)
           counted == [delivered EXCEPT !.recvState = state]
<1> USE DEF SameState, SameInbox, SameWindow, SameOutbox, SameReader
<1>1. n \in Nat /\ state \in Nat \cup {NoPayload}
      /\ state = IF s.recvState = n THEN NoPayload ELSE s.recvState - n
  BY DEF Chunk
<1>2. t = OnDataChunk(s, DataChunk(chunk))
  BY DataChunkType, NoPayloadAssumption DEF OnInput, InputError
<1>3. t = MarkReceivedBytes(counted, n)
  BY <1>2, DataChunkType DEF OnDataChunk
<1>4. /\ delivered \in HeadState
      /\ delivered.tx <=> s.tx /\ s.rxOpen
      /\ delivered.inbox = IF s.tx /\ s.rxOpen THEN Append(s.inbox, chunk)
                                               ELSE s.inbox
      /\ delivered.outs = s.outs /\ delivered.alive = s.alive
      /\ SameState(s, delivered) /\ SameWindow(s, delivered)
      /\ SameOutbox(s, delivered) /\ SameReader(s, delivered)
  BY ToUserEffect
<1> HIDE DEF n, state, delivered
<1>5. /\ counted \in HeadState
      /\ counted.recvState = state
      /\ counted.tx <=> s.tx /\ s.rxOpen
      /\ counted.inbox = IF s.tx /\ s.rxOpen THEN Append(s.inbox, chunk)
                                             ELSE s.inbox
      /\ counted.outs = s.outs /\ counted.alive = s.alive
      /\ SameState(s, counted) /\ SameWindow(s, counted)
      /\ SameOutbox(s, counted) /\ SameReader(s, counted)
  BY <1>1, <1>4 DEF HeadState
<1> HIDE DEF counted, t
<1>6. /\ t \in HeadState
      /\ t.recvState = state
      /\ \/ /\ t.recv = s.recv + n /\ t.outs = s.outs
            /\ ~(t.recv + ChunkCapacity >= UpdateThreshold)
         \/ /\ t.recv = 0
            /\ t.outs = Append(s.outs, WindowUpdate({}, s.recv + n))
      /\ t.send = s.send /\ t.alive = s.alive
      /\ t.inbox = counted.inbox /\ (t.tx <=> counted.tx)
      /\ SameState(s, t) /\ SameOutbox(s, t) /\ SameReader(s, t)
  <2>1. /\ t \in HeadState
        /\ \/ /\ t.recv = counted.recv + n /\ t.outs = counted.outs
              /\ ~(t.recv + ChunkCapacity >= UpdateThreshold)
           \/ /\ t.recv = 0
              /\ t.outs = Append(counted.outs,
                                 WindowUpdate({}, counted.recv + n))
        /\ t.send = counted.send
        /\ t.alive = counted.alive /\ t.recvState = counted.recvState
        /\ SameState(counted, t) /\ SameInbox(counted, t)
        /\ SameOutbox(counted, t) /\ SameReader(counted, t)
    BY <1>1, <1>3, <1>5, MarkReceivedBytesEffect
  <2>2. counted.recv = s.recv /\ counted.send = s.send
    BY <1>5
  <2> QED BY <1>5, <2>1, <2>2
<1> QED
  BY <1>1, <1>5, <1>6 DEF t, n

-----------------------------------------------------------------------------
\* The head: poll_next.

\* What a turn of the loop that fills outs may do: end the local half, or move
\* one chunk from the channel to outs.
Ending(s, t) ==
    /\ ~t.local /\ t.send = s.send
    /\ t.outs = IF s.local THEN Append(s.outs, Fin) ELSE s.outs
Moving(s, t) ==
    LET chunk == Head(s.outbox)
    IN  /\ chunk # <<>> /\ s.send >= ChunkCapacity
        /\ t.send = Subtract(s.send, Len(chunk))
        /\ t.outs = s.outs \o <<Data({}, Len(chunk)), DataChunk(chunk)>>
        /\ (t.local <=> s.local)
Turn(s, t) ==
    \/ /\ t.outbox = s.outbox /\ t.send = s.send /\ t.outs = s.outs
       /\ (t.local <=> s.local)
    \/ /\ s.outbox = <<>> /\ ~s.txOpen
       /\ t.outbox = s.outbox /\ Ending(s, t)
    \/ /\ s.outbox # <<>> /\ Head(s.outbox) = <<>>
       /\ t.outbox = Tail(s.outbox) /\ Ending(s, t)
    \/ s.outbox # <<>> /\ t.outbox = Tail(s.outbox) /\ Moving(s, t)

\* What no turn touches.
Kept(s, t) ==
    /\ (t.remote <=> s.remote) /\ t.recv = s.recv /\ t.recvState = s.recvState
    /\ t.alive = s.alive /\ t.txOpen = s.txOpen
    /\ SameInbox(s, t) /\ SameReader(s, t)

LEMMA KeptTransitive ==
  ASSUME NEW s, NEW t, NEW u, Kept(s, t), Kept(t, u)
  PROVE  Kept(s, u)
  BY DEF Kept, SameInbox, SameReader

LEMMA RestOfOutbox ==
  ASSUME NEW s \in HeadState, s.outbox # <<>>
  PROVE  LET t == [s EXCEPT !.outbox = Tail(@)] IN
         /\ t \in HeadState /\ t.outbox = Tail(s.outbox)
         /\ t.local = s.local /\ t.send = s.send /\ t.outs = s.outs
         /\ Kept(s, t)
         /\ Head(s.outbox) \in Chunk
<1>1. Tail(s.outbox) \in Seq(Chunk) /\ Head(s.outbox) \in Chunk
  BY DEF HeadState
<1> QED BY <1>1 DEF HeadState, Kept, SameInbox, SameReader

LEMMA SendDataEffect ==
  ASSUME NEW s \in HeadState, NEW chunk \in Chunk
  PROVE  LET t == SendData(s, chunk) IN
         /\ t \in HeadState /\ t.outbox = s.outbox /\ t.local = s.local
         /\ t.send = Subtract(s.send, Len(chunk))
         /\ t.outs = s.outs \o <<Data({}, Len(chunk)), DataChunk(chunk)>>
         /\ Kept(s, t)
<1> DEFINE send == Subtract(s.send, Len(chunk))
           outs == s.outs \o <<Data({}, Len(chunk)), DataChunk(chunk)>>
           t == SendData(s, chunk)
<1>1. t = [s EXCEPT !.send = send, !.outs = outs]
  BY DEF SendData
<1>2. send \in Nat
  BY DEF Subtract, HeadState, Chunk
<1>3. outs \in Seq(StreamEvent)
  <2>1. Data({}, Len(chunk)) \in StreamEvent /\ DataChunk(chunk) \in StreamEvent
    <3>1. {} \in SUBSET Flag /\ Len(chunk) \in Nat
      BY DEF Chunk
    <3> QED BY <3>1, DataType, DataChunkType
  <2>2. <<Data({}, Len(chunk)), DataChunk(chunk)>> \in Seq(StreamEvent)
    BY <2>1
  <2> QED BY <2>2 DEF HeadState
<1> HIDE DEF send, outs, t
<1>4. /\ t \in HeadState /\ t.outbox = s.outbox /\ t.local = s.local
      /\ t.send = send /\ t.outs = outs /\ Kept(s, t)
  BY <1>1, <1>2, <1>3 DEF HeadState, Kept, SameInbox, SameReader
<1> QED BY <1>4 DEF t, send, outs

LEMMA EndingEffect ==
  ASSUME NEW s \in HeadState
  PROVE  LET t == TryCloseLocal(s) IN
         t \in HeadState /\ Ending(s, t) /\ t.outbox = s.outbox /\ Kept(s, t)
  BY TryCloseLocalEffect
     DEF Ending, Kept, SameWindow, SameInbox, SameOutbox, SameReader

LEMMA TakeChunkEffect ==
  ASSUME NEW s \in HeadState
  PROVE  LET t == TakeChunk(s) IN
         t \in HeadState /\ Turn(s, t) /\ Kept(s, t)
<1> DEFINE t == TakeChunk(s)
           rest == [s EXCEPT !.outbox = Tail(@)]
           chunk == Head(s.outbox)
<1> SUFFICES t \in HeadState /\ Turn(s, t) /\ Kept(s, t)
  OBVIOUS
<1>1. \/ t = s
      \/ s.outbox = <<>> /\ ~s.txOpen /\ t = TryCloseLocal(s)
      \/ s.outbox # <<>> /\ chunk = <<>> /\ t = TryCloseLocal(rest)
      \/ /\ s.outbox # <<>> /\ chunk # <<>> /\ s.send >= ChunkCapacity
         /\ t = SendData(rest, chunk)
  BY ChunkAssumption DEF TakeChunk, HeadState
<1> HIDE DEF t
<1>2. CASE t = s
  BY <1>2 DEF Turn, Kept, SameInbox, SameReader
<1>3. CASE s.outbox = <<>> /\ ~s.txOpen /\ t = TryCloseLocal(s)
  BY <1>3, EndingEffect DEF Turn
<1>4. s.outbox # <<>> =>
         /\ rest \in HeadState /\ rest.outbox = Tail(s.outbox)
         /\ rest.local = s.local /\ rest.send = s.send /\ rest.outs = s.outs
         /\ Kept(s, rest) /\ chunk \in Chunk
  BY RestOfOutbox
<1> HIDE DEF rest
<1>5. CASE s.outbox # <<>> /\ chunk = <<>> /\ t = TryCloseLocal(rest)
  <2>1. /\ t \in HeadState /\ Ending(rest, t) /\ t.outbox = rest.outbox
        /\ Kept(rest, t)
    BY <1>4, <1>5, EndingEffect
  <2>2. Ending(s, t)
    BY <1>4, <1>5, <2>1 DEF Ending
  <2> QED BY <1>4, <1>5, <2>1, <2>2, KeptTransitive DEF Turn
<1>6. CASE /\ s.outbox # <<>> /\ chunk # <<>> /\ s.send >= ChunkCapacity
           /\ t = SendData(rest, chunk)
  <2>1. /\ t \in HeadState /\ t.outbox = rest.outbox /\ t.local = rest.local
        /\ t.send = Subtract(rest.send, Len(chunk))
        /\ t.outs = rest.outs \o <<Data({}, Len(chunk)), DataChunk(chunk)>>
        /\ Kept(rest, t)
    BY <1>4, <1>6, SendDataEffect
  <2>2. Moving(s, t)
    BY <1>4, <1>6, <2>1 DEF Moving
  <2> QED BY <1>4, <1>6, <2>1, <2>2, KeptTransitive DEF Turn
<1> QED BY <1>1, <1>2, <1>3, <1>5, <1>6

\* Filled is three turns, some or all of which may do nothing.
LEMMA FilledTurns ==
  ASSUME NEW s \in HeadState
  PROVE  \E one, two \in HeadState :
           /\ Turn(s, one) /\ Turn(one, two) /\ Turn(two, Filled(s))
           /\ Kept(s, one) /\ Kept(one, two) /\ Kept(two, Filled(s))
           /\ \/ s.outs = <<>> /\ ~IsClosed(s)
              \/ one = s /\ two = s /\ Filled(s) = s
<1>1. CASE s.outs = <<>> /\ ~IsClosed(s)
  <2> DEFINE one == TakeChunk(s)
             two == TakeChunk(one)
  <2>1. one \in HeadState /\ Turn(s, one) /\ Kept(s, one)
    BY TakeChunkEffect
  <2> HIDE DEF one
  <2>2. two \in HeadState /\ Turn(one, two) /\ Kept(one, two)
    BY <2>1, TakeChunkEffect
  <2> HIDE DEF two
  <2>3. Filled(s) = TakeChunk(two)
    BY <1>1 DEF Filled, Fill, one, two
  <2>4. Turn(two, Filled(s)) /\ Kept(two, Filled(s))
    BY <2>2, <2>3, TakeChunkEffect
  <2> QED BY <1>1, <2>1, <2>2, <2>4
<1>2. CASE ~(s.outs = <<>> /\ ~IsClosed(s))
  <2>1. Filled(s) = s
    BY <1>2 DEF Filled
  <2>2. Turn(s, s) /\ Kept(s, s)
    BY DEF Turn, Kept, SameInbox, SameReader
  <2> QED BY <2>1, <2>2
<1> QED BY <1>1, <1>2

LEMMA FilledEffect ==
  ASSUME NEW s \in HeadState
  PROVE  /\ Filled(s) \in HeadState /\ Kept(s, Filled(s))
         /\ Len(Filled(s).outbox) <= Len(s.outbox)
<1>1. Filled(s) \in HeadState
  <2>1. \A t \in HeadState : TakeChunk(t) \in HeadState
    BY TakeChunkEffect
  <2>2. Fill(s) \in HeadState
    BY <2>1 DEF Fill
  <2> QED BY <2>2 DEF Filled
<1>2. \A t, u \in HeadState : Turn(t, u) => Len(u.outbox) <= Len(t.outbox)
  <2> SUFFICES ASSUME NEW t \in HeadState, NEW u \in HeadState, Turn(t, u)
               PROVE  Len(u.outbox) <= Len(t.outbox)
    OBVIOUS
  <2>1. \/ u.outbox = t.outbox
        \/ t.outbox # <<>> /\ u.outbox = Tail(t.outbox)
    BY DEF Turn, Ending, Moving
  <2>2. t.outbox \in Seq(Chunk)
    BY DEF HeadState
  <2>3. t.outbox # <<>> => Len(Tail(t.outbox)) <= Len(t.outbox)
    BY <2>2
  <2>4. Len(t.outbox) \in Nat
    BY <2>2
  <2>5. CASE u.outbox = t.outbox
    BY <2>4, <2>5
  <2>6. CASE t.outbox # <<>> /\ u.outbox = Tail(t.outbox)
    BY <2>3, <2>6
  <2> QED BY <2>1, <2>5, <2>6
<1>3. PICK one, two \in HeadState :
         /\ Turn(s, one) /\ Turn(one, two) /\ Turn(two, Filled(s))
         /\ Kept(s, one) /\ Kept(one, two) /\ Kept(two, Filled(s))
  BY FilledTurns
<1>4. Kept(s, Filled(s))
  BY <1>3, KeptTransitive
<1>5. /\ Len(Filled(s).outbox) <= Len(two.outbox)
      /\ Len(two.outbox) <= Len(one.outbox) /\ Len(one.outbox) <= Len(s.outbox)
  BY <1>1, <1>2, <1>3
<1>6. \A t \in HeadState : Len(t.outbox) \in Nat
  BY DEF HeadState
<1>7. Len(Filled(s).outbox) <= Len(s.outbox)
  BY <1>1, <1>3, <1>5, <1>6
<1> QED BY <1>1, <1>4, <1>7

LEMMA PolledEffect ==
  ASSUME NEW s \in HeadState
  PROVE  LET f == Filled(s)
             t == Polled(s)
         IN  /\ t \in HeadState /\ Kept(s, t)
             /\ SameState(f, t) /\ SameOutbox(f, t) /\ t.send = f.send
             /\ PollsItem(s) => /\ f.outs # <<>> /\ t.outs = Tail(f.outs)
                                /\ PolledItem(s) = Head(f.outs)
                                /\ PolledItem(s) \in StreamEvent
             /\ ~PollsItem(s) => t = f /\ t.outs = <<>>
<1> DEFINE f == Filled(s)
           t == Polled(s)
<1>1. f \in HeadState /\ Kept(s, f)
  BY FilledEffect
<1>2. CASE f.outs = <<>>
  BY <1>1, <1>2 DEF Polled, PollsItem, SameState, SameOutbox
<1>3. CASE f.outs # <<>>
  <2>1. t = [f EXCEPT !.outs = Tail(f.outs)]
    BY <1>3 DEF Polled
  <2>2. /\ PollsItem(s) /\ PolledItem(s) = Head(f.outs)
    BY <1>3 DEF PollsItem, PolledItem
  <2> HIDE DEF f, t
  <2>3. Tail(f.outs) \in Seq(StreamEvent) /\ Head(f.outs) \in StreamEvent
    BY <1>1, <1>3 DEF HeadState
  <2>4. /\ t \in HeadState /\ Kept(f, t) /\ SameState(f, t)
        /\ SameOutbox(f, t) /\ t.send = f.send /\ t.outs = Tail(f.outs)
    BY <1>1, <2>1, <2>3
       DEF HeadState, Kept, SameState, SameOutbox, SameInbox, SameReader
  <2>5. Kept(s, t)
    BY <1>1, <2>4, KeptTransitive
  <2> QED BY <1>3, <2>2, <2>3, <2>4, <2>5 DEF f, t
<1> QED BY <1>2, <1>3

LEMMA RemoveHeadEffect ==
  ASSUME NEW s \in HeadState
  PROVE  LET t == RemoveHead(s) IN
         /\ t \in HeadState
         /\ ~t.alive /\ t.outs = <<>> /\ t.outbox = <<>>
         /\ t.txOpen = s.txOpen /\ t.recvState = s.recvState
         /\ SameState(s, t) /\ SameWindow(s, t)
         /\ SameInbox(s, t) /\ SameReader(s, t)
<1> DEFINE t == RemoveHead(s)
<1>1. t = [s EXCEPT !.alive = FALSE, !.outs = <<>>, !.outbox = <<>>]
  BY DEF RemoveHead
<1>2. <<>> \in Seq(StreamEvent) /\ <<>> \in Seq(Chunk)
  OBVIOUS
<1> QED BY <1>1, <1>2
        DEF HeadState, SameState, SameWindow, SameInbox, SameReader

-----------------------------------------------------------------------------
\* The handle.

LEMMA TruncatedType ==
  ASSUME NEW buf \in Chunk
  PROVE  /\ Truncated(buf) \in Chunk /\ Len(Truncated(buf)) <= ChunkCapacity
         /\ Truncated(buf) = <<>> => buf = <<>>
<1>1. CASE Len(buf) <= ChunkCapacity
  BY <1>1 DEF Truncated, Chunk
<1>2. CASE Len(buf) > ChunkCapacity
  <2>1. /\ ChunkCapacity \in Nat \ {0} /\ 1 \in 1..Len(buf)
        /\ ChunkCapacity \in 1..Len(buf)
    BY <1>2, ChunkAssumption DEF Chunk
  <2>2. Truncated(buf) = SubSeq(buf, 1, ChunkCapacity)
    BY <1>2, <2>1 DEF Truncated, Chunk
  <2>3. /\ SubSeq(buf, 1, ChunkCapacity) \in Seq(Byte)
        /\ Len(SubSeq(buf, 1, ChunkCapacity)) = ChunkCapacity
    BY <1>2, <2>1 DEF Chunk
  <2> QED BY <2>1, <2>2, <2>3 DEF Chunk
<1> QED BY <1>1, <1>2, ChunkAssumption DEF Chunk

\* Nothing of the head's own is touched.
HeadKept(s, t) ==
    /\ SameState(s, t) /\ SameWindow(s, t) /\ t.outs = s.outs
    /\ t.recvState = s.recvState /\ (t.tx <=> s.tx) /\ t.alive = s.alive

LEMMA PollWriteEffect ==
  ASSUME NEW s \in HeadState, NEW buf \in Chunk
  PROVE  LET t == PollWrite(s, buf) IN
         /\ t \in HeadState
         /\ t.outbox = Append(s.outbox, Truncated(buf)) /\ t.txOpen = s.txOpen
         /\ t.inbox = s.inbox /\ SameReader(s, t) /\ HeadKept(s, t)
<1> DEFINE outbox == Append(s.outbox, Truncated(buf))
           t == PollWrite(s, buf)
<1> SUFFICES /\ t \in HeadState /\ t.outbox = outbox
             /\ t.txOpen = s.txOpen
             /\ t.inbox = s.inbox /\ SameReader(s, t) /\ HeadKept(s, t)
  OBVIOUS
<1>1. t = [s EXCEPT !.outbox = outbox]
  BY DEF PollWrite
<1>2. outbox \in Seq(Chunk)
  BY TruncatedType DEF HeadState
<1> HIDE DEF outbox, t
<1> QED BY <1>1, <1>2
        DEF HeadState, HeadKept, SameState, SameWindow, SameReader

LEMMA PollCloseEffect ==
  ASSUME NEW s \in HeadState
  PROVE  LET t == PollClose(s) IN
         /\ t \in HeadState
         /\ t.outbox = s.outbox /\ ~t.txOpen
         /\ t.inbox = s.inbox /\ SameReader(s, t) /\ HeadKept(s, t)
  BY DEF PollClose, HeadState, HeadKept, SameState, SameWindow, SameReader

LEMMA DropHandleEffect ==
  ASSUME NEW s \in HeadState
  PROVE  LET t == DropHandle(s) IN
         /\ t \in HeadState
         /\ t.outbox = s.outbox /\ ~t.txOpen
         /\ t.inbox = <<>> /\ ~t.rxOpen /\ t.reading = <<>> /\ HeadKept(s, t)
<1>1. <<>> \in Seq(Chunk)
  OBVIOUS
<1> QED BY <1>1, EmptyChunk
        DEF DropHandle, HeadState, HeadKept, SameState, SameWindow

LEMMA LoadedEffect ==
  ASSUME NEW s \in HeadState
  PROVE  LET t == Loaded(s) IN
         /\ t \in HeadState
         /\ IF s.reading # <<>> \/ s.inbox = <<>>
            THEN t.reading = s.reading /\ t.inbox = s.inbox
            ELSE t.reading = Head(s.inbox) /\ t.inbox = Tail(s.inbox)
         /\ SameOutbox(s, t) /\ t.rxOpen = s.rxOpen /\ HeadKept(s, t)
<1> USE DEF HeadKept, SameState, SameWindow, SameOutbox
<1>1. CASE s.reading # <<>> \/ s.inbox = <<>>
  BY <1>1 DEF Loaded
<1>2. CASE ~(s.reading # <<>> \/ s.inbox = <<>>)
  <2>1. Head(s.inbox) \in Chunk /\ Tail(s.inbox) \in Seq(Chunk)
    BY <1>2 DEF HeadState
  <2>2. Loaded(s) = [s EXCEPT !.reading = Head(s.inbox), !.inbox = Tail(s.inbox)]
    BY <1>2 DEF Loaded
  <2> QED BY <1>2, <2>1, <2>2 DEF HeadState
<1> QED BY <1>1, <1>2

LEMMA PollReadEffect ==
  ASSUME NEW s \in HeadState, NEW room \in Nat
  PROVE  LET t == PollRead(s, room)
             loaded == Loaded(s)
         IN  /\ t \in HeadState
             /\ t.inbox = loaded.inbox
             /\ loaded.reading = <<>> => t.reading = <<>>
             /\ SameOutbox(s, t) /\ t.rxOpen = s.rxOpen /\ HeadKept(s, t)
<1> DEFINE t == PollRead(s, room)
           loaded == Loaded(s)
           reading == SubSeq(loaded.reading, ReadLen(s, room) + 1,
                             Len(loaded.reading))
<1> SUFFICES /\ t \in HeadState /\ t.inbox = loaded.inbox
             /\ loaded.reading = <<>> => t.reading = <<>>
             /\ SameOutbox(s, t) /\ t.rxOpen = s.rxOpen /\ HeadKept(s, t)
  OBVIOUS
<1>1. t = [loaded EXCEPT !.reading = reading]
  BY DEF PollRead
<1>2. /\ loaded \in HeadState
      /\ SameOutbox(s, loaded) /\ loaded.rxOpen = s.rxOpen
      /\ HeadKept(s, loaded)
  BY LoadedEffect
<1>3. loaded.reading \in Seq(Byte)
  BY <1>2 DEF HeadState, Chunk
<1>4. ReadLen(s, room) \in 0..Len(loaded.reading)
  BY <1>3 DEF ReadLen
<1> HIDE DEF loaded, t
<1>5. /\ reading \in Seq(Byte)
      /\ loaded.reading = <<>> => reading = <<>>
  BY <1>3, <1>4
<1> HIDE DEF reading
<1>6. /\ t \in HeadState /\ t.inbox = loaded.inbox /\ t.reading = reading
      /\ SameOutbox(loaded, t) /\ t.rxOpen = loaded.rxOpen /\ HeadKept(loaded, t)
  BY <1>1, <1>2, <1>5
     DEF HeadState, Chunk, SameOutbox, HeadKept, SameState, SameWindow
<1> QED BY <1>2, <1>5, <1>6 DEF SameOutbox, HeadKept, SameState, SameWindow

-----------------------------------------------------------------------------
\* The channel from the handle.

\* poll_write cuts what it takes to a chunk.
OutboxBounded(outbox) ==
    \A i \in 1..Len(outbox) : Len(outbox[i]) <= ChunkCapacity

LEMMA BoundedTail ==
  ASSUME NEW outbox \in Seq(Chunk), outbox # <<>>, OutboxBounded(outbox)
  PROVE  OutboxBounded(Tail(outbox)) /\ Len(Head(outbox)) <= ChunkCapacity
<1> DEFINE n == Len(outbox) - 1
<1>1. n \in Nat /\ Len(outbox) = n + 1 /\ Head(outbox) = outbox[1]
  OBVIOUS
<1>2. Len(Tail(outbox)) = n
  OBVIOUS
<1>3. \A i \in 1..n : Tail(outbox)[i] = outbox[i + 1]
  BY <1>1
<1> HIDE DEF n
<1> QED BY <1>1, <1>2, <1>3 DEF OutboxBounded

LEMMA BoundedAppend ==
  ASSUME NEW outbox \in Seq(Chunk), NEW chunk \in Chunk,
         OutboxBounded(outbox), Len(chunk) <= ChunkCapacity
  PROVE  OutboxBounded(Append(outbox, chunk))
<1> DEFINE after == Append(outbox, chunk)
<1>1. /\ Len(after) = Len(outbox) + 1 /\ after[Len(outbox) + 1] = chunk
      /\ \A i \in 1..Len(outbox) : after[i] = outbox[i]
  OBVIOUS
<1>2. Len(outbox) \in Nat
  OBVIOUS
<1> HIDE DEF after
<1>3. OutboxBounded(after)
  BY <1>1, <1>2 DEF OutboxBounded
<1> QED BY <1>3 DEF after

NoEmpty(outbox) == \A i \in 1..Len(outbox) : outbox[i] # <<>>

LEMMA NoEmptyTail ==
  ASSUME NEW outbox \in Seq(Chunk), NoEmpty(outbox), outbox # <<>>
  PROVE  Head(outbox) # <<>> /\ NoEmpty(Tail(outbox))
<1> DEFINE n == Len(outbox) - 1
<1>1. n \in Nat /\ Len(outbox) = n + 1 /\ Head(outbox) = outbox[1]
  OBVIOUS
<1>2. Len(Tail(outbox)) = n
  OBVIOUS
<1>3. \A i \in 1..n : Tail(outbox)[i] = outbox[i + 1]
  BY <1>1
<1> HIDE DEF n
<1> QED BY <1>1, <1>2, <1>3 DEF NoEmpty

LEMMA NoEmptyAppend ==
  ASSUME NEW outbox \in Seq(Chunk), NoEmpty(outbox),
         NEW chunk \in Chunk, chunk # <<>>
  PROVE  NoEmpty(Append(outbox, chunk))
<1> DEFINE after == Append(outbox, chunk)
<1>1. /\ Len(after) = Len(outbox) + 1 /\ after[Len(outbox) + 1] = chunk
      /\ \A i \in 1..Len(outbox) : after[i] = outbox[i]
  OBVIOUS
<1>2. Len(outbox) \in Nat
  OBVIOUS
<1> HIDE DEF after
<1>3. NoEmpty(after)
  BY <1>1, <1>2 DEF NoEmpty
<1> QED BY <1>3 DEF after

-----------------------------------------------------------------------------
\* The framing of what the head queues.

LEMMA FramedUpdate ==
  ASSUME NEW outs \in Seq(StreamEvent), NEW left, Framed(outs, left),
         NEW event \in StreamEvent, event.kind = "WindowUpdate"
  PROVE  Framed(Append(outs, event), left)
<1> DEFINE after == Append(outs, event)
           n == Len(outs)
<1>1. /\ n \in Nat /\ Len(after) = n + 1 /\ after[n + 1] = event
      /\ \A i \in 1..n : after[i] = outs[i]
  OBVIOUS
<1>3. outs # <<>> => n >= 1
  OBVIOUS
<1>4. n = Len(outs)
  OBVIOUS
<1> HIDE DEF after, n
<1>2. after # <<>>
  BY <1>1
<1>5. ASSUME NEW i \in 1..n + 1
      PROVE  /\ after[i].kind = "Data" =>
                   /\ i < n + 1 /\ after[i + 1].kind = "DataChunk"
                   /\ Len(after[i + 1].chunk) = after[i].size
             /\ after[i].kind = "DataChunk" =>
                   IF i = 1 THEN left # NoPayload ELSE after[i - 1].kind = "Data"
  <2>1. CASE i = n + 1
    BY <1>1, <2>1
  <2>2. CASE i \in 1..n
    <3>1. after[i] = outs[i]
      BY <1>1, <2>2
    <3>2. i # 1 => after[i - 1] = outs[i - 1]
      BY <1>1, <2>2
    <3>3. i < n => after[i + 1] = outs[i + 1]
      BY <1>1, <2>2
    <3> QED BY <1>1, <1>4, <2>2, <3>1, <3>2, <3>3 DEF Framed
  <2> QED BY <1>1, <2>1, <2>2
<1>6. left # NoPayload => /\ after[1].kind = "DataChunk"
                          /\ Len(after[1].chunk) = left
  BY <1>1, <1>3 DEF Framed
<1> QED BY <1>1, <1>2, <1>5, <1>6 DEF Framed, after

LEMMA FramedData ==
  ASSUME NEW outs \in Seq(StreamEvent), NEW left, Framed(outs, left),
         NEW chunk \in Chunk
  PROVE  Framed(outs \o <<Data({}, Len(chunk)), DataChunk(chunk)>>, left)
<1> DEFINE header == Data({}, Len(chunk))
           payload == DataChunk(chunk)
           after == outs \o <<header, payload>>
           n == Len(outs)
<1>1. Len(chunk) \in Nat
  BY DEF Chunk
<1>2. /\ header \in StreamEvent /\ header.kind = "Data"
      /\ header.size = Len(chunk)
  <2>1. PICK flags \in SUBSET Flag, size \in Nat : flags = {} /\ size = Len(chunk)
    BY <1>1
  <2> QED BY <2>1, DataType
<1>3. /\ payload \in StreamEvent /\ payload.kind = "DataChunk"
      /\ payload.chunk = chunk
  BY DataChunkType
<1> HIDE DEF header, payload
<1>4. /\ n \in Nat /\ Len(after) = n + 2
      /\ after[n + 1] = header /\ after[n + 2] = payload
      /\ \A i \in 1..n : after[i] = outs[i]
  BY <1>2, <1>3
<1>5. after # <<>>
  BY <1>2, <1>3
<1>6. outs # <<>> => n >= 1
  OBVIOUS
<1>7. n = Len(outs)
  OBVIOUS
<1> HIDE DEF after, n
<1>8. ASSUME NEW i \in 1..n + 2
      PROVE  /\ after[i].kind = "Data" =>
                   /\ i < n + 2 /\ after[i + 1].kind = "DataChunk"
                   /\ Len(after[i + 1].chunk) = after[i].size
             /\ after[i].kind = "DataChunk" =>
                   IF i = 1 THEN left # NoPayload ELSE after[i - 1].kind = "Data"
  <2>1. CASE i = n + 2
    BY <1>2, <1>3, <1>4, <2>1
  <2>2. CASE i = n + 1
    BY <1>2, <1>3, <1>4, <2>2
  <2>3. CASE i \in 1..n
    <3>1. after[i] = outs[i]
      BY <1>4, <2>3
    <3>2. i # 1 => after[i - 1] = outs[i - 1]
      BY <1>4, <2>3
    <3>3. i < n => after[i + 1] = outs[i + 1]
      BY <1>4, <2>3
    <3> QED BY <1>4, <1>7, <2>3, <3>1, <3>2, <3>3 DEF Framed
  <2> QED BY <1>4, <2>1, <2>2, <2>3
<1>9. left # NoPayload => /\ after[1].kind = "DataChunk"
                          /\ Len(after[1].chunk) = left
  BY <1>4, <1>6 DEF Framed
<1> QED BY <1>4, <1>5, <1>8, <1>9 DEF Framed, after, header, payload

\* What a sent frame leaves owed.
Owed(event, left) ==
    CASE event.kind = "Data" -> event.size
      [] event.kind = "DataChunk" -> NoPayload
      [] event.kind = "WindowUpdate" -> left

LEMMA FramedTail ==
  ASSUME NEW outs \in Seq(StreamEvent), NEW left, Framed(outs, left),
         outs # <<>>
  PROVE  Framed(Tail(outs), Owed(Head(outs), left))
<1> DEFINE after == Tail(outs)
           n == Len(outs) - 1
           owed == Owed(Head(outs), left)
<1>1. /\ n \in Nat /\ Len(after) = n /\ Len(outs) = n + 1
      /\ Head(outs) = outs[1] /\ outs[1] \in StreamEvent
      /\ \A i \in 1..n : after[i] = outs[i + 1]
  <2>1. Len(outs) \in Nat /\ Len(outs) >= 1
    OBVIOUS
  <2>2. n \in Nat /\ Len(outs) = n + 1
    BY <2>1
  <2>3. Head(outs) = outs[1] /\ outs[1] \in StreamEvent
    BY <2>1
  <2>4. Len(after) = n
    OBVIOUS
  <2>5. \A i \in 1..n : after[i] = outs[i + 1]
    BY <2>1
  <2> QED BY <2>2, <2>3, <2>4, <2>5
<1>2. /\ owed # NoPayload => outs[1].kind = "Data" /\ owed = outs[1].size
      /\ outs[1].kind = "Data" => owed # NoPayload
  <2>1. CASE outs[1].kind = "Data"
    BY <1>1, <2>1, EventType, NoPayloadAssumption DEF Owed
  <2>2. CASE outs[1].kind = "DataChunk"
    BY <1>1, <2>2 DEF Owed
  <2>3. CASE outs[1].kind = "WindowUpdate"
    <3>1. left = NoPayload
      BY <2>3 DEF Framed
    <3> QED BY <1>1, <2>3, <3>1 DEF Owed
  <2> QED BY <1>1, <2>1, <2>2, <2>3, EventType
<1> HIDE DEF after, n, owed
<1>3. ASSUME NEW i \in 1..n
      PROVE  /\ after[i].kind = "Data" =>
                   /\ i < n /\ after[i + 1].kind = "DataChunk"
                   /\ Len(after[i + 1].chunk) = after[i].size
             /\ after[i].kind = "DataChunk" =>
                   IF i = 1 THEN owed # NoPayload ELSE after[i - 1].kind = "Data"
  <2> DEFINE j == i + 1
  <2>1. /\ j \in 1..Len(outs) /\ j # 1 /\ after[i] = outs[j]
        /\ j < Len(outs) => i < n /\ after[i + 1] = outs[j + 1]
        /\ IF i = 1 THEN outs[j - 1] = outs[1] ELSE after[i - 1] = outs[j - 1]
    BY <1>1
  <2> HIDE DEF j
  <2>2. /\ outs[j].kind = "Data" =>
              /\ j < Len(outs) /\ outs[j + 1].kind = "DataChunk"
              /\ Len(outs[j + 1].chunk) = outs[j].size
        /\ outs[j].kind = "DataChunk" => outs[j - 1].kind = "Data"
    BY <2>1 DEF Framed
  <2> QED BY <1>2, <2>1, <2>2
<1>4. owed # NoPayload => /\ after # <<>> /\ after[1].kind = "DataChunk"
                          /\ Len(after[1].chunk) = owed
  <2> SUFFICES ASSUME owed # NoPayload
               PROVE  /\ after # <<>> /\ after[1].kind = "DataChunk"
                      /\ Len(after[1].chunk) = owed
    OBVIOUS
  <2>1. /\ 1 < Len(outs) /\ outs[1 + 1].kind = "DataChunk"
        /\ Len(outs[1 + 1].chunk) = outs[1].size
    BY <1>1, <1>2 DEF Framed
  <2>2. after # <<>> /\ after[1] = outs[1 + 1]
    <3>1. n >= 1
      BY <1>1, <2>1
    <3>2. Len(after) # 0
      BY <1>1, <3>1
    <3> QED BY <1>1, <3>1, <3>2
  <2> QED BY <1>2, <2>1, <2>2
<1> QED BY <1>1, <1>3, <1>4 DEF Framed, after, owed

LEMMA FramedTurn ==
  ASSUME NEW s \in HeadState, NEW t \in HeadState, Turn(s, t),
         NEW left, Framed(s.outs, left)
  PROVE  Framed(t.outs, left)
<1>1. s.outs \in Seq(StreamEvent)
  BY DEF HeadState
<1>2. CASE t.outs = s.outs
  BY <1>2
<1>3. CASE t.outs = Append(s.outs, Fin)
  BY <1>1, <1>3, FinType, FramedUpdate
<1>4. CASE s.outbox # <<>> /\ Moving(s, t)
  <2>1. Head(s.outbox) \in Chunk
    BY <1>4, RestOfOutbox
  <2> QED BY <1>1, <1>4, <2>1, FramedData DEF Moving
<1> QED BY <1>2, <1>3, <1>4 DEF Turn, Ending

LEMMA FramedFilled ==
  ASSUME NEW s \in HeadState, NEW left, Framed(s.outs, left)
  PROVE  Framed(Filled(s).outs, left)
<1>1. PICK one, two \in HeadState :
         Turn(s, one) /\ Turn(one, two) /\ Turn(two, Filled(s))
  BY FilledTurns
<1>2. Filled(s) \in HeadState
  BY FilledEffect
<1>3. Framed(one.outs, left)
  BY <1>1, FramedTurn
<1>4. Framed(two.outs, left)
  BY <1>1, <1>3, FramedTurn
<1> QED BY <1>1, <1>2, <1>4, FramedTurn

-----------------------------------------------------------------------------
\* A frame that the peer sends only ever makes the head queue a window update
\* or a FIN.
QueuesUpdate(s, t) ==
    \/ t.outs = s.outs /\ (s.local <=> t.local)
    \/ \E event \in StreamEvent :
          /\ event.kind = "WindowUpdate" /\ event.flags \subseteq {"FIN"}
          /\ t.outs = Append(s.outs, event)
          /\ IF HasFin(event) THEN s.local /\ ~t.local ELSE s.local <=> t.local

LEMMA FlagQueues ==
  ASSUME NEW s \in HeadState, NEW flags \in SUBSET Flag, NEW t,
         t.outs = HandleFlag(s, flags).outs,
         t.local <=> HandleFlag(s, flags).local
  PROVE  QueuesUpdate(s, t)
<1>1. CASE s.local /\ "RST" \in flags
  <2>1. t.outs = Append(s.outs, Fin) /\ ~t.local
    BY <1>1, HandleFlagEffect
  <2>2. HasFin(Fin)
    BY FinType DEF HasFin, EventFlags
  <2> QED BY <1>1, <2>1, <2>2, FinType DEF QueuesUpdate
<1>2. CASE ~(s.local /\ "RST" \in flags)
  BY <1>2, HandleFlagEffect DEF QueuesUpdate
<1> QED BY <1>1, <1>2

LEMMA ChunkQueues ==
  ASSUME NEW s \in HeadState, NEW t, NEW n \in Nat,
         t.outs = Append(s.outs, WindowUpdate({}, s.recv + n)),
         s.local <=> t.local
  PROVE  QueuesUpdate(s, t)
<1>1. s.recv + n \in Nat
  BY DEF HeadState
<1>2. PICK flags \in SUBSET Flag, delta \in Nat :
         flags = {} /\ delta = s.recv + n
  BY <1>1
<1>3. /\ WindowUpdate(flags, delta) \in StreamEvent
      /\ WindowUpdate(flags, delta).kind = "WindowUpdate"
      /\ WindowUpdate(flags, delta).flags = {}
  BY <1>2, WindowUpdateType
<1> QED BY <1>2, <1>3 DEF QueuesUpdate, HasFin, EventFlags

\* on_input, whatever the frame, and whether or not the head accepts it.
LEMMA OnInputEffect ==
  ASSUME NEW s \in HeadState, NEW event \in StreamEvent
  PROVE  LET t == OnInput(s, event) IN
         /\ t \in HeadState /\ QueuesUpdate(s, t)
         /\ t.alive = s.alive /\ SameOutbox(s, t)
<1> DEFINE t == OnInput(s, event)
<1>1. CASE InputError(s, event)
  <2>1. t = s
    <3>1. event.kind # "WindowUpdate"
      BY <1>1 DEF InputError
    <3> QED BY <1>1, <3>1 DEF OnInput
  <2>2. QueuesUpdate(s, s) /\ SameOutbox(s, s)
    BY DEF QueuesUpdate, SameOutbox
  <2> HIDE DEF t
  <2>3. t \in HeadState /\ QueuesUpdate(s, t) /\ t.alive = s.alive
        /\ SameOutbox(s, t)
    BY <2>1, <2>2
  <2> QED BY <2>3 DEF t
<1>2. CASE ~InputError(s, event) /\ event \in DataEvent
  <2>1. PICK flags \in SUBSET Flag, size \in Nat : event = Data(flags, size)
    BY <1>2 DEF DataEvent, Data
  <2>2. s.recvState = NoPayload
    BY <1>2 DEF InputError, DataEvent
  <2>3. /\ t \in HeadState /\ t.alive = s.alive /\ SameOutbox(s, t)
        /\ t.outs = HandleFlag(s, flags).outs
        /\ t.local <=> HandleFlag(s, flags).local
    BY <2>1, <2>2, OnDataEffect DEF SameState
  <2> HIDE DEF t
  <2>4. QueuesUpdate(s, t)
    BY <2>3, FlagQueues
  <2> QED BY <2>3, <2>4 DEF t
<1>3. CASE ~InputError(s, event) /\ event \in ChunkEvent
  <2>1. PICK chunk \in Chunk : event = DataChunk(chunk)
    BY <1>3 DEF ChunkEvent, DataChunk
  <2>2. s.recvState \in Nat /\ Len(chunk) <= s.recvState /\ Len(chunk) \in Nat
    <3>1. event.kind = "DataChunk" /\ event.chunk = chunk
      BY <2>1, DataChunkType
    <3>2. s.recvState # NoPayload /\ ~(s.recvState < Len(chunk))
      BY <1>3, <3>1 DEF InputError
    <3>3. s.recvState \in Nat /\ Len(chunk) \in Nat
      BY <3>2 DEF HeadState, Chunk
    <3> QED BY <3>2, <3>3
  <2>3. /\ t \in HeadState /\ t.alive = s.alive /\ SameOutbox(s, t)
        /\ s.local <=> t.local
        /\ \/ t.outs = s.outs
           \/ t.outs = Append(s.outs, WindowUpdate({}, s.recv + Len(chunk)))
    BY <2>1, <2>2, OnDataChunkEffect DEF SameState
  <2> HIDE DEF t
  <2>4. QueuesUpdate(s, t)
    BY <2>2, <2>3, ChunkQueues DEF QueuesUpdate
  <2> QED BY <2>3, <2>4 DEF t
<1>4. CASE event \in UpdateEvent
  <2>1. PICK flags \in SUBSET Flag, delta \in Nat :
           event = WindowUpdate(flags, delta)
    BY <1>4 DEF UpdateEvent, WindowUpdate
  <2>2. /\ t \in HeadState /\ t.alive = s.alive /\ SameOutbox(s, t)
        /\ t.outs = HandleFlag(s, flags).outs
        /\ t.local <=> HandleFlag(s, flags).local
    BY <2>1, OnWindowUpdateEffect DEF SameState
  <2> HIDE DEF t
  <2>3. QueuesUpdate(s, t)
    BY <2>2, FlagQueues
  <2> QED BY <2>2, <2>3 DEF t
<1> QED BY <1>1, <1>2, <1>3, <1>4 DEF StreamEvent

LEMMA FramedQueues ==
  ASSUME NEW s \in HeadState, NEW t, NEW left, Framed(s.outs, left),
         QueuesUpdate(s, t)
  PROVE  Framed(t.outs, left)
<1>1. s.outs \in Seq(StreamEvent)
  BY DEF HeadState
<1> QED BY <1>1, FramedUpdate DEF QueuesUpdate

\* What a queue that holds one update, or nothing, owes.
LEMMA FramedNew ==
  /\ Framed(<<>>, NoPayload)
  /\ \A event \in StreamEvent :
        event.kind = "WindowUpdate" => Framed(<<event>>, NoPayload)
<1>1. Framed(<<>>, NoPayload)
  BY DEF Framed
<1>2. ASSUME NEW event \in StreamEvent, event.kind = "WindowUpdate"
      PROVE  Framed(<<event>>, NoPayload)
  BY <1>2 DEF Framed
<1> QED BY <1>1, <1>2

-----------------------------------------------------------------------------
\* What the head has to send, as bytes and credit.

\* A turn of the loop charges the window for the payload it queues.
LEMMA TurnTotals ==
  ASSUME NEW s \in HeadState, NEW t \in HeadState, Turn(s, t)
  PROVE  /\ Credit(t.outs) = Credit(s.outs)
         /\ OutboxBounded(s.outbox) =>
               /\ t.send + Payload(t.outs) = s.send + Payload(s.outs)
               /\ OutboxBounded(t.outbox)
<1>1. /\ s.outs \in Seq(StreamEvent) /\ s.outbox \in Seq(Chunk)
      /\ s.send \in Nat /\ Credit(s.outs) \in Nat /\ Payload(s.outs) \in Nat
  BY TotalsType DEF HeadState
<1>2. s.outbox # <<>> /\ OutboxBounded(s.outbox) =>
         /\ OutboxBounded(Tail(s.outbox)) /\ Len(Head(s.outbox)) <= ChunkCapacity
  BY <1>1, BoundedTail
<1>3. CASE t.outbox = s.outbox /\ t.send = s.send /\ t.outs = s.outs
  BY <1>3
<1>4. CASE /\ t.outbox = s.outbox \/ (s.outbox # <<>> /\ t.outbox = Tail(s.outbox))
           /\ Ending(s, t)
  <2>1. Payload(t.outs) = Payload(s.outs) /\ Credit(t.outs) = Credit(s.outs)
    <3>1. CASE s.local
      <4>1. t.outs = Append(s.outs, Fin)
        BY <1>4, <3>1 DEF Ending
      <4>2. /\ Payload(t.outs) = Payload(s.outs) + 0
            /\ Credit(t.outs) = Credit(s.outs) + 0
        BY <1>1, <4>1, FinType, OfEvents, TotalsAppend
      <4> QED BY <1>1, <4>2
    <3>2. CASE ~s.local
      BY <1>4, <3>2 DEF Ending
    <3> QED BY <3>1, <3>2
  <2> QED BY <1>2, <1>4, <2>1 DEF Ending
<1>5. CASE s.outbox # <<>> /\ t.outbox = Tail(s.outbox) /\ Moving(s, t)
  <2> DEFINE chunk == Head(s.outbox)
             header == Data({}, Len(chunk))
             payload == DataChunk(chunk)
             half == Append(s.outs, header)
             n == Len(chunk)
  <2>1. chunk \in Chunk /\ n \in Nat
    BY <1>1, <1>5 DEF Chunk
  <2>2. {} \in SUBSET Flag
    OBVIOUS
  <2>3. header \in StreamEvent /\ PayloadOf(header) = 0 /\ CreditOf(header) = 0
    BY <2>1, <2>2, DataType, OfEvents
  <2>4. /\ payload \in StreamEvent /\ PayloadOf(payload) = n
        /\ CreditOf(payload) = 0
    BY <2>1, DataChunkType, OfEvents
  <2> HIDE DEF header, payload
  <2>5. s.outs \o <<header, payload>> = Append(half, payload)
    BY <1>1, <2>3, <2>4
  <2>6. t.outs = Append(half, payload)
    BY <1>5, <2>5 DEF Moving, header, payload
  <2>7. half \in Seq(StreamEvent)
    BY <1>1, <2>3
  <2>8. /\ Payload(half) = Payload(s.outs) + 0 /\ Credit(half) = Credit(s.outs) + 0
    BY <1>1, <2>3, TotalsAppend
  <2> HIDE DEF half
  <2>9. /\ Payload(t.outs) = Payload(half) + n /\ Credit(t.outs) = Credit(half) + 0
    BY <2>4, <2>6, <2>7, TotalsAppend
  <2>10. /\ Payload(t.outs) = Payload(s.outs) + n /\ Credit(t.outs) = Credit(s.outs)
    BY <1>1, <2>1, <2>8, <2>9
  <2>11. OutboxBounded(s.outbox) => t.send = s.send - n /\ n <= s.send
    <3>1. s.send >= ChunkCapacity /\ t.send = Subtract(s.send, n)
      BY <1>5 DEF Moving
    <3> HIDE DEF n
    <3>2. OutboxBounded(s.outbox) => n <= ChunkCapacity
      BY <1>2, <1>5 DEF n
    <3> QED BY <1>1, <2>1, <3>1, <3>2, ChunkAssumption DEF Subtract
  <2> HIDE DEF n
  <2>12. OutboxBounded(s.outbox) =>
            t.send + Payload(t.outs) = s.send + Payload(s.outs)
    BY <1>1, <2>1, <2>10, <2>11
  <2> QED BY <1>2, <1>5, <2>10, <2>12
<1> QED BY <1>3, <1>4, <1>5 DEF Turn

LEMMA FilledTotals ==
  ASSUME NEW s \in HeadState
  PROVE  LET t == Filled(s) IN
         /\ Credit(t.outs) = Credit(s.outs)
         /\ OutboxBounded(s.outbox) =>
               /\ t.send + Payload(t.outs) = s.send + Payload(s.outs)
               /\ OutboxBounded(t.outbox)
<1> DEFINE t == Filled(s)
<1>1. PICK one, two \in HeadState :
         Turn(s, one) /\ Turn(one, two) /\ Turn(two, t)
  BY FilledTurns
<1>2. t \in HeadState
  BY FilledEffect
<1> HIDE DEF t
<1>3. /\ Credit(one.outs) = Credit(s.outs)
      /\ OutboxBounded(s.outbox) =>
            /\ one.send + Payload(one.outs) = s.send + Payload(s.outs)
            /\ OutboxBounded(one.outbox)
  BY <1>1, TurnTotals
<1>4. /\ Credit(two.outs) = Credit(one.outs)
      /\ OutboxBounded(one.outbox) =>
            /\ two.send + Payload(two.outs) = one.send + Payload(one.outs)
            /\ OutboxBounded(two.outbox)
  BY <1>1, TurnTotals
<1>5. /\ Credit(t.outs) = Credit(two.outs)
      /\ OutboxBounded(two.outbox) =>
            /\ t.send + Payload(t.outs) = two.send + Payload(two.outs)
            /\ OutboxBounded(t.outbox)
  BY <1>1, <1>2, TurnTotals
<1> QED BY <1>3, <1>4, <1>5 DEF t

-----------------------------------------------------------------------------
\* A head that waits: for credit, or for its handle.
Waits(s) ==
    /\ s.outs = <<>> /\ ~IsClosed(s)
    /\ \/ s.send < ChunkCapacity
       \/ s.outbox = <<>> /\ (s.txOpen \/ ~s.local)

LEMMA WaitsPolled ==
  ASSUME NEW s \in HeadState, Waits(s)
  PROVE  ~PollsItem(s) /\ ~PollsNone(s) /\ Filled(s) = s
<1>1. s.outbox = <<>> /\ ~s.txOpen /\ s.send >= ChunkCapacity =>
         TryCloseLocal(s) = s
  BY ChunkAssumption DEF Waits, TryCloseLocal, HeadState
<1>2. TakeChunk(s) = s
  BY <1>1, ChunkAssumption DEF Waits, TakeChunk, HeadState
<1>3. Filled(s) = s
  BY <1>2 DEF Filled, Fill
<1> QED BY <1>3 DEF Waits, PollsItem, PollsNone

LEMMA TurnKeepsItems ==
  ASSUME NEW s \in HeadState, NEW t \in HeadState, Turn(s, t), s.outs # <<>>
  PROVE  t.outs # <<>>
<1>1. s.outs \in Seq(StreamEvent)
  BY DEF HeadState
<1>2. CASE t.outs = s.outs
  BY <1>2
<1>3. CASE t.outs = Append(s.outs, Fin)
  BY <1>1, <1>3, FinType
<1>4. CASE s.outbox # <<>> /\ Moving(s, t)
  <2> DEFINE chunk == Head(s.outbox)
             header == Data({}, Len(chunk))
             payload == DataChunk(chunk)
  <2>1. chunk \in Chunk /\ Len(chunk) \in Nat
    <3>1. chunk \in Chunk
      BY <1>4, RestOfOutbox
    <3> QED BY <3>1 DEF Chunk
  <2>2. PICK flags \in SUBSET Flag : flags = {}
    OBVIOUS
  <2>3. header \in StreamEvent /\ payload \in StreamEvent
    BY <2>1, <2>2, DataType, DataChunkType
  <2>4. t.outs = s.outs \o <<header, payload>>
    BY <1>4 DEF Moving
  <2> HIDE DEF header, payload
  <2> QED BY <1>1, <2>3, <2>4
<1> QED BY <1>2, <1>3, <1>4 DEF Turn, Ending

\* Poll::Pending means that the head waits, and then the poll changed nothing.
LEMMA PolledWaits ==
  ASSUME NEW s \in HeadState, NoEmpty(s.outbox),
         ~PollsItem(s), ~PollsNone(s)
  PROVE  Waits(s) /\ Polled(s) = s
<1>1. s.outs = <<>> /\ ~IsClosed(s) /\ Filled(s) = Fill(s)
  BY DEF PollsItem, PollsNone, Filled
<1> DEFINE one == TakeChunk(s)
           two == TakeChunk(one)
<1>2. one \in HeadState /\ Turn(s, one)
  BY TakeChunkEffect
<1>3. one.outs = <<>>
  <2> HIDE DEF one
  <2>1. two \in HeadState /\ Turn(one, two)
    BY <1>2, TakeChunkEffect
  <2> HIDE DEF two
  <2>2. TakeChunk(two) \in HeadState /\ Turn(two, TakeChunk(two))
    BY <2>1, TakeChunkEffect
  <2>3. TakeChunk(two).outs = <<>>
    BY <1>1 DEF Fill, PollsItem, one, two
  <2> QED BY <1>2, <2>1, <2>2, <2>3, TurnKeepsItems
<1> SUFFICES Waits(s)
  <2>1. Waits(s) => Filled(s) = s
    BY WaitsPolled
  <2> QED BY <1>1, <2>1 DEF Polled
<1>4. CASE s.send < ChunkCapacity
  BY <1>1, <1>4 DEF Waits
<1>5. CASE s.send >= ChunkCapacity /\ s.outbox # <<>>
  <2>1. Head(s.outbox) # <<>>
    BY <1>5, NoEmptyTail DEF HeadState
  <2>2. one = SendData([s EXCEPT !.outbox = Tail(@)], Head(s.outbox))
    BY <1>5, <2>1, ChunkAssumption DEF TakeChunk, HeadState
  <2> DEFINE rest == [s EXCEPT !.outbox = Tail(@)]
             chunk == Head(s.outbox)
             header == Data({}, Len(chunk))
             payload == DataChunk(chunk)
  <2>3. rest \in HeadState /\ rest.outs = s.outs /\ chunk \in Chunk
    BY <1>5, RestOfOutbox
  <2> HIDE DEF rest
  <2>4. one.outs = s.outs \o <<header, payload>>
    BY <2>2, <2>3, SendDataEffect DEF rest
  <2>5. PICK flags \in SUBSET Flag, n \in Nat : flags = {} /\ n = Len(chunk)
    <3> HIDE DEF chunk
    <3>1. {} \in SUBSET Flag /\ Len(chunk) \in Nat
      BY <2>3 DEF Chunk
    <3> QED BY <3>1
  <2>6. header \in StreamEvent /\ payload \in StreamEvent
    BY <2>3, <2>5, DataType, DataChunkType
  <2> HIDE DEF header, payload, one
  <2>7. s.outs \o <<header, payload>> # <<>>
    BY <1>1, <2>6
  <2> QED BY <1>3, <2>4, <2>7
<1>6. CASE s.send >= ChunkCapacity /\ s.outbox = <<>>
  <2>1. CASE s.txOpen \/ ~s.local
    BY <1>1, <1>6, <2>1 DEF Waits
  <2>2. CASE ~s.txOpen /\ s.local
    <3>1. one = TryCloseLocal(s)
      BY <1>6, <2>2, ChunkAssumption DEF TakeChunk, HeadState
    <3>2. one.outs = Append(s.outs, Fin)
      BY <2>2, <3>1, TryCloseLocalEffect
    <3>3. Append(s.outs, Fin) # <<>>
      BY <1>1, FinType
    <3> QED BY <1>3, <3>2, <3>3
  <2> QED BY <2>1, <2>2
<1> QED BY <1>4, <1>5, <1>6, ChunkAssumption DEF HeadState

LEMMA FilledNoEmpty ==
  ASSUME NEW s \in HeadState, NoEmpty(s.outbox)
  PROVE  NoEmpty(Filled(s).outbox)
<1>1. ASSUME NEW t \in HeadState, NEW u \in HeadState, Turn(t, u),
             NoEmpty(t.outbox)
      PROVE  NoEmpty(u.outbox)
  <2>1. t.outbox \in Seq(Chunk)
    BY DEF HeadState
  <2>2. u.outbox = t.outbox \/ (t.outbox # <<>> /\ u.outbox = Tail(t.outbox))
    BY <1>1 DEF Turn
  <2> QED BY <1>1, <2>1, <2>2, NoEmptyTail
<1>2. PICK one, two \in HeadState :
         Turn(s, one) /\ Turn(one, two) /\ Turn(two, Filled(s))
  BY FilledTurns
<1>3. Filled(s) \in HeadState
  BY FilledEffect
<1>4. NoEmpty(one.outbox)
  BY <1>1, <1>2
<1>5. NoEmpty(two.outbox)
  BY <1>1, <1>2, <1>4
<1> QED BY <1>1, <1>2, <1>3, <1>5

-----------------------------------------------------------------------------
\* The end of stream marker in an inbox.
HasEnd(inbox) == \E i \in 1..Len(inbox) : inbox[i] = <<>>
EndIsLast(inbox) == \A i \in 1..Len(inbox) : inbox[i] = <<>> => i = Len(inbox)

LEMMA EndAppend ==
  ASSUME NEW inbox \in Seq(Chunk), NEW chunk \in Chunk
  PROVE  LET after == Append(inbox, chunk) IN
         /\ HasEnd(after) <=> HasEnd(inbox) \/ chunk = <<>>
         /\ ~HasEnd(inbox) => EndIsLast(after)
<1> DEFINE after == Append(inbox, chunk)
           n == Len(inbox)
<1>1. n \in Nat /\ Len(after) = n + 1 /\ after[n + 1] = chunk
  OBVIOUS
<1>2. \A i \in 1..n : after[i] = inbox[i]
  OBVIOUS
<1>3. 1..n + 1 = (1..n) \cup {n + 1}
  BY <1>1
<1> HIDE DEF after
<1>4. (\E i \in 1..Len(after) : after[i] = <<>>)
         <=> (\E i \in 1..n : inbox[i] = <<>>) \/ chunk = <<>>
  BY <1>1, <1>2, <1>3
<1>5. ~HasEnd(inbox) => EndIsLast(after)
  BY <1>1, <1>2, <1>3 DEF HasEnd, EndIsLast
<1> QED BY <1>4, <1>5 DEF HasEnd, after

LEMMA EndTail ==
  ASSUME NEW inbox \in Seq(Chunk), inbox # <<>>
  PROVE  /\ HasEnd(inbox) <=> HasEnd(Tail(inbox)) \/ Head(inbox) = <<>>
         /\ EndIsLast(inbox) => /\ EndIsLast(Tail(inbox))
                                /\ Head(inbox) = <<>> => Tail(inbox) = <<>>
<1> DEFINE rest == Tail(inbox)
           n == Len(inbox) - 1
<1>1. /\ n \in Nat /\ Len(inbox) = n + 1 /\ Head(inbox) = inbox[1]
      /\ Len(rest) = n /\ (n = 0 => rest = <<>>)
  <2>1. Len(inbox) \in Nat /\ Len(inbox) # 0
    OBVIOUS
  <2>2. n \in Nat /\ Len(inbox) = n + 1
    BY <2>1
  <2>3. rest \in Seq(Chunk) /\ Head(inbox) = inbox[1]
    OBVIOUS
  <2>4. Len(rest) = n
    OBVIOUS
  <2> HIDE DEF rest, n
  <2>5. n = 0 => rest = <<>>
    BY <2>3, <2>4
  <2> QED BY <2>2, <2>3, <2>4, <2>5
<1>2. \A i \in 1..n : rest[i] = inbox[i + 1]
  BY <1>1
<1> HIDE DEF rest, n
<1>3. (\E i \in 1..n + 1 : inbox[i] = <<>>)
         <=> (\E i \in 1..n : rest[i] = <<>>) \/ inbox[1] = <<>>
  <2>1. ASSUME NEW i \in 1..n + 1, inbox[i] = <<>>
        PROVE  (\E j \in 1..n : rest[j] = <<>>) \/ inbox[1] = <<>>
    <3>1. i = 1 \/ (i - 1 \in 1..n /\ (i - 1) + 1 = i)
      BY <1>1
    <3> QED BY <1>2, <2>1, <3>1
  <2>2. \A i \in 1..n : i + 1 \in 1..n + 1
    BY <1>1
  <2>3. 1 \in 1..n + 1
    BY <1>1
  <2> QED BY <1>2, <2>1, <2>2, <2>3
<1>4. EndIsLast(inbox) => EndIsLast(rest) /\ (inbox[1] = <<>> => rest = <<>>)
  BY <1>1, <1>2 DEF EndIsLast
<1> QED BY <1>1, <1>3, <1>4 DEF HasEnd, rest
===============================================================================
