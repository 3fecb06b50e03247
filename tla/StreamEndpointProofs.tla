------------------------- MODULE StreamEndpointProofs -------------------------
(***************************************************************************)
(* Proofs of StreamEndpoint's invariants, for every chunk size, window and *)
(* buffer size, and with none of the bounds that make a run finite.        *)
(*                                                                         *)
(* Each invariant is proved inductive relative to Typed, which holds the   *)
(* types and the agreement of recv_state with the peer:                    *)
(*   - WindowInv adds the size of the chunks that wait in the channel;     *)
(*   - DataFramed and FinOnce are inductive as they stand;                 *)
(*   - LastInv adds that no empty chunk waits in the channel and that the  *)
(*     local half, once over, has nothing more to take.                    *)
(* What a poll does is reduced to at most three turns of the head's loop   *)
(* (FilledTurns of StreamHeadProofs), so each invariant has a lemma about  *)
(* one turn.                                                               *)
(***************************************************************************)
EXTENDS StreamEndpoint, StreamHeadProofs

-----------------------------------------------------------------------------
\* Types, and the payload count that on_input's errors depend on.

Typed == TypeOK /\ PayloadInStep

\* A peer that has sent nothing but, perhaps, the opening of the stream.
LEMMA InitPeer ==
  ASSUME Init
  PROVE  /\ peer \in PeerState /\ peer.pending = NoPayload
         /\ ~peer.finned /\ ~peer.reset /\ ~peer.late
<1>1. peer = NewPeer \/ peer = [NewPeer EXCEPT !.acked = TRUE]
  BY DEF Init
<1>2. /\ NewPeer \in PeerState /\ NewPeer.pending = NoPayload
      /\ ~NewPeer.finned /\ ~NewPeer.reset /\ ~NewPeer.late
  BY DEF PeerState, NewPeer
<1> QED BY <1>1, <1>2 DEF PeerState

LEMMA InitTyped == Init => Typed
<1> SUFFICES ASSUME Init PROVE Typed
  OBVIOUS
<1>1. OpenStream \in HeadState /\ OpenStream.recvState = NoPayload
      /\ OpenStream.outbox = <<>>
  BY NewHeadEffect DEF OpenStream, Flag
<1>2. AcceptStream \in HeadState /\ AcceptStream.recvState = NoPayload
      /\ AcceptStream.outbox = <<>>
  BY NewHeadEffect DEF AcceptStream, Flag
<1>3. LET t == OnInput(AcceptStream, Syn)
      IN t \in HeadState /\ t.recvState = NoPayload /\ t.outbox = <<>>
  BY <1>2, OnWindowUpdateEffect, WindowAssumption DEF Syn, Flag, SameOutbox
<1>4. /\ stream \in HeadState /\ stream.recvState = NoPayload
      /\ stream.outbox = <<>>
  BY <1>1, <1>3 DEF Init
<1>5. peer \in PeerState /\ peer.pending = NoPayload
  BY InitPeer
<1>6. TypeOK
  <2>1. Len(stream.outbox) <= 2
    BY <1>4
  <2>2. granted \in Nat /\ accepted \in Nat /\ received \in Nat
        /\ credited \in Nat /\ fins \in Nat /\ writer \in Nat \cup {NoPayload}
    BY WindowAssumption DEF Init
  <2>3. eof \in BOOLEAN /\ broken \in BOOLEAN
    BY DEF Init
  <2> QED BY <1>4, <1>5, <2>1, <2>2, <2>3 DEF TypeOK, ChannelSlots
<1>7. PayloadInStep
  BY <1>4, <1>5 DEF PayloadInStep
<1> QED BY <1>6, <1>7 DEF Typed

\* What is noted of a frame with flags, and of a data header.
LEMMA PeerNotes ==
  ASSUME peer \in PeerState, NEW flags \in SUBSET Flag, NEW size \in Nat
  PROVE  /\ Noted(flags) \in PeerState
         /\ Noted(flags).acked <=> peer.acked \/ "ACK" \in flags
         /\ Noted(flags).finned <=> peer.finned \/ "FIN" \in flags
         /\ Noted(flags).reset <=> peer.reset \/ "RST" \in flags
         /\ Noted(flags).late = peer.late
         /\ Noted(flags).pending = peer.pending
         /\ Announced(flags, size) \in PeerState
         /\ Announced(flags, size).acked <=> peer.acked \/ "ACK" \in flags
         /\ Announced(flags, size).finned <=> peer.finned \/ "FIN" \in flags
         /\ Announced(flags, size).reset <=> peer.reset \/ "RST" \in flags
         /\ Announced(flags, size).late <=>
               peer.late \/ "RST" \in flags \/ "FIN" \in flags
         /\ Announced(flags, size).pending = size
<1> DEFINE noted == Noted(flags)
           late == noted.late \/ flags \cap {"FIN", "RST"} # {}
<1>1. /\ noted \in PeerState
      /\ noted.acked <=> peer.acked \/ "ACK" \in flags
      /\ noted.finned <=> peer.finned \/ "FIN" \in flags
      /\ noted.reset <=> peer.reset \/ "RST" \in flags
      /\ noted.late = peer.late /\ noted.pending = peer.pending
  BY DEF Noted, PeerState
<1>2. /\ late \in BOOLEAN
      /\ late <=> noted.late \/ "RST" \in flags \/ "FIN" \in flags
  OBVIOUS
<1>3. Announced(flags, size) = [noted EXCEPT !.pending = size, !.late = late]
  BY DEF Announced
<1> HIDE DEF noted, late
<1>4. /\ Announced(flags, size) \in PeerState
      /\ Announced(flags, size).acked = noted.acked
      /\ Announced(flags, size).finned = noted.finned
      /\ Announced(flags, size).reset = noted.reset
      /\ Announced(flags, size).late = late
      /\ Announced(flags, size).pending = size
  BY <1>1, <1>2, <1>3 DEF PeerState
<1> QED BY <1>1, <1>2, <1>4 DEF noted

\* What is left to come of the peer's payload once a piece has arrived.
PendingAfter(chunk) ==
    [peer EXCEPT !.pending = IF peer.pending = Len(chunk) THEN NoPayload
                             ELSE peer.pending - Len(chunk)]

\* A piece of payload never exceeds what recv_state still expects.
LEMMA PayloadStep ==
  ASSUME Typed, PeerPayload
  PROVE  \E chunk \in Chunk :
           /\ stream' = OnInput(stream, DataChunk(chunk))
           /\ stream.recvState \in Nat /\ Len(chunk) <= stream.recvState
           /\ chunk = <<>> => peer.pending = 0
           /\ stream.alive /\ stream.recvState = peer.pending
           /\ peer' = PendingAfter(chunk)
           /\ UNCHANGED <<accepted, granted, received, credited, fins, writer,
                          eof, broken>>
<1> PICK n \in 0..MaxReceived : \E chunk \in [1..n -> Byte] :
         /\ stream.alive /\ peer.pending # NoPayload
         /\ n <= peer.pending /\ (n = 0 => peer.pending = 0)
         /\ stream' = OnInput(stream, DataChunk(chunk))
         /\ peer' = [peer EXCEPT !.pending = IF peer.pending = n THEN NoPayload
                                             ELSE peer.pending - n]
  BY DEF PeerPayload
<1>1. PICK chunk \in [1..n -> Byte] :
         /\ stream.alive /\ peer.pending # NoPayload
         /\ n <= peer.pending /\ (n = 0 => peer.pending = 0)
         /\ stream' = OnInput(stream, DataChunk(chunk))
         /\ peer' = [peer EXCEPT !.pending = IF peer.pending = n THEN NoPayload
                                             ELSE peer.pending - n]
  OBVIOUS
<1>2. peer.pending \in Nat
  BY <1>1 DEF Typed, TypeOK, PeerState
<1>3. chunk \in Chunk /\ Len(chunk) = n /\ (chunk = <<>> => n = 0)
  BY DEF Chunk
<1>4. stream.recvState = peer.pending
  BY <1>1 DEF Typed, PayloadInStep
<1> QED BY <1>1, <1>2, <1>3, <1>4 DEF PeerPayload, PendingAfter

LEMMA NextTyped == Typed /\ [Next]_vars => Typed'
<1> SUFFICES ASSUME Typed, [Next]_vars PROVE Typed'
  OBVIOUS
<1>0. peer \in PeerState
  BY DEF Typed, TypeOK
<1> USE DEF Typed, TypeOK, PayloadInStep, PeerState, ChannelSlots
<1>1. CASE Write
  <2> PICK n \in MinWrite..MaxWrite : \E buf \in [1..n -> Byte] :
           /\ WriteReady(stream)
           /\ stream' = PollWrite(stream, buf)
           /\ accepted' = accepted + Len(Truncated(buf))
    BY <1>1 DEF Write
  <2>1. PICK buf \in [1..n -> Byte] :
           /\ WriteReady(stream)
           /\ stream' = PollWrite(stream, buf)
           /\ accepted' = accepted + Len(Truncated(buf))
    OBVIOUS
  <2>2. buf \in Chunk
    BY SizesAssumption DEF Chunk
  <2>3. Truncated(buf) \in Chunk
    BY <2>2, TruncatedType
  <2>4. /\ stream' \in HeadState
        /\ stream'.outbox = Append(stream.outbox, Truncated(buf))
        /\ stream'.recvState = stream.recvState /\ stream'.alive = stream.alive
    BY <2>1, <2>2, PollWriteEffect DEF HeadKept
  <2>5. Len(stream'.outbox) <= 2
    BY <2>1, <2>3, <2>4 DEF WriteReady, HeadState
  <2>6. accepted' \in Nat
    BY <2>1, <2>3 DEF Chunk
  <2> QED BY <1>1, <2>4, <2>5, <2>6 DEF Write
<1>2. CASE Close
  BY <1>2, PollCloseEffect DEF Close, HeadKept
<1>3. CASE Drop
  BY <1>3, DropHandleEffect DEF Drop, HeadKept
<1>4. CASE Read
  <2>1. PICK room \in 1..MaxRead : stream' = PollRead(stream, room)
    BY <1>4 DEF Read
  <2>2. room \in Nat
    BY SizesAssumption
  <2>3. /\ stream' \in HeadState /\ stream'.outbox = stream.outbox
        /\ stream'.recvState = stream.recvState /\ stream'.alive = stream.alive
    BY <2>1, <2>2, PollReadEffect DEF HeadKept, SameOutbox
  <2>4. eof' \in BOOLEAN /\ broken' \in BOOLEAN
    BY <1>4 DEF Read, ReadsEof, ReadsBroken
  <2> QED BY <1>4, <2>3, <2>4 DEF Read
<1>5. CASE PollItem
  <2>1. stream' = Polled(stream) /\ PollsItem(stream)
    BY <1>5 DEF PollItem
  <2>2. PolledItem(stream) \in StreamEvent
    BY <2>1, PolledEffect
  <2>3. /\ stream' \in HeadState /\ Len(stream'.outbox) <= Len(stream.outbox)
        /\ stream'.recvState = stream.recvState /\ stream'.alive = stream.alive
    BY <2>1, PolledEffect, FilledEffect DEF Kept, SameOutbox
  <2>4. Len(stream'.outbox) <= 2
    BY <2>3 DEF HeadState
  <2>5. credited' \in Nat /\ fins' \in Nat /\ writer' \in Nat \cup {NoPayload}
    BY <1>5, <2>2, EventType, OfType DEF PollItem, RecordSent
  <2> QED BY <1>5, <2>3, <2>4, <2>5 DEF PollItem
<1>6. CASE PollPending
  <2>1. stream' = Polled(stream)
    BY <1>6 DEF PollPending
  <2>2. /\ stream' \in HeadState /\ Len(stream'.outbox) <= Len(stream.outbox)
        /\ stream'.recvState = stream.recvState /\ stream'.alive = stream.alive
    BY <2>1, PolledEffect, FilledEffect DEF Kept, SameOutbox
  <2>3. Len(stream'.outbox) <= 2
    BY <2>2 DEF HeadState
  <2> QED BY <1>6, <2>2, <2>3 DEF PollPending
<1>7. CASE PollNone
  BY <1>7, RemoveHeadEffect DEF PollNone
<1>8. CASE PeerHeader
  <2>1. PICK flags \in PeerDataFlags, size \in MinPayload..MaxReceived :
           /\ MaySend(flags)
           /\ stream' = OnInput(stream, Data(flags, size))
           /\ received' = received + size
           /\ peer' = Announced(flags, size)
    BY <1>8 DEF PeerHeader
  <2>2. flags \in SUBSET Flag /\ size \in Nat
    BY SizesAssumption
  <2>3. stream.alive /\ stream.recvState = NoPayload
    BY <2>1 DEF MaySend
  <2>4. /\ stream' \in HeadState /\ stream'.outbox = stream.outbox
        /\ stream'.recvState = size
    BY <2>1, <2>2, <2>3, OnDataEffect DEF SameOutbox
  <2>5. peer' \in PeerState /\ peer'.pending = size
    BY ONLY <1>0, <2>1, <2>2, PeerNotes
  <2>6. received' \in Nat
    BY <2>1, <2>2
  <2> QED BY <1>8, <2>2, <2>4, <2>5, <2>6 DEF PeerHeader
<1>9. CASE PeerPayload
  <2>1. PICK chunk \in Chunk :
           /\ stream' = OnInput(stream, DataChunk(chunk))
           /\ stream.recvState \in Nat /\ Len(chunk) <= stream.recvState
           /\ peer' = PendingAfter(chunk)
           /\ UNCHANGED <<accepted, granted, received, credited, fins, writer,
                          eof, broken>>
    BY <1>9, PayloadStep
  <2>2. Len(chunk) \in Nat
    BY DEF Chunk
  <2> DEFINE left == IF stream.recvState = Len(chunk) THEN NoPayload
                     ELSE stream.recvState - Len(chunk)
  <2>3. /\ stream' \in HeadState /\ stream'.outbox = stream.outbox
        /\ stream'.recvState = left
    BY <2>1, OnDataChunkEffect DEF SameOutbox
  <2>4. left \in Nat \cup {NoPayload}
    BY <2>1, <2>2
  <2>5. stream.recvState = peer.pending
    BY <1>9 DEF PeerPayload
  <2>6. peer' = [peer EXCEPT !.pending = left]
    BY <2>1, <2>5 DEF PendingAfter
  <2> HIDE DEF left
  <2>7. peer' \in PeerState /\ peer'.pending = left
    BY <2>4, <2>6
  <2> QED BY <2>1, <2>3, <2>7
<1>10. CASE PeerUpdate
  <2>1. PICK flags \in {{}, {"ACK"}}, delta \in PeerDeltas :
           /\ stream' = OnInput(stream, WindowUpdate(flags, delta))
           /\ granted' = granted + delta
           /\ peer' = Noted(flags)
    BY <1>10 DEF PeerUpdate
  <2>2. flags \in SUBSET Flag /\ delta \in Nat
    BY SizesAssumption DEF Flag
  <2>3. /\ stream' \in HeadState /\ stream'.outbox = stream.outbox
        /\ stream'.recvState = stream.recvState /\ stream'.alive = stream.alive
    BY <2>1, <2>2, OnWindowUpdateEffect DEF SameOutbox
  <2>4. peer' \in PeerState /\ peer'.pending = peer.pending
    BY <2>1, <2>2, PeerNotes
  <2>5. granted' \in Nat
    BY <2>1, <2>2
  <2> QED BY <1>10, <2>3, <2>4, <2>5 DEF PeerUpdate
<1>11. CASE PeerFin
  <2>1. /\ stream' = OnInput(stream, WindowUpdate({"FIN"}, 0))
        /\ peer' = Noted({"FIN"})
    BY <1>11 DEF PeerFin
  <2>2. PICK flags \in SUBSET Flag, delta \in Nat :
           stream' = OnInput(stream, WindowUpdate(flags, delta))
    BY <2>1 DEF Flag
  <2>3. /\ stream' \in HeadState /\ stream'.outbox = stream.outbox
        /\ stream'.recvState = stream.recvState /\ stream'.alive = stream.alive
    BY <2>2, OnWindowUpdateEffect DEF SameOutbox
  <2>4. peer' \in PeerState /\ peer'.pending = peer.pending
    BY <2>1, PeerNotes DEF Flag
  <2> QED BY <1>11, <2>3, <2>4 DEF PeerFin
<1>12. CASE PeerReset
  <2>1. /\ stream' = OnInput(stream, WindowUpdate({"RST"}, 0))
        /\ peer' = Noted({"RST"})
    BY <1>12 DEF PeerReset
  <2>2. PICK flags \in SUBSET Flag, delta \in Nat :
           stream' = OnInput(stream, WindowUpdate(flags, delta))
    BY <2>1 DEF Flag
  <2>3. /\ stream' \in HeadState /\ stream'.outbox = stream.outbox
        /\ stream'.recvState = stream.recvState /\ stream'.alive = stream.alive
    BY <2>2, OnWindowUpdateEffect DEF SameOutbox
  <2>4. peer' \in PeerState /\ peer'.pending = peer.pending
    BY <2>1, PeerNotes DEF Flag
  <2> QED BY <1>12, <2>3, <2>4 DEF PeerReset
<1>13. CASE UNCHANGED vars
  BY <1>13 DEF vars
<1> QED
  BY <1>1, <1>2, <1>3, <1>4, <1>5, <1>6, <1>7, <1>8, <1>9, <1>10, <1>11,
     <1>12, <1>13 DEF Next

\* The state keeps its shape, and the channel from the handle never holds more
\* than its two slots, although poll_write and poll_next run concurrently.
THEOREM TypeCorrect == Spec => []TypeOK
<1>1. Spec => []Typed
  BY InitTyped, NextTyped, PTL DEF Spec
<1> QED BY <1>1, PTL DEF Typed

\* on_input never returns an error: recv_state agrees with the payload the
\* peer has announced and not yet sent, whatever the order of its frames.
THEOREM PayloadCorrect == Spec => []PayloadInStep
<1>1. Spec => []Typed
  BY InitTyped, NextTyped, PTL DEF Spec
<1> QED BY <1>1, PTL DEF Typed

\* The peer's window updates, plain or with a flag, as one kind of step.
LEMMA UpdateSteps ==
  ASSUME Typed, PeerUpdate \/ PeerFin \/ PeerReset
  PROVE  \E flags \in SUBSET Flag, delta \in Nat :
           /\ stream' = OnInput(stream, WindowUpdate(flags, delta))
           /\ granted' = granted + delta
           /\ UNCHANGED <<accepted, received, credited, fins, writer, eof,
                          broken>>
<1>1. CASE PeerUpdate
  <2>1. PICK flags \in {{}, {"ACK"}}, delta \in PeerDeltas :
           /\ stream' = OnInput(stream, WindowUpdate(flags, delta))
           /\ granted' = granted + delta
    BY <1>1 DEF PeerUpdate
  <2>2. flags \in SUBSET Flag /\ delta \in Nat
    BY SizesAssumption DEF Flag
  <2> QED BY <1>1, <2>1, <2>2 DEF PeerUpdate
<1>2. granted = granted + 0
  BY DEF Typed, TypeOK
<1>3. CASE PeerFin
  BY <1>2, <1>3 DEF PeerFin, Flag
<1>4. CASE PeerReset
  BY <1>2, <1>4 DEF PeerReset, Flag
<1> QED BY <1>1, <1>3, <1>4

\* A step that announces a payload.
LEMMA HeaderStep ==
  ASSUME Typed, PeerHeader
  PROVE  \E flags \in PeerDataFlags, size \in Nat :
           /\ stream' = OnInput(stream, Data(flags, size))
           /\ size >= MinPayload
           /\ flags \in SUBSET Flag /\ stream.recvState = NoPayload
           /\ stream.alive /\ MaySend(flags) /\ ~peer.finned
           /\ peer' = Announced(flags, size)
           /\ received' = received + size
           /\ UNCHANGED <<accepted, granted, credited, fins, writer, eof,
                          broken>>
<1>1. PICK flags \in PeerDataFlags, size \in MinPayload..MaxReceived :
         /\ MaySend(flags) /\ ~peer.finned
         /\ stream' = OnInput(stream, Data(flags, size))
         /\ peer' = Announced(flags, size)
         /\ received' = received + size
  BY DEF PeerHeader
<1>2. flags \in SUBSET Flag /\ size \in Nat /\ size >= MinPayload
  BY SizesAssumption
<1>3. stream.alive /\ stream.recvState = NoPayload
  BY <1>1 DEF MaySend, Typed, PayloadInStep
<1> QED BY <1>1, <1>2, <1>3 DEF PeerHeader

LEMMA WriteStep ==
  ASSUME Write
  PROVE  \E buf \in Chunk :
           /\ WriteReady(stream)
           /\ stream' = PollWrite(stream, buf)
           /\ accepted' = accepted + Len(Truncated(buf))
           /\ Len(buf) >= MinWrite
           /\ UNCHANGED <<granted, received, credited, fins, writer, peer, eof,
                          broken>>
<1> PICK n \in MinWrite..MaxWrite : \E buf \in [1..n -> Byte] :
         /\ WriteReady(stream)
         /\ stream' = PollWrite(stream, buf)
         /\ accepted' = accepted + Len(Truncated(buf))
  BY DEF Write
<1>1. PICK buf \in [1..n -> Byte] :
         /\ WriteReady(stream)
         /\ stream' = PollWrite(stream, buf)
         /\ accepted' = accepted + Len(Truncated(buf))
  OBVIOUS
<1>2. buf \in Chunk /\ Len(buf) = n /\ n >= MinWrite
  BY SizesAssumption DEF Chunk
<1> QED BY <1>1, <1>2 DEF Write

LEMMA ReadStep ==
  ASSUME Read
  PROVE  \E room \in Nat :
           /\ ReadsData(stream) \/ ReadsEof(stream) \/ ReadsBroken(stream)
           /\ stream' = PollRead(stream, room)
           /\ eof' = (eof \/ ReadsEof(stream))
           /\ broken' = (broken \/ ReadsBroken(stream))
           /\ UNCHANGED <<accepted, granted, received, credited, fins, writer,
                          peer>>
  BY SizesAssumption DEF Read

-----------------------------------------------------------------------------
\* The send window.

\* The bytes of a channel that holds none, one or two chunks.
LEMMA OutboxBytesCases ==
  ASSUME NEW outbox \in Seq(Chunk), NEW n \in Nat, n = Len(outbox)
  PROVE  /\ n = 0 => OutboxBytes(outbox) = 0
         /\ n = 1 => OutboxBytes(outbox) = Len(outbox[1])
         /\ n = 2 => OutboxBytes(outbox) = Len(outbox[1]) + Len(outbox[2])
<1>1. \A i \in 1..n : Len(outbox[i]) \in Nat
  BY DEF Chunk
<1>2. \A i \in Nat : ChunkLen(outbox, i) = IF i <= n THEN Len(outbox[i]) ELSE 0
  BY DEF ChunkLen
<1>3. CASE n = 0
  BY <1>2, <1>3 DEF OutboxBytes
<1>4. CASE n = 1
  <2>1. ChunkLen(outbox, 1) = Len(outbox[1]) /\ ChunkLen(outbox, 2) = 0
    BY <1>2, <1>4
  <2>2. Len(outbox[1]) \in Nat
    BY <1>1, <1>4
  <2> QED BY <1>4, <2>1, <2>2 DEF OutboxBytes
<1>5. CASE n = 2
  <2>1. ChunkLen(outbox, 1) = Len(outbox[1])
    BY <1>2, <1>5
  <2>2. ChunkLen(outbox, 2) = Len(outbox[2])
    BY <1>2, <1>5
  <2>3. OutboxBytes(outbox) = Len(outbox[1]) + Len(outbox[2])
    BY ONLY <2>1, <2>2, Zenon DEF OutboxBytes
  <2> QED BY <1>5, <2>3
<1> QED BY <1>3, <1>4, <1>5

LEMMA OutboxAppend ==
  ASSUME NEW outbox \in Seq(Chunk), Len(outbox) < 2, NEW chunk \in Chunk
  PROVE  /\ OutboxBytes(Append(outbox, chunk)) = OutboxBytes(outbox) + Len(chunk)
         /\ OutboxBounded(outbox) /\ Len(chunk) <= ChunkCapacity =>
               OutboxBounded(Append(outbox, chunk))
<1>1. PICK n \in Nat : n = Len(outbox)
  OBVIOUS
<1>2. /\ Append(outbox, chunk) \in Seq(Chunk)
      /\ Len(Append(outbox, chunk)) = n + 1
      /\ Append(outbox, chunk)[n + 1] = chunk
      /\ \A i \in 1..n : Append(outbox, chunk)[i] = outbox[i]
  BY <1>1
<1>3. n = 0 \/ n = 1
  BY <1>1
<1>4. Len(chunk) \in Nat
  BY DEF Chunk
<1>5. OutboxBytes(Append(outbox, chunk)) = OutboxBytes(outbox) + Len(chunk)
  <2>1. CASE n = 0
    <3>1. /\ Append(outbox, chunk)[1] = chunk
          /\ Len(Append(outbox, chunk)) = 1
      BY <1>2, <2>1
    <3>2. OutboxBytes(Append(outbox, chunk)) = Len(chunk)
      BY <1>2, <3>1, OutboxBytesCases
    <3>3. OutboxBytes(outbox) = 0
      BY <1>1, <2>1, OutboxBytesCases
    <3> QED BY <1>4, <3>2, <3>3
  <2>2. CASE n = 1
    <3>1. /\ Append(outbox, chunk)[1] = outbox[1]
          /\ Append(outbox, chunk)[2] = chunk
          /\ Len(Append(outbox, chunk)) = 2
      BY <1>2, <2>2
    <3> QED BY <1>1, <1>2, <2>2, <3>1, OutboxBytesCases
  <2> QED BY <1>3, <2>1, <2>2
<1>6. OutboxBounded(outbox) /\ Len(chunk) <= ChunkCapacity =>
         OutboxBounded(Append(outbox, chunk))
  BY <1>1, <1>2 DEF OutboxBounded
<1> QED BY <1>5, <1>6

LEMMA OutboxTail ==
  ASSUME NEW outbox \in Seq(Chunk), Len(outbox) <= 2, outbox # <<>>
  PROVE  /\ OutboxBytes(outbox) = OutboxBytes(Tail(outbox)) + Len(Head(outbox))
         /\ Len(Tail(outbox)) <= 2
         /\ OutboxBounded(outbox) => /\ OutboxBounded(Tail(outbox))
                                     /\ Len(Head(outbox)) <= ChunkCapacity
<1>1. PICK n \in Nat : n = Len(outbox)
  OBVIOUS
<1>2. n = 1 \/ n = 2
  BY <1>1
<1>3. /\ Tail(outbox) \in Seq(Chunk) /\ Head(outbox) = outbox[1]
      /\ Len(Tail(outbox)) = n - 1
      /\ \A i \in 1..n - 1 : Tail(outbox)[i] = outbox[i + 1]
  BY <1>1
<1>4. Len(outbox[1]) \in Nat
  BY <1>1, <1>2 DEF Chunk
<1>5. OutboxBytes(outbox) = OutboxBytes(Tail(outbox)) + Len(Head(outbox))
  <2>1. CASE n = 1
    <3>1. OutboxBytes(outbox) = Len(outbox[1])
      BY <1>1, <2>1, OutboxBytesCases
    <3>2. OutboxBytes(Tail(outbox)) = 0
      <4>1. Tail(outbox) \in Seq(Chunk) /\ 0 = Len(Tail(outbox)) /\ 0 \in Nat
        BY <1>3, <2>1
      <4> QED BY ONLY <4>1, OutboxBytesCases, Zenon
    <3> QED BY <1>3, <1>4, <3>1, <3>2
  <2>2. CASE n = 2
    <3>1. Len(Tail(outbox)) = 1 /\ Tail(outbox)[1] = outbox[2]
      BY <1>3, <2>2
    <3>2. Len(outbox[2]) \in Nat
      BY <1>1, <2>2 DEF Chunk
    <3>3. OutboxBytes(outbox) = Len(outbox[1]) + Len(outbox[2])
      BY <1>1, <2>2, OutboxBytesCases
    <3>4. OutboxBytes(Tail(outbox)) = Len(outbox[2])
      BY <1>3, <3>1, OutboxBytesCases
    <3> DEFINE a == Len(outbox[1])
               b == Len(outbox[2])
    <3>5. a \in Nat /\ b \in Nat /\ Len(Head(outbox)) = a
      BY <1>3, <1>4, <3>2
    <3>6. OutboxBytes(outbox) = a + b /\ OutboxBytes(Tail(outbox)) = b
      BY <3>3, <3>4
    <3> HIDE DEF a, b
    <3> QED BY <3>5, <3>6
  <2> QED BY <1>2, <2>1, <2>2
<1>6. Len(Tail(outbox)) <= 2
  BY <1>2, <1>3
<1>7. OutboxBounded(outbox) => /\ OutboxBounded(Tail(outbox))
                               /\ Len(Head(outbox)) <= ChunkCapacity
  BY <1>1, <1>2, <1>3 DEF OutboxBounded
<1> QED BY <1>5, <1>6, <1>7

LEMMA OutboxBytesType ==
  ASSUME NEW outbox \in Seq(Chunk)
  PROVE  OutboxBytes(outbox) \in Nat
<1>1. \A i \in 1..Len(outbox) : Len(outbox[i]) \in Nat
  BY DEF Chunk
<1>2. Len(outbox) \in Nat
  OBVIOUS
<1>3. \A i \in Nat \ {0} : ChunkLen(outbox, i) \in Nat
  BY <1>1, <1>2 DEF ChunkLen
<1> QED BY <1>3 DEF OutboxBytes

\* A turn of the loop charges to the window exactly what leaves the channel.
LEMMA TurnWindow ==
  ASSUME NEW s \in HeadState, NEW t \in HeadState, Turn(s, t),
         Len(s.outbox) <= 2, OutboxBounded(s.outbox)
  PROVE  /\ t.send + OutboxBytes(s.outbox) = s.send + OutboxBytes(t.outbox)
         /\ Len(t.outbox) <= 2 /\ OutboxBounded(t.outbox)
<1>1. /\ s.send \in Nat /\ t.send \in Nat
      /\ OutboxBytes(s.outbox) \in Nat /\ OutboxBytes(t.outbox) \in Nat
      /\ s.outbox \in Seq(Chunk)
  BY OutboxBytesType DEF HeadState
<1>2. CASE t.outbox = s.outbox /\ t.send = s.send
  BY <1>1, <1>2
<1>3. CASE /\ s.outbox # <<>> /\ Head(s.outbox) = <<>>
           /\ t.outbox = Tail(s.outbox) /\ t.send = s.send
  <2>1. OutboxBytes(s.outbox) = OutboxBytes(t.outbox) + 0
    BY <1>1, <1>3, OutboxTail
  <2> QED BY <1>1, <1>3, <2>1, OutboxTail
<1>4. CASE s.outbox # <<>> /\ t.outbox = Tail(s.outbox) /\ Moving(s, t)
  <2> DEFINE n == Len(Head(s.outbox))
  <2>1. OutboxBytes(s.outbox) = OutboxBytes(t.outbox) + n
    BY <1>1, <1>4, OutboxTail
  <2>2. n \in Nat /\ n <= ChunkCapacity /\ s.send >= ChunkCapacity
    BY <1>1, <1>4, OutboxTail DEF Moving, Chunk
  <2>3. t.send = s.send - n
    BY <1>1, <1>4, <2>2, ChunkAssumption DEF Moving, Subtract
  <2> HIDE DEF n
  <2>4. t.send + OutboxBytes(s.outbox) = s.send + OutboxBytes(t.outbox)
    BY <1>1, <2>1, <2>2, <2>3
  <2> QED BY <1>1, <1>4, <2>4, OutboxTail
<1> QED BY <1>2, <1>3, <1>4 DEF Turn, Ending

LEMMA FilledWindow ==
  ASSUME NEW s \in HeadState, Len(s.outbox) <= 2, OutboxBounded(s.outbox)
  PROVE  LET t == Filled(s) IN
         /\ t.send + OutboxBytes(s.outbox) = s.send + OutboxBytes(t.outbox)
         /\ OutboxBounded(t.outbox)
<1> DEFINE t == Filled(s)
<1>1. PICK one, two \in HeadState :
         Turn(s, one) /\ Turn(one, two) /\ Turn(two, t)
  BY FilledTurns
<1>2. t \in HeadState
  BY FilledEffect
<1> HIDE DEF t
<1>3. /\ one.send + OutboxBytes(s.outbox) = s.send + OutboxBytes(one.outbox)
      /\ Len(one.outbox) <= 2 /\ OutboxBounded(one.outbox)
  BY <1>1, TurnWindow
<1>4. /\ two.send + OutboxBytes(one.outbox) = one.send + OutboxBytes(two.outbox)
      /\ Len(two.outbox) <= 2 /\ OutboxBounded(two.outbox)
  BY <1>1, <1>3, TurnWindow
<1>5. /\ t.send + OutboxBytes(two.outbox) = two.send + OutboxBytes(t.outbox)
      /\ OutboxBounded(t.outbox)
  BY <1>1, <1>2, <1>4, TurnWindow
<1>6. \A u \in HeadState : u.send \in Nat /\ OutboxBytes(u.outbox) \in Nat
  BY OutboxBytesType DEF HeadState
<1> DEFINE send == s.send
           sendOne == one.send
           sendTwo == two.send
           bytes == OutboxBytes(s.outbox)
           bytesOne == OutboxBytes(one.outbox)
           bytesTwo == OutboxBytes(two.outbox)
           sendLast == t.send
           bytesLast == OutboxBytes(t.outbox)
<1>7. /\ send \in Nat /\ sendOne \in Nat /\ sendTwo \in Nat
      /\ bytes \in Nat /\ bytesOne \in Nat /\ bytesTwo \in Nat
      /\ sendLast \in Nat /\ bytesLast \in Nat
  BY <1>2, <1>6
<1>8. /\ sendOne + bytes = send + bytesOne
      /\ sendTwo + bytesOne = sendOne + bytesTwo
      /\ sendLast + bytesTwo = sendTwo + bytesLast
  BY <1>3, <1>4, <1>5
<1>9. sendLast + bytes = send + bytesLast
  <2> HIDE DEF send, sendOne, sendTwo, bytes, bytesOne, bytesTwo, sendLast,
               bytesLast
  <2> QED BY <1>7, <1>8
<1> QED BY <1>5, <1>9 DEF t

\* Inductive with Typed: the chunks waiting in the channel are no larger than a
\* chunk, so the head, which takes one only when it holds credit for a whole
\* chunk, never charges more than it has.
WindowInv == OutboxBounded(stream.outbox) /\ SendWindowExact

LEMMA InitWindow == Init => WindowInv
<1> SUFFICES ASSUME Init PROVE WindowInv
  OBVIOUS
<1>1. OpenStream.send = InitialWindow /\ OpenStream.outbox = <<>>
  BY NewHeadEffect DEF OpenStream, Flag
<1>2. /\ AcceptStream \in HeadState /\ AcceptStream.send = InitialWindow
      /\ AcceptStream.outbox = <<>>
  BY NewHeadEffect DEF AcceptStream, Flag
<1>3. LET t == OnInput(AcceptStream, Syn)
      IN t.send = InitialWindow + InitialWindow /\ t.outbox = <<>>
  BY <1>2, OnWindowUpdateEffect, WindowAssumption DEF Syn, Flag, SameOutbox
<1>4. stream.outbox = <<>> /\ stream.send = InitialWindow + granted
  BY <1>1, <1>3, WindowAssumption DEF Init
<1>5. OutboxBytes(stream.outbox) = 0
  <2>1. stream.outbox \in Seq(Chunk) /\ 0 = Len(stream.outbox) /\ 0 \in Nat
    BY <1>4
  <2> QED BY ONLY <2>1, OutboxBytesCases, Zenon
<1>6. accepted = 0 /\ granted \in Nat
  BY WindowAssumption DEF Init
<1> QED
  BY <1>4, <1>5, <1>6, WindowAssumption
     DEF WindowInv, OutboxBounded, SendWindowExact

\* A step that leaves the channel and both sides of the account alone.
LEMMA SameWindowInv ==
  ASSUME Typed, WindowInv, stream'.outbox = stream.outbox,
         stream'.send = stream.send, stream'.alive = stream.alive,
         accepted' = accepted, granted' = granted
  PROVE  WindowInv'
  BY DEF WindowInv, OutboxBounded, SendWindowExact

\* The account after a poll, whatever it returns.
LEMMA PollWindow ==
  ASSUME Typed, WindowInv, stream.alive, stream' = Polled(stream),
         accepted' = accepted, granted' = granted
  PROVE  WindowInv'
<1> DEFINE filled == Filled(stream)
<1>1. /\ stream \in HeadState /\ Len(stream.outbox) <= 2
      /\ accepted \in Nat /\ granted \in Nat
  BY DEF Typed, TypeOK, ChannelSlots
<1>2. /\ filled.send + OutboxBytes(stream.outbox)
            = stream.send + OutboxBytes(filled.outbox)
      /\ OutboxBounded(filled.outbox) /\ filled \in HeadState
  BY <1>1, FilledWindow, FilledEffect DEF WindowInv
<1>3. /\ stream'.outbox = filled.outbox /\ stream'.send = filled.send
      /\ stream'.alive = stream.alive /\ stream' \in HeadState
  BY <1>1, PolledEffect DEF SameOutbox, Kept
<1> HIDE DEF filled
<1> DEFINE send == stream.send
           sendFilled == filled.send
           bytes == OutboxBytes(stream.outbox)
           bytesFilled == OutboxBytes(filled.outbox)
<1>4. /\ send \in Nat /\ sendFilled \in Nat
      /\ bytes \in Nat /\ bytesFilled \in Nat
  BY <1>1, <1>2, OutboxBytesType DEF HeadState
<1>5. sendFilled + bytes = send + bytesFilled
  BY <1>2
<1>6. send + accepted = InitialWindow + granted + bytes
  BY DEF WindowInv, SendWindowExact
<1>7. sendFilled + accepted = InitialWindow + granted + bytesFilled
  <2> HIDE DEF send, sendFilled, bytes, bytesFilled
  <2> QED BY <1>1, <1>4, <1>5, <1>6, WindowAssumption
<1> QED BY <1>2, <1>3, <1>7 DEF WindowInv, SendWindowExact

LEMMA NextWindow == Typed /\ WindowInv /\ [Next]_vars => WindowInv'
<1> SUFFICES ASSUME Typed, WindowInv, [Next]_vars PROVE WindowInv'
  OBVIOUS
<1>1. /\ stream \in HeadState /\ Len(stream.outbox) <= 2
      /\ accepted \in Nat /\ granted \in Nat
      /\ stream.send \in Nat /\ stream.outbox \in Seq(Chunk)
      /\ OutboxBytes(stream.outbox) \in Nat
  BY OutboxBytesType DEF Typed, TypeOK, ChannelSlots, HeadState
<1>2. CASE Write
  <2>1. PICK buf \in Chunk :
           /\ WriteReady(stream)
           /\ stream' = PollWrite(stream, buf)
           /\ accepted' = accepted + Len(Truncated(buf))
           /\ granted' = granted
    BY <1>2, WriteStep
  <2> DEFINE chunk == Truncated(buf)
             bytes == OutboxBytes(stream.outbox)
             n == Len(chunk)
  <2>2. chunk \in Chunk /\ n \in Nat /\ n <= ChunkCapacity
    BY TruncatedType DEF Chunk
  <2>3. /\ stream'.outbox = Append(stream.outbox, chunk)
        /\ stream'.send = stream.send /\ stream'.alive = stream.alive
    BY <1>1, <2>1, PollWriteEffect DEF HeadKept, SameWindow
  <2>4. stream.alive /\ Len(stream.outbox) < 2
    BY <2>1 DEF WriteReady, ChannelSlots
  <2>5. OutboxBytes(stream'.outbox) = bytes + n /\ accepted' = accepted + n
    BY <1>1, <2>1, <2>2, <2>3, <2>4, OutboxAppend
  <2>6. OutboxBounded(stream'.outbox)
    <3>1. OutboxBounded(stream.outbox)
      BY DEF WindowInv
    <3> QED BY <1>1, <2>2, <2>3, <2>4, <3>1, OutboxAppend
  <2> DEFINE send == stream.send
  <2>7. send + accepted = InitialWindow + granted + bytes
    BY <2>4 DEF WindowInv, SendWindowExact
  <2>8. bytes \in Nat /\ send \in Nat /\ accepted \in Nat /\ granted \in Nat
    BY <1>1
  <2>9. send + (accepted + n) = InitialWindow + granted + (bytes + n)
    <3>1. n \in Nat
      BY <2>2
    <3> HIDE DEF bytes, n, send
    <3> QED BY ONLY <2>7, <2>8, <3>1, WindowAssumption
  <2> QED BY <2>1, <2>3, <2>5, <2>6, <2>9 DEF WindowInv, SendWindowExact
<1>3. CASE Close
  <2>1. /\ stream'.outbox = stream.outbox /\ stream'.send = stream.send
        /\ stream'.alive = stream.alive
    BY <1>1, <1>3, PollCloseEffect DEF Close, HeadKept, SameWindow
  <2> QED BY <1>3, <2>1, SameWindowInv DEF Close
<1>4. CASE Drop
  <2>1. /\ stream'.outbox = stream.outbox /\ stream'.send = stream.send
        /\ stream'.alive = stream.alive
    BY <1>1, <1>4, DropHandleEffect DEF Drop, HeadKept, SameWindow
  <2> QED BY <1>4, <2>1, SameWindowInv DEF Drop
<1>5. CASE Read
  <2>1. PICK room \in Nat : stream' = PollRead(stream, room)
    BY <1>5, ReadStep
  <2>2. /\ stream'.outbox = stream.outbox /\ stream'.send = stream.send
        /\ stream'.alive = stream.alive
    BY <1>1, <2>1, PollReadEffect DEF HeadKept, SameWindow, SameOutbox
  <2> QED BY <1>5, <2>2, SameWindowInv DEF Read
<1>6. CASE PollItem
  BY <1>6, PollWindow DEF PollItem
<1>7. CASE PollPending
  BY <1>7, PollWindow DEF PollPending
<1>8. CASE PollNone
  <2>1. ~stream'.alive /\ stream'.outbox = <<>>
    BY <1>1, <1>8, RemoveHeadEffect DEF PollNone
  <2> QED BY <2>1 DEF WindowInv, OutboxBounded, SendWindowExact
<1>9. CASE PeerHeader
  <2>1. PICK flags \in SUBSET Flag, size \in Nat :
           /\ stream.recvState = NoPayload
           /\ stream' = OnInput(stream, Data(flags, size))
    BY <1>9, HeaderStep
  <2>2. /\ stream'.outbox = stream.outbox /\ stream'.send = stream.send
        /\ stream'.alive = stream.alive
    BY <1>1, <2>1, OnDataEffect DEF SameWindow, SameOutbox
  <2> QED BY <1>9, <2>2, SameWindowInv DEF PeerHeader
<1>10. CASE PeerPayload
  <2>1. PICK chunk \in Chunk :
           /\ stream' = OnInput(stream, DataChunk(chunk))
           /\ stream.recvState \in Nat /\ Len(chunk) <= stream.recvState
    BY <1>10, PayloadStep
  <2>2. /\ stream'.outbox = stream.outbox /\ stream'.send = stream.send
        /\ stream'.alive = stream.alive
    BY <1>1, <2>1, OnDataChunkEffect DEF SameOutbox
  <2> QED BY <1>10, <2>2, SameWindowInv DEF PeerPayload
<1>11. CASE PeerUpdate \/ PeerFin \/ PeerReset
  <2>1. PICK flags \in SUBSET Flag, delta \in Nat :
           /\ stream' = OnInput(stream, WindowUpdate(flags, delta))
           /\ granted' = granted + delta
           /\ accepted' = accepted
    BY <1>11, UpdateSteps
  <2>2. /\ stream'.outbox = stream.outbox /\ stream'.alive = stream.alive
        /\ stream'.send = stream.send + delta
    BY <1>1, <2>1, OnWindowUpdateEffect DEF SameOutbox
  <2> DEFINE bytes == OutboxBytes(stream.outbox)
             send == stream.send
  <2>3. stream.alive => send + accepted = InitialWindow + granted + bytes
    BY DEF WindowInv, SendWindowExact
  <2>4. bytes \in Nat /\ send \in Nat
    BY <1>1
  <2>5. ASSUME stream.alive
        PROVE  (send + delta) + accepted
                  = InitialWindow + (granted + delta) + bytes
    <3> HIDE DEF bytes, send
    <3>1. send + accepted = InitialWindow + granted + bytes
      BY <2>3, <2>5
    <3>2. accepted \in Nat /\ granted \in Nat
      BY <1>1
    <3> QED BY ONLY <2>4, <3>1, <3>2, WindowAssumption, delta \in Nat
  <2> QED BY <2>1, <2>2, <2>5 DEF WindowInv, OutboxBounded, SendWindowExact
<1>12. CASE UNCHANGED vars
  BY <1>12, SameWindowInv DEF vars
<1> QED
  BY <1>2, <1>3, <1>4, <1>5, <1>6, <1>7, <1>8, <1>9, <1>10, <1>11, <1>12
     DEF Next

\* Every byte poll_write took is in the channel or charged to the window once,
\* and every credit of the peer is added once: poll_next's saturating_sub is
\* plain subtraction, for every chunk size and window.
THEOREM SendWindowCorrect == Spec => []SendWindowExact
<1>1. Spec => [](Typed /\ WindowInv)
  <2>1. Typed /\ WindowInv /\ [Next]_vars => (Typed /\ WindowInv)'
    BY NextTyped, NextWindow
  <2> QED BY InitTyped, InitWindow, <2>1, PTL DEF Spec
<1>2. WindowInv => SendWindowExact
  BY DEF WindowInv
<1> QED BY <1>1, <1>2, PTL

-----------------------------------------------------------------------------
\* The credit returned to the peer.

\* CreditExact with its terms named: what is queued, and what is still to come
\* of a payload whose header has arrived.
Pending == IF peer.pending = NoPayload THEN 0 ELSE peer.pending

CreditInv ==
    stream.alive =>
      /\ stream.recv + Credit(stream.outs) + credited
           = InitialWindow + received - Pending
      /\ stream.recv + ChunkCapacity < UpdateThreshold

LEMMA PendingType ==
  ASSUME Typed
  PROVE  /\ Pending \in Nat /\ stream \in HeadState
         /\ stream.outs \in Seq(StreamEvent) /\ stream.recv \in Nat
         /\ Credit(stream.outs) \in Nat
         /\ credited \in Nat /\ received \in Nat
<1>1. /\ stream \in HeadState /\ peer \in PeerState
      /\ credited \in Nat /\ received \in Nat
  BY DEF Typed, TypeOK
<1>2. Pending \in Nat
  BY <1>1 DEF Pending, PeerState
<1>3. stream.outs \in Seq(StreamEvent) /\ stream.recv \in Nat
  BY <1>1 DEF HeadState
<1> QED BY <1>1, <1>2, <1>3, TotalsType

LEMMA ThresholdType == UpdateThreshold \in Nat /\ ChunkCapacity < UpdateThreshold
  BY WindowAssumption, ThresholdAssumption DEF UpdateThreshold

LEMMA InitCredit == Init => CreditInv
<1> SUFFICES ASSUME Init PROVE CreditInv
  OBVIOUS
<1>1. OpenStream.recv = 0
  BY NewHeadEffect DEF OpenStream, Flag
<1>2. AcceptStream \in HeadState /\ AcceptStream.recv = 0
  BY NewHeadEffect DEF AcceptStream, Flag
<1>3. OnInput(AcceptStream, Syn).recv = 0
  BY <1>2, OnWindowUpdateEffect, WindowAssumption DEF Syn, Flag
<1>4. stream.recv = 0
  BY <1>1, <1>3 DEF Init
<1>5. PICK flag \in Flag : stream.outs = <<WindowUpdate({flag}, InitialWindow)>>
  <2>1. OpenStream.outs = <<WindowUpdate({"SYN"}, InitialWindow)>>
    BY NewHeadEffect DEF OpenStream, Flag
  <2>2. AcceptStream.outs = <<WindowUpdate({"ACK"}, InitialWindow)>>
    BY NewHeadEffect DEF AcceptStream, Flag
  <2>3. OnInput(AcceptStream, Syn).outs = AcceptStream.outs
    <3>1. PICK flags \in SUBSET Flag, delta \in Nat :
             Syn = WindowUpdate(flags, delta) /\ flags = {"SYN"}
      BY WindowAssumption DEF Syn, Flag
    <3>2. HandleFlag(AcceptStream, flags).outs = AcceptStream.outs
      BY <1>2, <3>1, HandleFlagEffect
    <3> QED BY <1>2, <3>1, <3>2, OnWindowUpdateEffect
  <2> QED BY <2>1, <2>2, <2>3 DEF Init, Flag
<1> DEFINE event == WindowUpdate({flag}, InitialWindow)
<1>6. event \in StreamEvent /\ CreditOf(event) = InitialWindow
  <2>1. PICK flags \in SUBSET Flag : flags = {flag}
    BY <1>5
  <2> QED BY <2>1, WindowAssumption, WindowUpdateType, OfEvents
<1> HIDE DEF event
<1>7. Credit(stream.outs) = 0 + InitialWindow
  <2>1. stream.outs = Append(<<>>, event) /\ <<>> \in Seq(StreamEvent)
    BY <1>5, <1>6 DEF event
  <2> QED BY <1>6, <2>1, TotalsAppend, TotalsEmpty
<1>8. credited = 0 /\ received = 0 /\ peer.pending = NoPayload
  BY InitPeer DEF Init
<1>9. Pending = 0
  BY <1>8 DEF Pending
<1> QED BY <1>4, <1>7, <1>8, <1>9, WindowAssumption, ThresholdType,
           ChunkAssumption DEF CreditInv

\* A step that leaves window.recv, the queue's credit and the account alone.
LEMMA SameCredit ==
  ASSUME Typed, CreditInv, stream'.alive => stream.alive,
         stream'.recv = stream.recv,
         Credit(stream'.outs) = Credit(stream.outs),
         UNCHANGED <<credited, received, peer>>
  PROVE  CreditInv'
  BY DEF CreditInv, Pending

\* Flags make the head queue no credit.
LEMMA FlagCredit ==
  ASSUME NEW s \in HeadState, NEW flags \in SUBSET Flag
  PROVE  Credit(HandleFlag(s, flags).outs) = Credit(s.outs)
<1>1. s.outs \in Seq(StreamEvent) /\ Credit(s.outs) \in Nat
  BY TotalsType DEF HeadState
<1>2. Credit(Append(s.outs, Fin)) = Credit(s.outs) + 0
  BY <1>1, FinType, OfEvents, TotalsAppend
<1>3. CASE HandleFlag(s, flags).outs = s.outs
  BY <1>3
<1>4. CASE HandleFlag(s, flags).outs = Append(s.outs, Fin)
  <2> DEFINE after == Append(s.outs, Fin)
  <2>1. Credit(after) = Credit(s.outs) + 0
    BY <1>2
  <2> HIDE DEF after
  <2>2. Credit(after) = Credit(s.outs)
    BY <1>1, <2>1
  <2> QED BY <1>4, <2>2 DEF after
<1> QED BY <1>3, <1>4, HandleFlagEffect

LEMMA NextCredit == Typed /\ CreditInv /\ [Next]_vars => CreditInv'
<1> SUFFICES ASSUME Typed, CreditInv, [Next]_vars PROVE CreditInv'
  OBVIOUS
<1>1. /\ Pending \in Nat /\ stream \in HeadState
      /\ stream.outs \in Seq(StreamEvent) /\ stream.recv \in Nat
      /\ Credit(stream.outs) \in Nat
      /\ credited \in Nat /\ received \in Nat
  BY PendingType
<1>2. CASE Write
  <2>1. PICK buf \in Chunk : /\ stream' = PollWrite(stream, buf)
                             /\ UNCHANGED <<credited, received, peer>>
    BY <1>2, WriteStep
  <2> QED BY <1>1, <2>1, PollWriteEffect, SameCredit DEF HeadKept, SameWindow
<1>3. CASE Close
  BY <1>1, <1>3, PollCloseEffect, SameCredit DEF Close, HeadKept, SameWindow
<1>4. CASE Drop
  BY <1>1, <1>4, DropHandleEffect, SameCredit DEF Drop, HeadKept, SameWindow
<1>5. CASE Read
  <2>1. PICK room \in Nat : /\ stream' = PollRead(stream, room)
                            /\ UNCHANGED <<credited, received, peer>>
    BY <1>5, ReadStep
  <2>2. /\ stream'.recv = stream.recv /\ stream'.outs = stream.outs
        /\ stream'.alive = stream.alive
    BY <1>1, <2>1, PollReadEffect DEF HeadKept, SameWindow
  <2> QED BY <2>1, <2>2, SameCredit
<1>6. CASE PollItem
  <2> DEFINE filled == Filled(stream)
             sent == CreditOf(Head(filled.outs))
             queued == Credit(stream.outs)
             left == Credit(stream'.outs)
  <2>1. /\ filled.outs # <<>> /\ stream'.outs = Tail(filled.outs)
        /\ PolledItem(stream) = Head(filled.outs)
        /\ PolledItem(stream) \in StreamEvent
        /\ stream'.recv = stream.recv /\ stream' \in HeadState
    BY <1>1, <1>6, PolledEffect DEF PollItem, Kept
  <2>2. filled.outs \in Seq(StreamEvent) /\ Credit(filled.outs) = queued
    BY <1>1, FilledEffect, FilledTotals DEF HeadState
  <2>3. queued = sent + left
    BY <2>1, <2>2, TotalsTail
  <2>4. sent \in Nat /\ left \in Nat
    BY <2>1, OfType, TotalsType DEF HeadState
  <2>5. credited' = credited + sent /\ peer' = peer /\ received' = received
    BY <1>6, <2>1 DEF PollItem, RecordSent
  <2>6. Pending' = Pending
    BY <2>5 DEF Pending
  <2>7. stream.alive
    BY <1>6 DEF PollItem
  <2> HIDE DEF filled, sent
  <2>8. /\ stream.recv + queued + credited = InitialWindow + received - Pending
        /\ stream.recv + ChunkCapacity < UpdateThreshold
    BY <2>7 DEF CreditInv
  <2>9. stream.recv + left + (credited + sent) = stream.recv + queued + credited
    <3> HIDE DEF left, queued
    <3> QED BY <1>1, <2>3, <2>4
  <2>10. stream'.recv + left + credited' = InitialWindow + received' - Pending'
    BY <2>1, <2>5, <2>6, <2>8, <2>9
  <2> QED BY <2>1, <2>8, <2>10 DEF CreditInv
<1>7. CASE PollPending
  <2>1. stream' = Polled(stream) /\ UNCHANGED <<credited, received, peer>>
        /\ ~PollsItem(stream)
    BY <1>7 DEF PollPending
  <2>2. stream'.outs = Filled(stream).outs /\ stream'.recv = stream.recv
        /\ stream'.alive = stream.alive
    BY <1>1, <2>1, PolledEffect DEF Kept
  <2> QED BY <1>1, <2>1, <2>2, FilledTotals, SameCredit
<1>8. CASE PollNone
  BY <1>1, <1>8, RemoveHeadEffect DEF PollNone, CreditInv
<1>9. CASE PeerHeader
  <2>1. PICK flags \in SUBSET Flag, size \in Nat :
           /\ stream' = OnInput(stream, Data(flags, size))
           /\ stream.recvState = NoPayload /\ stream.alive
           /\ peer' = Announced(flags, size)
           /\ received' = received + size /\ credited' = credited
    BY <1>9, HeaderStep
  <2>2. /\ stream'.outs = HandleFlag(stream, flags).outs
        /\ stream'.recv = stream.recv
    BY <1>1, <2>1, OnDataEffect DEF SameWindow
  <2>3. Credit(stream'.outs) = Credit(stream.outs)
    BY <1>1, <2>2, FlagCredit
  <2>4. Pending = 0
    BY <2>1 DEF Typed, PayloadInStep, Pending
  <2>5. Pending' = size
    <3>1. peer'.pending = size
      BY <2>1, PeerNotes DEF Typed, TypeOK
    <3> QED BY <3>1, NoPayloadAssumption DEF Pending
  <2> QED BY <1>1, <2>1, <2>2, <2>3, <2>4, <2>5, WindowAssumption
          DEF CreditInv
<1>10. CASE PeerPayload
  <2>1. PICK chunk \in Chunk :
           /\ stream' = OnInput(stream, DataChunk(chunk))
           /\ stream.recvState \in Nat /\ Len(chunk) <= stream.recvState
           /\ stream.alive /\ stream.recvState = peer.pending
           /\ peer' = PendingAfter(chunk)
           /\ received' = received /\ credited' = credited
    BY <1>10, PayloadStep
  <2> DEFINE n == Len(chunk)
             queued == Credit(stream.outs)
  <2>2. n \in Nat /\ n <= Pending /\ Pending = peer.pending
    BY <2>1, NoPayloadAssumption DEF Chunk, Pending
  <2>3. Pending' = Pending - n
    <3> DEFINE left == IF peer.pending = Len(chunk) THEN NoPayload
                       ELSE peer.pending - Len(chunk)
    <3>1. peer' = [peer EXCEPT !.pending = left]
      BY <2>1 DEF PendingAfter
    <3>2. peer'.pending = left
      BY <3>1 DEF Typed, TypeOK, PeerState
    <3>3. (IF left = NoPayload THEN 0 ELSE left) = peer.pending - n
      BY <1>1, <2>2, NoPayloadAssumption
    <3> HIDE DEF left
    <3> QED BY <2>2, <3>2, <3>3 DEF Pending
  <2>4. /\ stream'.recv \in Nat /\ Credit(stream'.outs) \in Nat
        /\ stream'.recv + Credit(stream'.outs) = stream.recv + n + queued
        /\ stream'.recv + ChunkCapacity < UpdateThreshold
    <3>1. \/ /\ stream'.recv = stream.recv + n /\ stream'.outs = stream.outs
             /\ ~(stream'.recv + ChunkCapacity >= UpdateThreshold)
          \/ /\ stream'.recv = 0
             /\ stream'.outs = Append(stream.outs,
                                       WindowUpdate({}, stream.recv + n))
      BY <1>1, <2>1, OnDataChunkEffect
    <3>2. CASE /\ stream'.recv = stream.recv + n /\ stream'.outs = stream.outs
               /\ ~(stream'.recv + ChunkCapacity >= UpdateThreshold)
      <4> HIDE DEF n
      <4> QED BY <1>1, <2>2, <3>2, ThresholdType, ChunkAssumption
    <3>3. CASE /\ stream'.recv = 0
               /\ stream'.outs = Append(stream.outs,
                                         WindowUpdate({}, stream.recv + n))
      <4> DEFINE credit == stream.recv + n
      <4>1. credit \in Nat
        BY <1>1, <2>2
      <4> HIDE DEF n
      <4>2. PICK flags \in SUBSET Flag : flags = {}
        OBVIOUS
      <4>3. /\ WindowUpdate({}, credit) \in StreamEvent
            /\ CreditOf(WindowUpdate({}, credit)) = credit
        BY <4>1, <4>2, WindowUpdateType, OfEvents
      <4>4. Credit(stream'.outs) = queued + credit
        BY <1>1, <3>3, <4>3, TotalsAppend
      <4> QED BY <1>1, <2>2, <3>3, <4>1, <4>4, ThresholdType, ChunkAssumption
    <3> QED BY <3>1, <3>2, <3>3
  <2> HIDE DEF n
  <2>5. stream.recv + queued + credited = InitialWindow + received - Pending
    BY <2>1 DEF CreditInv
  <2> DEFINE recv == stream'.recv
             left == Credit(stream'.outs)
  <2>6. recv + left + credited = InitialWindow + received - (Pending - n)
    <3>1. recv \in Nat /\ left \in Nat /\ recv + left = stream.recv + n + queued
      BY <2>4
    <3> HIDE DEF recv, left, queued
    <3>2. queued \in Nat
      BY <1>1 DEF queued
    <3>3. /\ n \in Nat /\ n <= Pending /\ Pending \in Nat /\ credited \in Nat
          /\ received \in Nat /\ stream.recv \in Nat
      BY <1>1, <2>2
    <3>4. stream.recv + queued + credited = InitialWindow + received - Pending
      BY <2>5 DEF queued
    <3> QED BY <3>1, <3>2, <3>3, <3>4, WindowAssumption
  <2> QED BY <2>1, <2>3, <2>4, <2>6 DEF CreditInv
<1>11. CASE PeerUpdate \/ PeerFin \/ PeerReset
  <2>1. PICK flags \in SUBSET Flag, delta \in Nat :
           /\ stream' = OnInput(stream, WindowUpdate(flags, delta))
           /\ UNCHANGED <<received, credited>>
    BY <1>11, UpdateSteps
  <2>2. /\ stream'.outs = HandleFlag(stream, flags).outs
        /\ stream'.recv = stream.recv /\ stream'.alive = stream.alive
    BY <1>1, <2>1, OnWindowUpdateEffect
  <2>3. Credit(stream'.outs) = Credit(stream.outs)
    BY <1>1, <2>2, FlagCredit
  <2>4. peer'.pending = peer.pending
    BY <1>11 DEF PeerUpdate, PeerFin, PeerReset, Noted, Typed, TypeOK, PeerState
  <2> QED BY <2>1, <2>2, <2>3, <2>4 DEF CreditInv, Pending
<1>12. CASE UNCHANGED vars
  BY <1>12, SameCredit DEF vars
<1> QED
  BY <1>2, <1>3, <1>4, <1>5, <1>6, <1>7, <1>8, <1>9, <1>10, <1>11, <1>12
     DEF Next

\* Every payload byte that has arrived is credited back once, in window.recv or
\* in one window update, queued or sent; and window.recv never gets as far as to
\* leave the peer without credit for a full chunk.
THEOREM CreditCorrect == Spec => []CreditExact
<1>1. Typed /\ CreditInv /\ [Next]_vars => (Typed /\ CreditInv)'
  BY NextTyped, NextCredit
<1>2. Spec => [](Typed /\ CreditInv)
  BY InitTyped, InitCredit, <1>1, PTL DEF Spec
<1>3. CreditInv => CreditExact
  BY DEF CreditInv, CreditExact, Pending
<1> QED BY <1>2, <1>3, PTL

-----------------------------------------------------------------------------
\* The framing of what the head queues.

LEMMA InputQueues ==
  ASSUME Typed, PeerHeader \/ PeerPayload \/ PeerUpdate \/ PeerFin \/ PeerReset
  PROVE  QueuesUpdate(stream, stream')
<1>1. stream \in HeadState
  BY DEF Typed, TypeOK
<1>2. CASE PeerHeader
  <2>1. PICK flags \in SUBSET Flag, size \in Nat :
           /\ stream.recvState = NoPayload
           /\ stream' = OnInput(stream, Data(flags, size))
    BY <1>2, HeaderStep
  <2>2. /\ stream'.outs = HandleFlag(stream, flags).outs
        /\ stream'.local <=> HandleFlag(stream, flags).local
    BY <1>1, <2>1, OnDataEffect DEF SameState
  <2> QED BY <1>1, <2>2, FlagQueues
<1>3. CASE PeerPayload
  <2>1. PICK chunk \in Chunk :
           /\ stream' = OnInput(stream, DataChunk(chunk))
           /\ stream.recvState \in Nat /\ Len(chunk) <= stream.recvState
    BY <1>3, PayloadStep
  <2>2. Len(chunk) \in Nat
    BY DEF Chunk
  <2>3. \/ stream'.outs = stream.outs
        \/ stream'.outs = Append(stream.outs,
                                 WindowUpdate({}, stream.recv + Len(chunk)))
    BY <1>1, <2>1, OnDataChunkEffect
  <2>4. stream.local <=> stream'.local
    BY <1>1, <2>1, OnDataChunkEffect DEF SameState
  <2> QED BY <1>1, <2>2, <2>3, <2>4, ChunkQueues DEF QueuesUpdate
<1>4. CASE PeerUpdate \/ PeerFin \/ PeerReset
  <2>1. PICK flags \in SUBSET Flag, delta \in Nat :
           stream' = OnInput(stream, WindowUpdate(flags, delta))
    BY <1>4, UpdateSteps
  <2>2. /\ stream'.outs = HandleFlag(stream, flags).outs
        /\ stream'.local <=> HandleFlag(stream, flags).local
    BY <1>1, <2>1, OnWindowUpdateEffect DEF SameState
  <2> QED BY <1>1, <2>2, FlagQueues
<1> QED BY <1>2, <1>3, <1>4

\* The handle's steps do not reach what the head queues.
LEMMA HandleQueues ==
  ASSUME Typed, Write \/ Close \/ Drop \/ Read
  PROVE  /\ stream'.outs = stream.outs /\ (stream'.local <=> stream.local)
         /\ (stream'.remote <=> stream.remote)
         /\ fins' = fins /\ writer' = writer /\ peer' = peer
<1>1. stream \in HeadState
  BY DEF Typed, TypeOK
<1>2. CASE Write
  <2>1. PICK buf \in Chunk : stream' = PollWrite(stream, buf)
    BY <1>2, WriteStep
  <2> QED BY <1>1, <1>2, <2>1, PollWriteEffect DEF Write, HeadKept, SameState
<1>3. CASE Close
  BY <1>1, <1>3, PollCloseEffect DEF Close, HeadKept, SameState
<1>4. CASE Drop
  BY <1>1, <1>4, DropHandleEffect DEF Drop, HeadKept, SameState
<1>5. CASE Read
  <2>1. PICK room \in Nat : stream' = PollRead(stream, room)
    BY <1>5, ReadStep
  <2> QED BY <1>1, <1>5, <2>1, PollReadEffect DEF Read, HeadKept, SameState
<1> QED BY <1>2, <1>3, <1>4, <1>5

LEMMA InitQueue ==
  ASSUME Init
  PROVE  /\ stream.local /\ stream.txOpen /\ stream.outbox = <<>>
         /\ fins = 0 /\ writer = NoPayload
         /\ \E event \in StreamEvent : /\ event.kind = "WindowUpdate"
                                       /\ ~HasFin(event)
                                       /\ stream.outs = <<event>>
<1> DEFINE Opening(s, flag) == /\ s.local /\ s.txOpen /\ s.outbox = <<>>
                               /\ s.outs = <<WindowUpdate({flag}, InitialWindow)>>
<1>1. Opening(OpenStream, "SYN")
  BY NewHeadEffect DEF OpenStream, Flag
<1>2. Opening(AcceptStream, "ACK") /\ AcceptStream \in HeadState
  BY NewHeadEffect DEF AcceptStream, Flag
<1>3. Opening(OnInput(AcceptStream, Syn), "ACK")
  <2>1. PICK flags \in SUBSET Flag, delta \in Nat :
           Syn = WindowUpdate(flags, delta) /\ flags = {"SYN"}
    BY WindowAssumption DEF Syn, Flag
  <2> DEFINE h == HandleFlag(AcceptStream, flags)
             t == OnInput(AcceptStream, Syn)
  <2>2. "RST" \notin flags
    BY <2>1
  <2>3. h.outs = AcceptStream.outs /\ h.local
    BY <1>2, <2>1, <2>2, HandleFlagEffect
  <2>4. /\ t.outs = h.outs /\ (t.local <=> h.local)
        /\ t.outbox = AcceptStream.outbox /\ t.txOpen = AcceptStream.txOpen
    BY <1>2, <2>1, OnWindowUpdateEffect DEF SameState, SameOutbox
  <2> HIDE DEF h, t
  <2>5. Opening(t, "ACK")
    BY <1>2, <2>3, <2>4
  <2> QED BY <2>5 DEF t
<1>4. PICK flag \in {"SYN", "ACK"} : Opening(stream, flag)
  BY <1>1, <1>3 DEF Init
<1>5. PICK event \in StreamEvent : /\ event = WindowUpdate({flag}, InitialWindow)
                                   /\ event.kind = "WindowUpdate"
                                   /\ event.flags = {flag}
  BY WindowUpdateType, WindowAssumption DEF Flag
<1>6. ~HasFin(event)
  BY <1>5 DEF HasFin, EventFlags
<1> QED BY <1>4, <1>5, <1>6 DEF Init

LEMMA InitFramed == Init => DataFramed
<1> SUFFICES ASSUME Init PROVE DataFramed
  OBVIOUS
<1>1. PICK event \in StreamEvent : /\ event.kind = "WindowUpdate"
                                   /\ stream.outs = <<event>>
  BY InitQueue
<1>2. writer = NoPayload
  BY InitQueue
<1>3. Len(stream.outs) = 1 /\ stream.outs[1] = event
  BY <1>1
<1> QED BY <1>1, <1>2, <1>3 DEF DataFramed, Framed

LEMMA NextFramed == Typed /\ DataFramed /\ [Next]_vars => DataFramed'
<1> SUFFICES ASSUME Typed, DataFramed, [Next]_vars PROVE DataFramed'
  OBVIOUS
<1>1. stream \in HeadState /\ stream.outs \in Seq(StreamEvent)
  BY DEF Typed, TypeOK, HeadState
<1>2. Framed(stream.outs, writer)
  BY DEF DataFramed
<1>3. CASE Write \/ Close \/ Drop \/ Read
  <2>1. stream'.outs = stream.outs /\ writer' = writer
    BY <1>3, HandleQueues
  <2> QED BY <1>2, <2>1 DEF DataFramed
<1>4. CASE PollItem
  <2> DEFINE filled == Filled(stream)
  <2>1. /\ filled.outs # <<>> /\ stream'.outs = Tail(filled.outs)
        /\ PolledItem(stream) = Head(filled.outs)
    BY <1>1, <1>4, PolledEffect DEF PollItem
  <2>2. filled \in HeadState /\ Framed(filled.outs, writer)
    BY <1>1, <1>2, FramedFilled, FilledEffect
  <2>3. filled.outs \in Seq(StreamEvent)
    BY <2>2 DEF HeadState
  <2>4. writer' = Owed(Head(filled.outs), writer)
    BY <1>4, <2>1 DEF PollItem, RecordSent, Owed
  <2> HIDE DEF filled
  <2>5. Framed(stream'.outs, writer')
    BY <2>1, <2>2, <2>3, <2>4, FramedTail
  <2> QED BY <2>5 DEF DataFramed
<1>5. CASE PollPending
  <2>1. stream'.outs = Filled(stream).outs /\ writer' = writer
    BY <1>1, <1>5, PolledEffect DEF PollPending
  <2>2. Framed(stream'.outs, writer')
    BY <1>1, <1>2, <2>1, FramedFilled
  <2> QED BY <2>2 DEF DataFramed
<1>6. CASE PollNone
  <2>1. stream'.outs = stream.outs /\ writer' = writer
    BY <1>1, <1>6, RemoveHeadEffect DEF PollNone, PollsNone
  <2> QED BY <1>2, <2>1 DEF DataFramed
<1>7. CASE PeerHeader \/ PeerPayload \/ PeerUpdate \/ PeerFin \/ PeerReset
  <2>1. QueuesUpdate(stream, stream')
    BY <1>7, InputQueues
  <2>2. writer' = writer
    BY <1>7 DEF PeerHeader, PeerPayload, PeerUpdate, PeerFin, PeerReset
  <2>3. Framed(stream'.outs, writer)
    BY <1>1, <1>2, <2>1, FramedUpdate DEF QueuesUpdate
  <2> QED BY <2>2, <2>3 DEF DataFramed
<1>8. CASE UNCHANGED vars
  BY <1>8, <1>2 DEF vars, DataFramed
<1> QED
  BY <1>3, <1>4, <1>5, <1>6, <1>7, <1>8 DEF Next

\* A data header is always followed by its payload: window updates and FINs,
\* which are queued at any moment, never come between the two.
THEOREM FramingCorrect == Spec => []DataFramed
<1>1. Typed /\ DataFramed /\ [Next]_vars => (Typed /\ DataFramed)'
  BY NextTyped, NextFramed
<1>2. Spec => [](Typed /\ DataFramed)
  BY InitTyped, InitFramed, <1>1, PTL DEF Spec
<1> QED BY <1>2, PTL

-----------------------------------------------------------------------------
\* The FIN, and that no data follows it.

LEMMA OneFinUpdate ==
  ASSUME NEW outs \in Seq(StreamEvent), NEW before \in BOOLEAN,
         NEW after \in BOOLEAN, NEW n \in Nat, OneFin(before, outs, n),
         NEW event \in StreamEvent,
         IF HasFin(event) THEN before /\ ~after ELSE before <=> after
  PROVE  OneFin(after, Append(outs, event), n)
<1> DEFINE longer == Append(outs, event)
           m == Len(outs)
           queued == {i \in 1..m : HasFin(outs[i])}
           requeued == {i \in 1..m + 1 : HasFin(longer[i])}
<1>1. /\ m \in Nat /\ Len(longer) = m + 1 /\ longer[m + 1] = event
      /\ \A i \in 1..m : longer[i] = outs[i]
  OBVIOUS
<1>2. requeued = queued \cup (IF HasFin(event) THEN {m + 1} ELSE {})
  <2> HIDE DEF longer, m
  <2> QED BY <1>1
<1>3. IF before THEN n = 0 /\ queued = {}
      ELSE \/ n = 1 /\ queued = {}
           \/ n = 0 /\ \E i \in 1..m : queued = {i}
  BY DEF OneFin
<1>4. IF after THEN n = 0 /\ requeued = {}
      ELSE \/ n = 1 /\ requeued = {}
           \/ n = 0 /\ \E i \in 1..m + 1 : requeued = {i}
  <2> HIDE DEF longer, m, queued, requeued
  <2>1. CASE HasFin(event)
    <3>1. requeued = {m + 1} /\ n = 0 /\ ~after
      BY <1>2, <1>3, <2>1
    <3> QED BY <1>1, <3>1
  <2>2. CASE ~HasFin(event)
    <3>1. requeued = queued /\ (before <=> after)
      BY <1>2, <2>2
    <3>2. 1..m \subseteq 1..m + 1
      BY <1>1
    <3> QED BY <1>3, <3>1, <3>2, Zenon
  <2> QED BY <2>1, <2>2
<1> HIDE DEF longer
<1> QED BY <1>1, <1>4 DEF OneFin, longer

LEMMA FinLastUpdate ==
  ASSUME NEW outs \in Seq(StreamEvent), NEW n, FinLast(outs, n),
         NEW event \in StreamEvent, event.kind = "WindowUpdate"
  PROVE  FinLast(Append(outs, event), n)
<1> DEFINE longer == Append(outs, event)
           m == Len(outs)
<1>1. /\ m \in Nat /\ Len(longer) = m + 1 /\ longer[m + 1] = event
      /\ \A i \in 1..m : longer[i] = outs[i]
  OBVIOUS
<1>2. ASSUME NEW j \in 1..m, n = 1 \/ \E i \in 1..j - 1 : HasFin(longer[i])
      PROVE  longer[j].kind = "WindowUpdate"
  <2>1. j \in 1..Len(outs)
    OBVIOUS
  <2> HIDE DEF longer, m
  <2>2. n = 1 \/ \E i \in 1..j - 1 : HasFin(outs[i])
    BY <1>1, <1>2
  <2>3. outs[j].kind = "WindowUpdate"
    BY <2>1, <2>2, Zenon DEF FinLast
  <2> QED BY <1>1, <2>3
<1> HIDE DEF longer, m
<1>3. \A j \in 1..Len(longer) : j \in 1..m \/ j = m + 1
  BY <1>1
<1>4. longer[m + 1].kind = "WindowUpdate"
  BY <1>1
<1> QED BY <1>2, <1>3, <1>4, Zenon DEF FinLast, longer

LEMMA OneFinData ==
  ASSUME NEW outs \in Seq(StreamEvent), NEW local \in BOOLEAN, NEW n \in Nat,
         OneFin(local, outs, n), NEW chunk \in Chunk
  PROVE  OneFin(local,
                outs \o <<Data({}, Len(chunk)), DataChunk(chunk)>>, n)
<1> DEFINE header == Data({}, Len(chunk))
           payload == DataChunk(chunk)
<1>1. ~HasFin(header) /\ ~HasFin(payload)
  BY DEF HasFin, EventFlags, Data, DataChunk
<1>2. header \in StreamEvent /\ payload \in StreamEvent
  <2>1. Len(chunk) \in Nat
    BY DEF Chunk
  <2>2. PICK flags \in SUBSET Flag, size \in Nat : flags = {} /\ size = Len(chunk)
    BY <2>1
  <2> QED BY <2>2, DataType, DataChunkType
<1> HIDE DEF header, payload
<1>3. Append(outs, header) \in Seq(StreamEvent)
  BY <1>2
<1>4. OneFin(local, Append(outs, header), n)
  BY <1>1, <1>2, OneFinUpdate
<1>5. OneFin(local, Append(Append(outs, header), payload), n)
  BY <1>1, <1>2, <1>3, <1>4, OneFinUpdate
<1>6. outs \o <<header, payload>> = Append(Append(outs, header), payload)
  BY <1>2
<1> QED BY <1>5, <1>6 DEF header, payload

\* Data is queued only while the local half is open, so with no FIN before it.
LEMMA FinLastData ==
  ASSUME NEW outs \in Seq(StreamEvent), NEW n \in Nat, OneFin(TRUE, outs, n),
         NEW chunk \in Chunk
  PROVE  FinLast(outs \o <<Data({}, Len(chunk)), DataChunk(chunk)>>, n)
<1> DEFINE header == Data({}, Len(chunk))
           payload == DataChunk(chunk)
           after == outs \o <<header, payload>>
           m == Len(outs)
<1>1. ~HasFin(header) /\ ~HasFin(payload)
  BY DEF HasFin, EventFlags, Data, DataChunk
<1> HIDE DEF header, payload
<1>2. /\ m \in Nat /\ Len(after) = m + 2
      /\ after[m + 1] = header /\ after[m + 2] = payload
      /\ \A i \in 1..m : after[i] = outs[i]
  OBVIOUS
<1>3. n = 0 /\ \A i \in 1..m : ~HasFin(outs[i])
  BY DEF OneFin
<1> HIDE DEF after, m
<1>4. \A i \in 1..Len(after) : ~HasFin(after[i])
  <2>1. \A i \in 1..Len(after) : i \in 1..m \/ i = m + 1 \/ i = m + 2
    BY <1>2
  <2> QED BY <1>1, <1>2, <1>3, <2>1
<1>5. \A j \in 1..Len(after) : \A i \in 1..j - 1 : i \in 1..Len(after)
  BY <1>2
<1> HIDE DEF after
<1>6. FinLast(after, n)
  BY <1>3, <1>4, <1>5 DEF FinLast
<1> QED BY <1>6 DEF after, header, payload

LEMMA FinTail ==
  ASSUME NEW outs \in Seq(StreamEvent), outs # <<>>, NEW local \in BOOLEAN,
         NEW n \in Nat, OneFin(local, outs, n)
  PROVE  LET sent == n + IF HasFin(Head(outs)) THEN 1 ELSE 0
         IN  /\ OneFin(local, Tail(outs), sent)
             /\ FinLast(outs, n) => FinLast(Tail(outs), sent)
<1> DEFINE rest == Tail(outs)
           m == Len(outs)
           sent == n + IF HasFin(Head(outs)) THEN 1 ELSE 0
           queued == {i \in 1..m : HasFin(outs[i])}
           requeued == {i \in 1..m - 1 : HasFin(rest[i])}
<1>1. m \in Nat /\ m >= 1
  OBVIOUS
<1>2. Len(rest) = m - 1 /\ Head(outs) = outs[1]
  OBVIOUS
<1>3. \A i \in 1..m - 1 : rest[i] = outs[i + 1]
  BY <1>1
<1>4. IF local THEN n = 0 /\ queued = {}
      ELSE \/ n = 1 /\ queued = {}
           \/ n = 0 /\ \E i \in 1..m : queued = {i}
  BY DEF OneFin
<1>5. \A i \in 1..m : HasFin(outs[i]) <=> i \in queued
  OBVIOUS
<1>6. \A i \in 1..m - 1 : HasFin(rest[i]) <=> i \in requeued
  OBVIOUS
<1>7. queued \subseteq 1..m /\ requeued \subseteq 1..m - 1
  OBVIOUS
<1>8. m = Len(outs)
  OBVIOUS
<1> HIDE DEF rest, m, queued, requeued
<1>9. \A i \in 1..m - 1 : i \in requeued <=> i + 1 \in queued
  BY <1>1, <1>3, <1>5, <1>6
<1>10. OneFin(local, rest, sent)
  <2>1. IF local THEN sent = 0 /\ requeued = {}
        ELSE \/ sent = 1 /\ requeued = {}
             \/ sent = 0 /\ \E i \in 1..m - 1 : requeued = {i}
    <3>1. CASE queued = {}
      <4>1. requeued = {} /\ ~HasFin(outs[1])
        BY <1>1, <1>5, <1>7, <1>9, <3>1
      <4> QED BY <1>2, <1>4, <3>1, <4>1
    <3>2. CASE queued # {}
      <4>1. PICK i \in 1..m : queued = {i}
        BY <1>4, <3>2
      <4>2. ~local /\ n = 0
        BY <1>4, <3>2
      <4>3. CASE i = 1
        <5>1. requeued = {} /\ HasFin(outs[1])
          BY <1>1, <1>5, <1>7, <1>9, <4>1, <4>3
        <5> QED BY <1>2, <4>2, <5>1
      <4>4. CASE i # 1
        <5>1. i - 1 \in 1..m - 1
          BY <1>1, <4>4
        <5>2. requeued = {i - 1}
          <6>1. \A k \in 1..m - 1 : k \in requeued <=> k = i - 1
            BY <1>1, <1>9, <4>1, <5>1
          <6> QED BY <1>7, <5>1, <6>1
        <5>3. ~HasFin(outs[1])
          <6>1. 1 \in 1..m /\ 1 \notin queued
            BY <1>1, <4>1, <4>4
          <6> QED BY <1>5, <6>1
        <5> QED BY <1>2, <4>2, <5>1, <5>2, <5>3
      <4> QED BY <4>3, <4>4
    <3> QED BY <3>1, <3>2
  <2> HIDE DEF sent
  <2> QED BY <1>2, <2>1 DEF OneFin, requeued
<1>11. ASSUME FinLast(outs, n) PROVE FinLast(rest, sent)
  <2>1. ASSUME NEW j \in 1..m - 1,
               sent = 1 \/ \E i \in 1..j - 1 : HasFin(rest[i])
        PROVE  n = 1 \/ \E i \in 1..j : HasFin(outs[i])
    <3>1. CASE sent = 1
      <4>1. n = 1 \/ HasFin(outs[1])
        BY <1>2, <3>1
      <4>2. 1 \in 1..j
        OBVIOUS
      <4> QED BY <4>1, <4>2, Zenon
    <3>2. CASE \E i \in 1..j - 1 : HasFin(rest[i])
      <4>1. PICK i \in 1..j - 1 : HasFin(rest[i])
        BY <3>2
      <4>2. i + 1 \in 1..j /\ i \in 1..m - 1
        BY <1>1
      <4>3. HasFin(outs[i + 1])
        BY <1>3, <4>1, <4>2
      <4> QED BY <4>2, <4>3, Zenon
    <3> QED BY <2>1, <3>1, <3>2
  <2>2. ASSUME NEW j \in 1..m - 1,
               sent = 1 \/ \E i \in 1..j - 1 : HasFin(rest[i])
        PROVE  rest[j].kind = "WindowUpdate"
    <3>1. n = 1 \/ \E i \in 1..j : HasFin(outs[i])
      BY <2>1, <2>2
    <3>2. j + 1 \in 1..Len(outs) /\ (j + 1) - 1 = j
      BY <1>1, <1>8
    <3>3. outs[j + 1].kind = "WindowUpdate"
      BY <1>11, <3>1, <3>2 DEF FinLast
    <3> QED BY <1>3, <3>3
  <2> HIDE DEF sent
  <2> QED BY <1>2, <2>2 DEF FinLast
<1> QED BY <1>10, <1>11 DEF rest

LEMMA OneFinQueued ==
  ASSUME NEW s \in HeadState, NEW t \in HeadState, QueuesUpdate(s, t),
         NEW n \in Nat, OneFin(s.local, s.outs, n)
  PROVE  OneFin(t.local, t.outs, n)
<1>1. s.outs \in Seq(StreamEvent) /\ s.local \in BOOLEAN /\ t.local \in BOOLEAN
  BY DEF HeadState
<1>2. CASE t.outs = s.outs /\ (s.local <=> t.local)
  <2>1. t.local = s.local
    BY <1>1, <1>2, Zenon
  <2> QED BY <1>2, <2>1, Zenon
<1>3. ASSUME NEW event \in StreamEvent, t.outs = Append(s.outs, event),
             IF HasFin(event) THEN s.local /\ ~t.local ELSE s.local <=> t.local
      PROVE  OneFin(t.local, t.outs, n)
  <2>1. OneFin(t.local, Append(s.outs, event), n)
    BY <1>1, <1>3, OneFinUpdate, Zenon
  <2> QED BY <1>3, <2>1, Zenon
<1> QED BY <1>2, <1>3 DEF QueuesUpdate

LEMMA OneFinTurn ==
  ASSUME NEW s \in HeadState, NEW t \in HeadState, Turn(s, t),
         NEW n \in Nat, OneFin(s.local, s.outs, n)
  PROVE  OneFin(t.local, t.outs, n)
<1>1. s.outs \in Seq(StreamEvent) /\ s.local \in BOOLEAN /\ t.local \in BOOLEAN
  BY DEF HeadState
<1>2. CASE t.outs = s.outs /\ (t.local <=> s.local)
  <2>1. t.local = s.local
    BY <1>1, <1>2, Zenon
  <2> QED BY <1>2, <2>1, Zenon
<1>3. CASE Ending(s, t)
  <2>1. CASE s.local
    <3>1. t.outs = Append(s.outs, Fin) /\ ~t.local
      BY <1>3, <2>1 DEF Ending
    <3>2. HasFin(Fin) /\ Fin \in StreamEvent
      BY FinType DEF HasFin, EventFlags
    <3> QED BY <1>1, <2>1, <3>1, <3>2, OneFinUpdate
  <2>2. CASE ~s.local
    <3>1. t.outs = s.outs /\ t.local = s.local
      BY <1>1, <1>3, <2>2, Zenon DEF Ending
    <3> QED BY <3>1, Zenon
  <2> QED BY <2>1, <2>2
<1>4. CASE s.outbox # <<>> /\ Moving(s, t)
  <2>1. Head(s.outbox) \in Chunk
    BY <1>4, RestOfOutbox
  <2>2. t.local = s.local
    BY <1>1, <1>4, Zenon DEF Moving
  <2>3. OneFin(s.local, t.outs, n)
    BY <1>1, <1>4, <2>1, OneFinData DEF Moving
  <2> QED BY <2>2, <2>3, Zenon
<1> QED BY <1>2, <1>3, <1>4 DEF Turn

LEMMA OneFinFilled ==
  ASSUME NEW s \in HeadState, NEW n \in Nat, OneFin(s.local, s.outs, n)
  PROVE  OneFin(Filled(s).local, Filled(s).outs, n)
<1>1. PICK one, two \in HeadState :
         Turn(s, one) /\ Turn(one, two) /\ Turn(two, Filled(s))
  BY FilledTurns
<1>2. Filled(s) \in HeadState
  BY FilledEffect
<1>3. OneFin(one.local, one.outs, n)
  BY <1>1, OneFinTurn
<1>4. OneFin(two.local, two.outs, n)
  BY <1>1, <1>3, OneFinTurn
<1> QED BY <1>1, <1>2, <1>4, OneFinTurn

LEMMA InitFin == Init => FinOnce /\ NoDataAfterFin
<1> SUFFICES ASSUME Init PROVE FinOnce /\ NoDataAfterFin
  OBVIOUS
<1>1. PICK event \in StreamEvent : /\ event.kind = "WindowUpdate"
                                   /\ ~HasFin(event)
                                   /\ stream.outs = <<event>>
  BY InitQueue
<1>2. stream.local /\ fins = 0
  BY InitQueue
<1>3. Len(stream.outs) = 1 /\ \A i \in 1..1 : stream.outs[i] = event
  BY <1>1
<1> QED BY <1>1, <1>2, <1>3 DEF FinOnce, OneFin, NoDataAfterFin, FinLast

LEMMA NextFinOnce == Typed /\ FinOnce /\ [Next]_vars => FinOnce'
<1> SUFFICES ASSUME Typed, FinOnce, [Next]_vars PROVE FinOnce'
  OBVIOUS
<1>1. /\ stream \in HeadState /\ stream.outs \in Seq(StreamEvent) /\ fins \in Nat
      /\ stream.local \in BOOLEAN
  BY DEF Typed, TypeOK, HeadState
<1>2. stream' \in HeadState /\ stream'.local \in BOOLEAN
  <2>1. Typed'
    BY NextTyped
  <2> QED BY <2>1 DEF Typed, TypeOK, HeadState
<1>3. OneFin(stream.local, stream.outs, fins)
  BY DEF FinOnce
<1> DEFINE filled == Filled(stream)
<1>4. /\ filled \in HeadState /\ filled.outs \in Seq(StreamEvent)
      /\ filled.local \in BOOLEAN
  BY <1>1, FilledEffect DEF HeadState
<1>5. OneFin(filled.local, filled.outs, fins)
  BY <1>1, <1>3, OneFinFilled
<1>6. CASE Write \/ Close \/ Drop \/ Read
  <2>1. /\ stream'.outs = stream.outs /\ (stream'.local <=> stream.local)
        /\ fins' = fins
    BY <1>6, HandleQueues
  <2>2. stream'.local = stream.local
    BY <1>1, <1>2, <2>1, Zenon
  <2> QED BY <1>3, <2>1, <2>2, Zenon DEF FinOnce
<1>7. CASE PollItem
  <2>1. /\ filled.outs # <<>> /\ stream'.outs = Tail(filled.outs)
        /\ PolledItem(stream) = Head(filled.outs)
        /\ stream'.local <=> filled.local
    BY <1>1, <1>7, PolledEffect DEF PollItem, SameState
  <2>2. fins' = fins + IF HasFin(Head(filled.outs)) THEN 1 ELSE 0
    BY <1>7, <2>1 DEF PollItem, RecordSent, HasFin
  <2> HIDE DEF filled
  <2>3. OneFin(filled.local, stream'.outs, fins')
    BY <1>1, <1>4, <1>5, <2>1, <2>2, FinTail
  <2>4. stream'.local = filled.local
    BY <1>2, <1>4, <2>1, Zenon
  <2> QED BY <2>3, <2>4, Zenon DEF FinOnce
<1>8. CASE PollPending
  <2>1. /\ stream'.outs = filled.outs /\ fins' = fins
        /\ stream'.local <=> filled.local
    BY <1>1, <1>8, PolledEffect DEF PollPending, SameState
  <2> HIDE DEF filled
  <2>2. stream'.local = filled.local
    BY <1>2, <1>4, <2>1, Zenon
  <2> QED BY <1>5, <2>1, <2>2, Zenon DEF FinOnce
<1>9. CASE PollNone
  <2>1. /\ stream'.outs = stream.outs /\ fins' = fins
        /\ stream'.local <=> stream.local
    BY <1>1, <1>9, RemoveHeadEffect DEF PollNone, PollsNone, SameState
  <2>2. stream'.local = stream.local
    BY <1>1, <1>2, <2>1, Zenon
  <2> QED BY <1>3, <2>1, <2>2, Zenon DEF FinOnce
<1>10. CASE PeerHeader \/ PeerPayload \/ PeerUpdate \/ PeerFin \/ PeerReset
  <2>1. QueuesUpdate(stream, stream')
    BY <1>10, InputQueues
  <2>2. fins' = fins
    BY <1>10 DEF PeerHeader, PeerPayload, PeerUpdate, PeerFin, PeerReset
  <2>3. OneFin(stream'.local, stream'.outs, fins)
    BY <1>1, <1>2, <1>3, <2>1, OneFinQueued
  <2> QED BY <2>2, <2>3, Zenon DEF FinOnce
<1>11. CASE UNCHANGED vars
  BY <1>11, <1>3 DEF vars, FinOnce
<1> QED
  BY <1>6, <1>7, <1>8, <1>9, <1>10, <1>11 DEF Next

\* However the local half ends, by a close, a drop, an empty write or a reset
\* from the peer, and in whatever order they come, exactly one FIN is sent.
THEOREM FinOnceCorrect == Spec => []FinOnce
<1>1. Typed /\ FinOnce /\ [Next]_vars => (Typed /\ FinOnce)'
  BY NextTyped, NextFinOnce
<1>2. Init => Typed /\ FinOnce
  BY InitTyped, InitFin
<1>3. Spec => [](Typed /\ FinOnce)
  BY <1>1, <1>2, PTL DEF Spec
<1> QED BY <1>3, PTL

-----------------------------------------------------------------------------
\* Nothing follows the FIN, provided that the application writes no empty
\* buffer, which poll_write would pass on as the close hint of a stream that
\* remains writable.

\* Once the local half is over, a turn of the loop has nothing left to take.
LastFin(s, n) ==
    /\ OneFin(s.local, s.outs, n) /\ FinLast(s.outs, n)
    /\ NoEmpty(s.outbox)
    /\ ~s.local => s.outbox = <<>> /\ ~s.txOpen

LEMMA LastTurn ==
  ASSUME NEW s \in HeadState, NEW t \in HeadState, Turn(s, t), Kept(s, t),
         NEW n \in Nat, LastFin(s, n)
  PROVE  LastFin(t, n)
<1>1. /\ s.outs \in Seq(StreamEvent) /\ s.outbox \in Seq(Chunk)
      /\ s.local \in BOOLEAN
  BY DEF HeadState
<1>2. OneFin(t.local, t.outs, n)
  BY OneFinTurn DEF LastFin
<1>3. t.txOpen = s.txOpen
  BY DEF Kept
<1>4. CASE /\ t.outbox = s.outbox /\ t.outs = s.outs
           /\ (t.local <=> s.local)
  BY <1>2, <1>3, <1>4 DEF LastFin
<1>5. CASE /\ s.outbox = <<>> /\ ~s.txOpen
           /\ t.outbox = s.outbox /\ Ending(s, t)
  <2>1. FinLast(t.outs, n)
    BY <1>1, <1>5, FinType, FinLastUpdate DEF Ending, LastFin
  <2> QED BY <1>2, <1>3, <1>5, <2>1 DEF LastFin
<1>6. CASE s.outbox # <<>> /\ Head(s.outbox) = <<>>
  BY <1>1, <1>6, NoEmptyTail DEF LastFin
<1>7. CASE s.outbox # <<>> /\ t.outbox = Tail(s.outbox) /\ Moving(s, t)
  <2>1. s.local /\ t.local
    BY <1>7 DEF LastFin, Moving
  <2>2. Head(s.outbox) \in Chunk
    BY <1>7, RestOfOutbox
  <2>3. OneFin(TRUE, s.outs, n)
    <3>1. s.local = TRUE
      BY <1>1, <2>1, Zenon
    <3> QED BY <3>1, Zenon DEF LastFin
  <2>4. FinLast(t.outs, n)
    BY <1>1, <1>7, <2>2, <2>3, FinLastData DEF Moving
  <2>5. NoEmpty(t.outbox)
    BY <1>1, <1>7, NoEmptyTail DEF LastFin
  <2> QED BY <1>2, <2>1, <2>4, <2>5 DEF LastFin
<1> QED BY <1>4, <1>5, <1>6, <1>7 DEF Turn

\* over says that the remote half has ended for good.
Finished(s, over) == ~s.local => over \/ (s.outbox = <<>> /\ ~s.txOpen)

LEMMA LastFilled ==
  ASSUME NEW s \in HeadState, NEW n \in Nat, NEW over \in BOOLEAN,
         over => ~s.remote, Finished(s, over),
         OneFin(s.local, s.outs, n), FinLast(s.outs, n), NoEmpty(s.outbox)
  PROVE  LET t == Filled(s) IN
         FinLast(t.outs, n) /\ NoEmpty(t.outbox) /\ Finished(t, over)
<1> DEFINE t == Filled(s)
<1>1. PICK one, two \in HeadState :
         /\ Turn(s, one) /\ Turn(one, two) /\ Turn(two, t)
         /\ Kept(s, one) /\ Kept(one, two) /\ Kept(two, t)
         /\ ~IsClosed(s) \/ t = s
  BY FilledTurns
<1>2. t \in HeadState
  BY FilledEffect
<1> HIDE DEF t
<1>3. CASE t = s
  BY <1>3 DEF t
<1>4. CASE ~IsClosed(s)
  <2>1. LastFin(s, n)
    BY <1>4 DEF IsClosed, LastFin, Finished
  <2>2. LastFin(one, n)
    BY <1>1, <2>1, LastTurn
  <2>3. LastFin(two, n)
    BY <1>1, <2>2, LastTurn
  <2>4. LastFin(t, n)
    BY <1>1, <1>2, <2>3, LastTurn
  <2> QED BY <2>4 DEF LastFin, Finished, t
<1> QED BY <1>1, <1>3, <1>4

\* The peer has acknowledged, or it has reset the stream: no ACK can open the
\* remote half again.
Heard == peer.acked \/ peer.reset
Over == ~stream.remote /\ Heard

LastInv ==
    /\ NoDataAfterFin
    /\ NoEmpty(stream.outbox)
    /\ Finished(stream, Over)

LEMMA FlagEnds ==
  ASSUME NEW s \in HeadState, NEW flags \in SUBSET Flag, NEW acked \in BOOLEAN,
         acked <=> "ACK" \notin flags
  PROVE  LET h == HandleFlag(s, flags) IN
         /\ h.local => s.local
         /\ s.local /\ ~h.local => ~h.remote
         /\ ~s.remote /\ acked => ~h.remote
  BY HandleFlagEffect

\* What the peer does to the two halves: an end of the local half is an end of
\* both, and is for good.
LEMMA InputEnds ==
  ASSUME Typed, PeerHeader \/ PeerPayload \/ PeerUpdate \/ PeerFin \/ PeerReset
  PROVE  /\ stream'.outbox = stream.outbox /\ stream'.txOpen = stream.txOpen
         /\ stream'.local => stream.local
         /\ stream.local /\ ~stream'.local => Over'
         /\ Over => Over'
<1>1. /\ stream \in HeadState /\ peer \in PeerState
      /\ peer.acked \in BOOLEAN /\ peer.reset \in BOOLEAN
  BY DEF Typed, TypeOK, PeerState
<1>2. ASSUME NEW flags \in SUBSET Flag, MaySend(flags)
      PROVE  /\ peer.acked <=> "ACK" \notin flags
             /\ ~peer.reset
             /\ Noted(flags).acked
             /\ \A size \in Nat : Announced(flags, size).acked
  <2>1. (peer.acked <=> "ACK" \notin flags) /\ ~peer.reset
    BY <1>1, <1>2 DEF MaySend
  <2> QED BY <1>1, <2>1, PeerNotes
<1>3. CASE PeerHeader
  <2>1. PICK flags \in SUBSET Flag, size \in Nat :
           /\ stream.recvState = NoPayload /\ MaySend(flags)
           /\ stream' = OnInput(stream, Data(flags, size))
           /\ peer' = Announced(flags, size)
    BY <1>3, HeaderStep
  <2>2. /\ stream'.outbox = stream.outbox /\ stream'.txOpen = stream.txOpen
        /\ stream'.local <=> HandleFlag(stream, flags).local
        /\ stream'.remote <=> HandleFlag(stream, flags).remote
    BY <1>1, <2>1, OnDataEffect DEF SameState, SameOutbox
  <2>3. peer'.acked /\ ~peer.reset /\ (peer.acked <=> "ACK" \notin flags)
    BY <1>2, <2>1
  <2> QED BY <1>1, <2>2, <2>3, FlagEnds DEF Over, Heard
<1>4. CASE PeerPayload
  <2>1. PICK chunk \in Chunk :
           /\ stream' = OnInput(stream, DataChunk(chunk))
           /\ stream.recvState \in Nat /\ Len(chunk) <= stream.recvState
           /\ peer' = PendingAfter(chunk)
    BY <1>4, PayloadStep
  <2>2. /\ stream'.outbox = stream.outbox /\ stream'.txOpen = stream.txOpen
        /\ (stream'.local <=> stream.local) /\ (stream'.remote <=> stream.remote)
    BY <1>1, <2>1, OnDataChunkEffect DEF SameState, SameOutbox
  <2>3. peer'.acked = peer.acked /\ peer'.reset = peer.reset
    BY <1>1, <2>1 DEF PeerState, PendingAfter
  <2> QED BY <2>2, <2>3 DEF Over, Heard
<1>5. ASSUME NEW flags \in SUBSET Flag, NEW delta \in Nat,
             stream' = OnInput(stream, WindowUpdate(flags, delta))
      PROVE  /\ stream'.outbox = stream.outbox /\ stream'.txOpen = stream.txOpen
             /\ stream'.local <=> HandleFlag(stream, flags).local
             /\ stream'.remote <=> HandleFlag(stream, flags).remote
  <2>1. SameOutbox(stream, stream') /\ SameState(HandleFlag(stream, flags), stream')
    BY <1>1, <1>5, OnWindowUpdateEffect
  <2> QED BY <2>1 DEF SameState, SameOutbox
<1>6. CASE PeerUpdate \/ PeerFin
  <2>1. PICK flags \in SUBSET Flag, delta \in Nat :
           /\ stream' = OnInput(stream, WindowUpdate(flags, delta))
           /\ MaySend(flags) /\ peer' = Noted(flags)
    <3>1. CASE PeerUpdate
      <4>1. PICK flags \in {{}, {"ACK"}}, delta \in PeerDeltas :
               /\ stream' = OnInput(stream, WindowUpdate(flags, delta))
               /\ MaySend(flags) /\ peer' = Noted(flags)
        BY <3>1 DEF PeerUpdate
      <4>2. flags \in SUBSET Flag /\ delta \in Nat
        BY SizesAssumption DEF Flag
      <4> QED BY <4>1, <4>2
    <3>2. CASE PeerFin
      BY <3>2 DEF PeerFin, Flag
    <3> QED BY <1>6, <3>1, <3>2
  <2>2. peer'.acked /\ ~peer.reset /\ (peer.acked <=> "ACK" \notin flags)
    BY <1>2, <2>1
  <2> QED BY <1>1, <1>5, <2>1, <2>2, FlagEnds DEF Over, Heard
<1>7. CASE PeerReset
  <2>1. PICK flags \in SUBSET Flag, delta \in Nat :
           /\ stream' = OnInput(stream, WindowUpdate(flags, delta))
           /\ flags = {"RST"}
    BY <1>7 DEF PeerReset, Flag
  <2>2. peer'.reset
    BY <1>1, <1>7, <2>1, PeerNotes DEF PeerReset
  <2>3. ~HandleFlag(stream, flags).remote /\ ~HandleFlag(stream, flags).local
    BY <1>1, <2>1, HandleFlagEffect
  <2> QED BY <1>1, <1>5, <2>1, <2>2, <2>3 DEF Over, Heard
<1> QED BY <1>3, <1>4, <1>6, <1>7

LEMMA InitLast == Init => LastInv
<1> SUFFICES ASSUME Init PROVE LastInv
  OBVIOUS
<1>1. stream.local /\ stream.outbox = <<>>
  BY InitQueue
<1> QED BY <1>1, InitFin DEF LastInv, NoEmpty, Finished

\* A poll, whatever it returns.
LEMMA PollLast ==
  ASSUME Typed, FinOnce, LastInv, stream' = Polled(stream), peer' = peer,
         PollsItem(stream) => RecordSent(PolledItem(stream)),
         ~PollsItem(stream) => fins' = fins
  PROVE  LastInv'
<1> DEFINE filled == Filled(stream)
<1>1. stream \in HeadState /\ fins \in Nat
  BY DEF Typed, TypeOK
<1>2. /\ FinLast(filled.outs, fins) /\ NoEmpty(filled.outbox)
      /\ Finished(filled, Over)
  <2>1. Over \in BOOLEAN /\ (Over => ~stream.remote)
    BY DEF Over
  <2> QED BY <1>1, <2>1, LastFilled DEF LastInv, FinOnce, NoDataAfterFin
<1>3. /\ filled \in HeadState /\ filled.outs \in Seq(StreamEvent)
      /\ filled.local \in BOOLEAN
  BY <1>1, FilledEffect DEF HeadState
<1>4. OneFin(filled.local, filled.outs, fins)
  BY <1>1, OneFinFilled DEF FinOnce
<1>5. /\ stream'.outbox = filled.outbox /\ stream'.txOpen = filled.txOpen
      /\ (stream'.local <=> filled.local) /\ (stream'.remote <=> stream.remote)
  BY <1>1, PolledEffect DEF SameState, SameOutbox, Kept
<1>6. Over => Over'
  BY <1>5 DEF Over, Heard
<1>7. NoDataAfterFin'
  <2>1. CASE PollsItem(stream)
    <3>1. /\ filled.outs # <<>> /\ stream'.outs = Tail(filled.outs)
          /\ PolledItem(stream) = Head(filled.outs)
      BY <1>1, <2>1, PolledEffect
    <3>2. fins' = fins + IF HasFin(Head(filled.outs)) THEN 1 ELSE 0
      BY <2>1, <3>1 DEF RecordSent, HasFin
    <3> HIDE DEF filled
    <3>3. FinLast(stream'.outs, fins')
      BY <1>1, <1>2, <1>3, <1>4, <3>1, <3>2, FinTail
    <3> QED BY <3>3 DEF NoDataAfterFin
  <2>2. CASE ~PollsItem(stream)
    <3>1. stream'.outs = filled.outs /\ fins' = fins
      BY <1>1, <2>2, PolledEffect
    <3> QED BY <1>2, <3>1 DEF NoDataAfterFin
  <2> QED BY <2>1, <2>2
<1> HIDE DEF filled
<1> QED BY <1>2, <1>5, <1>6, <1>7 DEF LastInv, Finished

LEMMA NextLast ==
  ASSUME MinWrite > 0
  PROVE  Typed /\ FinOnce /\ LastInv /\ [Next]_vars => LastInv'
<1> SUFFICES ASSUME Typed, FinOnce, LastInv, [Next]_vars PROVE LastInv'
  OBVIOUS
<1>1. /\ stream \in HeadState /\ stream.outbox \in Seq(Chunk)
      /\ stream.outs \in Seq(StreamEvent)
  BY DEF Typed, TypeOK, HeadState
<1>2. ASSUME Write \/ Close \/ Drop \/ Read, NoEmpty(stream'.outbox),
             \/ /\ stream'.outbox = stream.outbox
                /\ ~stream'.txOpen \/ stream'.txOpen = stream.txOpen
             \/ stream.txOpen
      PROVE  LastInv'
  <2>1. /\ stream'.outs = stream.outs /\ (stream'.local <=> stream.local)
        /\ (stream'.remote <=> stream.remote) /\ fins' = fins /\ peer' = peer
    BY <1>2, HandleQueues
  <2>2. Over <=> Over'
    BY <2>1 DEF Over, Heard
  <2> QED BY <1>2, <2>1, <2>2 DEF LastInv, NoDataAfterFin, Finished
<1>3. CASE Write
  <2>1. PICK buf \in Chunk : /\ WriteReady(stream)
                             /\ stream' = PollWrite(stream, buf)
                             /\ Len(buf) >= MinWrite
    BY <1>3, WriteStep
  <2>2. Len(buf) \in Nat /\ Len(buf) # 0
    BY <2>1, SizesAssumption DEF Chunk
  <2>3. Truncated(buf) \in Chunk /\ Truncated(buf) # <<>>
    BY <2>2, TruncatedType
  <2>4. NoEmpty(stream'.outbox)
    BY <1>1, <2>1, <2>3, PollWriteEffect, NoEmptyAppend DEF LastInv
  <2> QED BY <1>2, <1>3, <2>1, <2>4 DEF WriteReady
<1>4. CASE Close
  <2>1. stream'.outbox = stream.outbox /\ ~stream'.txOpen
    BY <1>1, <1>4, PollCloseEffect DEF Close
  <2> QED BY <1>2, <1>4, <2>1 DEF LastInv
<1>5. CASE Drop
  <2>1. stream'.outbox = stream.outbox /\ ~stream'.txOpen
    BY <1>1, <1>5, DropHandleEffect DEF Drop
  <2> QED BY <1>2, <1>5, <2>1 DEF LastInv
<1>6. CASE Read
  <2>1. PICK room \in Nat : stream' = PollRead(stream, room)
    BY <1>6, ReadStep
  <2>2. stream'.outbox = stream.outbox /\ stream'.txOpen = stream.txOpen
    BY <1>1, <2>1, PollReadEffect DEF SameOutbox
  <2> QED BY <1>2, <1>6, <2>2 DEF LastInv
<1>7. CASE PollItem
  BY <1>7, PollLast DEF PollItem
<1>8. CASE PollPending
  BY <1>8, PollLast DEF PollPending
<1>9. CASE PollNone
  <2>1. /\ stream'.outs = stream.outs /\ fins' = fins /\ peer' = peer
        /\ stream'.outbox = <<>> /\ stream'.txOpen = stream.txOpen
        /\ (stream'.local <=> stream.local) /\ (stream'.remote <=> stream.remote)
    BY <1>1, <1>9, RemoveHeadEffect DEF PollNone, PollsNone, SameState
  <2> QED BY <2>1 DEF LastInv, NoDataAfterFin, NoEmpty, Finished, Over, Heard
<1>10. CASE PeerHeader \/ PeerPayload \/ PeerUpdate \/ PeerFin \/ PeerReset
  <2>1. QueuesUpdate(stream, stream')
    BY <1>10, InputQueues
  <2>2. fins' = fins
    BY <1>10 DEF PeerHeader, PeerPayload, PeerUpdate, PeerFin, PeerReset
  <2>3. FinLast(stream'.outs, fins)
    BY <1>1, <2>1, FinLastUpdate DEF QueuesUpdate, LastInv, NoDataAfterFin
  <2>4. Finished(stream', Over')
    <3>1. /\ stream'.outbox = stream.outbox /\ stream'.txOpen = stream.txOpen
          /\ stream.local /\ ~stream'.local => Over'
          /\ Over => Over'
      BY <1>10, InputEnds
    <3>2. Finished(stream, Over)
      BY DEF LastInv
    <3> QED BY <3>1, <3>2, Zenon DEF Finished
  <2>5. NoEmpty(stream'.outbox)
    BY <1>10, InputEnds DEF LastInv
  <2> QED BY <2>2, <2>3, <2>4, <2>5 DEF LastInv, NoDataAfterFin
<1>11. CASE UNCHANGED vars
  BY <1>11 DEF vars, LastInv, NoDataAfterFin, Finished, Over, Heard
<1> QED
  BY <1>3, <1>4, <1>5, <1>6, <1>7, <1>8, <1>9, <1>10, <1>11 DEF Next

\* No data is sent after the FIN, as SPEC.md has it, as long as the application
\* writes no empty buffer; without that assumption the run
\* endpoint_zero_write finds data after it.
THEOREM NoDataAfterFinCorrect ==
  ASSUME MinWrite > 0
  PROVE  Spec => []NoDataAfterFin
<1> DEFINE Inv == Typed /\ FinOnce /\ LastInv
<1>1. Init => Inv
  BY InitTyped, InitFin, InitLast
<1>2. Inv /\ [Next]_vars => Inv'
  BY NextTyped, NextFinOnce, NextLast
<1>3. Inv => NoDataAfterFin
  BY DEF LastInv
<1> HIDE DEF Inv
<1>4. Spec => []Inv
  BY <1>1, <1>2, PTL DEF Spec
<1> QED BY <1>3, <1>4, PTL
===============================================================================
