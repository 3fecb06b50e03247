-------------------------- MODULE StreamReaderProofs --------------------------
(***************************************************************************)
(* Proofs about the end of a stream as its reader sees it: the marker      *)
(* (an empty chunk) that the head sends once, what may be queued behind    *)
(* it, and the BrokenPipe that follows it.                                 *)
(*                                                                         *)
(* The inductive invariants, each with the property it contains:           *)
(*   - EndFromPeer (EofFromPeer) adds that no empty payload is pending;    *)
(*   - QuietAfterEnd (EofLastUnlessLate) adds that the remote half stays  *)
(*     closed once the marker is sent, because the one ACK has come, and   *)
(*     that the peer owes no payload after its end, but for one that the   *)
(*     end came with;                                                      *)
(*   - EndBeforeBroken (EofBeforeBroken) adds that the remote half of an   *)
(*     acknowledged stream closes with the marker, and that a live head    *)
(*     has its sender as long as the reader is there.                      *)
(* QuietSteps, ReaderSteps, DropSteps, FlagSteps and ChunkSteps reduce the *)
(* twelve actions to what they do to the reader's side.                    *)
(***************************************************************************)
EXTENDS StreamEndpointProofs

-----------------------------------------------------------------------------
\* What the steps do to the reader's side of the record.

\* The marker has been sent to a reader that still has its end of the channel.
EndSent == eof \/ HasEnd(stream.inbox)

ReaderKept ==
    /\ stream'.inbox = stream.inbox /\ stream'.reading = stream.reading
    /\ (stream'.tx <=> stream.tx) /\ (stream'.rxOpen <=> stream.rxOpen)
    /\ (stream'.remote <=> stream.remote)
    /\ peer' = peer /\ (eof' <=> eof) /\ (broken' <=> broken)

LEMMA QuietSteps ==
  ASSUME Typed, Write \/ Close \/ PollItem \/ PollPending \/ PollNone
  PROVE  /\ ReaderKept
         /\ stream'.alive => stream.alive
         /\ stream.alive /\ ~stream'.alive => ~stream.remote
<1>1. stream \in HeadState
  BY DEF Typed, TypeOK
<1> USE DEF ReaderKept
<1>2. CASE Write
  <2>1. PICK buf \in Chunk :
           stream' = PollWrite(stream, buf) /\ UNCHANGED <<peer, eof, broken>>
    BY <1>2, WriteStep
  <2> QED BY <1>1, <2>1, PollWriteEffect DEF HeadKept, SameState, SameReader
<1>3. CASE Close
  BY <1>1, <1>3, PollCloseEffect DEF Close, HeadKept, SameState, SameReader
<1>4. CASE PollItem \/ PollPending
  <2>1. stream' = Polled(stream) /\ UNCHANGED <<peer, eof, broken>>
    BY <1>4 DEF PollItem, PollPending
  <2> QED BY <1>1, <2>1, PolledEffect DEF Kept, SameInbox, SameReader
<1>5. CASE PollNone
  BY <1>1, <1>5, RemoveHeadEffect
     DEF PollNone, PollsNone, IsClosed, SameState, SameInbox, SameReader
<1> QED BY <1>2, <1>3, <1>4, <1>5

\* The application reads: a marker is either still queued or has been read.
LEMMA ReaderSteps ==
  ASSUME Typed, Read
  PROVE  /\ EndSent' <=> EndSent
         /\ EofLast => EofLast'
         /\ stream.rxOpen /\ stream'.rxOpen
         /\ (stream'.tx <=> stream.tx) /\ (stream'.alive <=> stream.alive)
         /\ (stream'.remote <=> stream.remote) /\ peer' = peer
         /\ broken' <=> (broken \/ ReadsBroken(stream))
<1>1. stream \in HeadState /\ stream.inbox \in Seq(Chunk)
  BY DEF Typed, TypeOK, HeadState
<1>2. PICK room \in Nat :
         /\ stream' = PollRead(stream, room)
         /\ eof' = (eof \/ ReadsEof(stream))
         /\ broken' = (broken \/ ReadsBroken(stream))
         /\ peer' = peer
  BY ReadStep
<1> DEFINE loaded == Loaded(stream)
<1>3. /\ stream'.inbox = loaded.inbox
      /\ loaded.reading = <<>> => stream'.reading = <<>>
      /\ stream'.rxOpen = stream.rxOpen /\ HeadKept(stream, stream')
  BY <1>1, <1>2, PollReadEffect
<1>4. IF stream.reading # <<>> \/ stream.inbox = <<>>
      THEN loaded.reading = stream.reading /\ loaded.inbox = stream.inbox
      ELSE /\ loaded.reading = Head(stream.inbox)
           /\ loaded.inbox = Tail(stream.inbox)
  BY <1>1, LoadedEffect
<1>5. ReadsEof(stream) <=> loaded.reading = <<>> /\ stream.inbox # <<>>
  BY DEF ReadsEof
<1> HIDE DEF loaded
<1>6. EofLast <=> /\ EndIsLast(stream.inbox)
                  /\ eof => stream.inbox = <<>> /\ stream.reading = <<>>
  BY DEF EofLast, EndIsLast
<1>7. EofLast' <=> /\ EndIsLast(stream'.inbox)
                   /\ eof' => stream'.inbox = <<>> /\ stream'.reading = <<>>
  BY DEF EofLast, EndIsLast
<1>8. (EndSent' <=> EndSent) /\ (EofLast => EofLast')
  <2>1. CASE stream.reading # <<>> \/ stream.inbox = <<>>
    <3>1. stream'.inbox = stream.inbox /\ ~ReadsEof(stream)
      BY <1>3, <1>4, <1>5, <2>1
    <3>2. eof' <=> eof
      BY <1>2, <3>1
    <3>3. stream.reading = <<>> => stream'.reading = <<>>
      BY <1>3, <1>4, <2>1
    <3> QED BY <1>6, <1>7, <3>1, <3>2, <3>3 DEF EndSent
  <2>2. CASE ~(stream.reading # <<>> \/ stream.inbox = <<>>)
    <3>1. /\ stream.inbox # <<>> /\ stream'.inbox = Tail(stream.inbox)
          /\ ReadsEof(stream) <=> Head(stream.inbox) = <<>>
          /\ Head(stream.inbox) = <<>> => stream'.reading = <<>>
      BY <1>3, <1>4, <1>5, <2>2
    <3>2. eof' <=> eof \/ Head(stream.inbox) = <<>>
      BY <1>2, <3>1
    <3> QED BY <1>1, <1>6, <1>7, <3>1, <3>2, EndTail DEF EndSent
  <2> QED BY <2>1, <2>2
<1>9. stream.rxOpen
  BY DEF Read
<1> QED BY <1>2, <1>3, <1>8, <1>9 DEF HeadKept, SameState

LEMMA DropSteps ==
  ASSUME Typed, Drop
  PROVE  /\ stream'.inbox = <<>> /\ stream'.reading = <<>> /\ ~stream'.rxOpen
         /\ (stream'.alive <=> stream.alive)
         /\ (stream'.remote <=> stream.remote)
         /\ peer' = peer /\ (eof' <=> eof) /\ (broken' <=> broken)
<1>1. stream \in HeadState
  BY DEF Typed, TypeOK
<1> QED BY <1>1, DropHandleEffect DEF Drop, HeadKept, SameState

\* A header, a window update, or a reset of the peer's.
FlagStep(flags) ==
    LET heard == stream.remote \/ "ACK" \in flags
        ended == "RST" \in flags \/ "FIN" \in flags
    IN  /\ stream.alive /\ stream'.alive
        /\ stream'.remote <=> heard /\ ~ended
        /\ stream'.inbox = IF heard /\ ended THEN Marked(stream)
                                             ELSE stream.inbox
        /\ stream'.tx <=> stream.tx /\ (heard /\ ended => stream.rxOpen)
        /\ (stream'.rxOpen <=> stream.rxOpen)
        /\ stream'.reading = stream.reading
        /\ (eof' <=> eof) /\ (broken' <=> broken)
        /\ peer.pending = NoPayload /\ ~peer.reset
        /\ "ACK" \in flags => ~peer.acked
        /\ peer'.acked <=> peer.acked \/ "ACK" \in flags
        /\ peer'.finned <=> peer.finned \/ "FIN" \in flags
        /\ peer'.reset <=> "RST" \in flags
        /\ "FIN" \in flags => peer'.acked

LEMMA FlagSteps ==
  ASSUME Typed, PeerHeader \/ PeerUpdate \/ PeerFin \/ PeerReset
  PROVE  \E flags \in SUBSET Flag :
           /\ FlagStep(flags)
           /\ \/ /\ ~peer.finned
                 /\ peer'.pending \in Nat /\ peer'.pending >= MinPayload
                 /\ peer'.late <=> peer.late \/ "RST" \in flags \/ "FIN" \in flags
              \/ peer'.pending = NoPayload /\ (peer'.late <=> peer.late)
<1>1. /\ stream \in HeadState /\ peer \in PeerState
      /\ peer.acked \in BOOLEAN /\ peer.reset \in BOOLEAN
      /\ peer.finned \in BOOLEAN
  BY DEF Typed, TypeOK, PeerState
<1>2. ASSUME NEW flags \in SUBSET Flag, MaySend(flags)
      PROVE  /\ stream.alive /\ peer.pending = NoPayload /\ ~peer.reset
             /\ "ACK" \in flags => ~peer.acked
             /\ "ACK" \notin flags => peer.acked
  BY <1>1, <1>2 DEF MaySend
<1>3. ASSUME NEW flags \in SUBSET Flag, NEW h, h = HandleFlag(stream, flags),
             SameState(h, stream'), SameInbox(h, stream'),
             SameReader(stream, stream'), stream'.alive = stream.alive,
             stream.alive, UNCHANGED <<eof, broken>>,
             peer.pending = NoPayload, ~peer.reset,
             "ACK" \in flags => ~peer.acked,
             peer'.acked <=> peer.acked \/ "ACK" \in flags,
             peer'.finned <=> peer.finned \/ "FIN" \in flags,
             peer'.reset <=> peer.reset \/ "RST" \in flags,
             "FIN" \in flags => peer'.acked
      PROVE  FlagStep(flags)
  BY <1>1, <1>3, HandleFlagEffect
     DEF FlagStep, SameState, SameInbox, SameReader
<1>4. CASE PeerHeader
  <2>1. PICK flags \in PeerDataFlags, size \in Nat :
           /\ stream' = OnInput(stream, Data(flags, size))
           /\ size >= MinPayload
           /\ flags \in SUBSET Flag /\ stream.recvState = NoPayload
           /\ MaySend(flags) /\ ~peer.finned
           /\ peer' = Announced(flags, size)
           /\ UNCHANGED <<eof, broken>>
    BY <1>4, HeaderStep
  <2>2. /\ stream'.alive = stream.alive
        /\ SameState(HandleFlag(stream, flags), stream')
        /\ SameInbox(HandleFlag(stream, flags), stream')
        /\ SameReader(stream, stream')
    BY <1>1, <2>1, OnDataEffect
  <2>3. /\ peer'.acked <=> peer.acked \/ "ACK" \in flags
        /\ peer'.finned <=> peer.finned \/ "FIN" \in flags
        /\ peer'.reset <=> peer.reset \/ "RST" \in flags
        /\ peer'.late <=> peer.late \/ "RST" \in flags \/ "FIN" \in flags
        /\ peer'.pending = size
    BY <1>1, <2>1, PeerNotes
  <2>4. FlagStep(flags)
    BY <1>2, <1>3, <2>1, <2>2, <2>3
  <2> QED BY <1>2, <2>1, <2>3, <2>4
<1>5. ASSUME NEW flags \in SUBSET Flag, NEW delta \in Nat,
             stream' = OnInput(stream, WindowUpdate(flags, delta))
      PROVE  /\ stream'.alive = stream.alive
             /\ SameState(HandleFlag(stream, flags), stream')
             /\ SameInbox(HandleFlag(stream, flags), stream')
             /\ SameReader(stream, stream')
  BY <1>1, <1>5, OnWindowUpdateEffect
<1>6. CASE PeerUpdate \/ PeerFin
  <2>1. PICK flags \in SUBSET Flag, delta \in Nat :
           /\ stream' = OnInput(stream, WindowUpdate(flags, delta))
           /\ MaySend(flags) /\ peer' = Noted(flags)
           /\ UNCHANGED <<eof, broken>>
    <3>1. CASE PeerUpdate
      <4>1. PICK flags \in {{}, {"ACK"}}, delta \in PeerDeltas :
               /\ stream' = OnInput(stream, WindowUpdate(flags, delta))
               /\ MaySend(flags) /\ peer' = Noted(flags)
        BY <3>1 DEF PeerUpdate
      <4>2. flags \in SUBSET Flag /\ delta \in Nat
        BY SizesAssumption DEF Flag
      <4> QED BY <3>1, <4>1, <4>2 DEF PeerUpdate
    <3>2. CASE PeerFin
      BY <3>2 DEF PeerFin, Flag
    <3> QED BY <1>6, <3>1, <3>2
  <2>2. /\ peer'.acked <=> peer.acked \/ "ACK" \in flags
        /\ peer'.finned <=> peer.finned \/ "FIN" \in flags
        /\ peer'.reset <=> peer.reset \/ "RST" \in flags
        /\ peer'.late = peer.late /\ peer'.pending = peer.pending
    BY <1>1, <2>1, PeerNotes
  <2>3. FlagStep(flags)
    BY <1>2, <1>3, <1>5, <2>1, <2>2
  <2> QED BY <1>2, <2>1, <2>2, <2>3
<1>7. CASE PeerReset
  <2>1. PICK flags \in SUBSET Flag, delta \in Nat :
           /\ stream' = OnInput(stream, WindowUpdate(flags, delta))
           /\ flags = {"RST"}
    BY <1>7 DEF PeerReset, Flag
  <2>2. /\ peer'.acked <=> peer.acked \/ "ACK" \in flags
        /\ peer'.finned <=> peer.finned \/ "FIN" \in flags
        /\ peer'.reset <=> peer.reset \/ "RST" \in flags
        /\ peer'.late = peer.late /\ peer'.pending = peer.pending
        /\ stream.alive /\ peer.pending = NoPayload /\ ~peer.reset
        /\ UNCHANGED <<eof, broken>>
    BY <1>1, <1>7, <2>1, PeerNotes DEF PeerReset
  <2>3. FlagStep(flags)
    BY <1>3, <1>5, <2>1, <2>2
  <2> QED BY <2>1, <2>2, <2>3
<1> QED BY <1>4, <1>6, <1>7

\* A piece of the payload: it goes to the reader, if there is one.
LEMMA ChunkSteps ==
  ASSUME Typed, PeerPayload
  PROVE  \E chunk \in Chunk :
           /\ stream.alive /\ stream'.alive
           /\ (stream'.remote <=> stream.remote)
           /\ stream'.inbox = IF stream.tx /\ stream.rxOpen
                               THEN Append(stream.inbox, chunk)
                               ELSE stream.inbox
           /\ stream'.tx <=> stream.tx /\ stream.rxOpen
           /\ (stream'.rxOpen <=> stream.rxOpen)
           /\ stream'.reading = stream.reading
           /\ (eof' <=> eof) /\ (broken' <=> broken)
           /\ peer.pending \in Nat
           /\ chunk = <<>> => peer.pending = 0
           /\ peer'.pending # 0
           /\ (peer'.acked <=> peer.acked) /\ (peer'.finned <=> peer.finned)
           /\ (peer'.reset <=> peer.reset) /\ (peer'.late <=> peer.late)
<1>1. stream \in HeadState /\ peer \in PeerState
  BY DEF Typed, TypeOK
<1>2. PICK chunk \in Chunk :
         /\ stream' = OnInput(stream, DataChunk(chunk))
         /\ stream.recvState \in Nat /\ Len(chunk) <= stream.recvState
         /\ chunk = <<>> => peer.pending = 0
         /\ stream.alive /\ stream.recvState = peer.pending
         /\ peer' = PendingAfter(chunk)
         /\ UNCHANGED <<eof, broken>>
  BY PayloadStep
<1>3. Len(chunk) \in Nat
  BY DEF Chunk
<1> DEFINE left == IF peer.pending = Len(chunk) THEN NoPayload
                   ELSE peer.pending - Len(chunk)
<1>4. left # 0
  <2>1. NoPayload # 0 /\ peer.pending \in Nat
    BY <1>2, NoPayloadAssumption
  <2> QED BY <1>3, <2>1
<1>5. peer' = [peer EXCEPT !.pending = left]
  BY <1>2 DEF PendingAfter
<1> HIDE DEF left
<1>6. /\ peer'.pending = left /\ peer'.acked = peer.acked
      /\ peer'.finned = peer.finned /\ peer'.reset = peer.reset
      /\ peer'.late = peer.late
  BY <1>1, <1>5 DEF PeerState
<1>7. /\ stream'.alive = stream.alive
      /\ (stream'.remote <=> stream.remote)
      /\ stream'.inbox = IF stream.tx /\ stream.rxOpen
                          THEN Append(stream.inbox, chunk) ELSE stream.inbox
      /\ stream'.tx <=> stream.tx /\ stream.rxOpen
      /\ SameReader(stream, stream')
  <2>1. /\ stream' = OnInput(stream, DataChunk(chunk))
        /\ stream.recvState \in Nat /\ Len(chunk) <= stream.recvState
    BY <1>2
  <2> QED BY <1>1, <2>1, OnDataChunkEffect DEF SameState
<1>8. peer'.pending # 0
  BY <1>4, <1>6
<1>9. stream.alive /\ stream'.alive /\ peer.pending \in Nat
  BY <1>2, <1>7
<1> HIDE DEF left
<1> QED BY <1>2, <1>6, <1>7, <1>8, <1>9 DEF SameReader

\* How a stream starts.
LEMMA InitReader ==
  ASSUME Init
  PROVE  /\ stream.inbox = <<>> /\ stream.reading = <<>>
         /\ stream.tx /\ stream.rxOpen /\ stream.alive
         /\ (stream.remote <=> peer.acked)
         /\ ~peer.finned /\ ~peer.reset /\ peer.pending = NoPayload
         /\ ~eof /\ ~broken
<1>1. LET t == OpenStream
      IN  /\ t.inbox = <<>> /\ t.reading = <<>> /\ t.tx /\ t.rxOpen /\ t.alive
          /\ ~t.remote
  BY NewHeadEffect DEF OpenStream, Flag
<1>2. LET t == AcceptStream
      IN  /\ t \in HeadState /\ t.inbox = <<>> /\ t.reading = <<>>
          /\ t.tx /\ t.rxOpen /\ t.alive /\ t.remote
  BY NewHeadEffect DEF AcceptStream, Flag
<1>3. LET t == OnInput(AcceptStream, Syn)
      IN  /\ t.inbox = <<>> /\ t.reading = <<>> /\ t.tx /\ t.rxOpen /\ t.alive
          /\ t.remote
  <2>1. {"SYN"} \in SUBSET Flag /\ InitialWindow \in Nat
    BY WindowAssumption DEF Flag
  <2>2. LET h == HandleFlag(AcceptStream, {"SYN"})
        IN  h.inbox = <<>> /\ h.tx /\ h.remote
    BY <1>2, <2>1, HandleFlagEffect
  <2> QED BY <1>2, <2>1, <2>2, OnWindowUpdateEffect
          DEF Syn, SameState, SameInbox, SameReader
<1>4. ~eof /\ ~broken
  BY DEF Init
<1>5. ~NewPeer.acked /\ [NewPeer EXCEPT !.acked = TRUE].acked
  BY DEF NewPeer
<1>6. CASE stream = OpenStream /\ peer = NewPeer
  BY <1>1, <1>4, <1>5, <1>6, InitPeer
<1>7. CASE /\ stream = OnInput(AcceptStream, Syn)
           /\ peer = [NewPeer EXCEPT !.acked = TRUE]
  BY <1>3, <1>4, <1>5, <1>7, InitPeer
<1> QED BY <1>6, <1>7 DEF Init

-----------------------------------------------------------------------------
\* The end the application sees is the peer's, provided that the peer announces
\* no empty payload, whose one empty piece would pass for the marker.

EndFromPeer ==
    /\ EndSent => peer.finned \/ peer.reset
    /\ peer.pending # 0

LEMMA InitEndFromPeer == Init => EndFromPeer
<1> SUFFICES ASSUME Init PROVE EndFromPeer
  OBVIOUS
<1>1. stream.inbox = <<>> /\ ~eof /\ peer.pending = NoPayload
  BY InitReader
<1> QED BY <1>1, NoPayloadAssumption DEF EndFromPeer, EndSent, HasEnd

LEMMA MarkedEnd ==
  ASSUME NEW s \in HeadState
  PROVE  /\ HasEnd(s.inbox) => HasEnd(Marked(s))
         /\ s.tx /\ s.rxOpen => HasEnd(Marked(s))
         /\ ~HasEnd(s.inbox) => EndIsLast(Marked(s))
<1>1. s.inbox \in Seq(Chunk)
  BY DEF HeadState
<1>2. ~HasEnd(s.inbox) => EndIsLast(s.inbox)
  BY DEF HasEnd, EndIsLast
<1> QED BY <1>1, <1>2, EmptyChunk, EndAppend DEF Marked

LEMMA NextEndFromPeer ==
  ASSUME MinPayload > 0
  PROVE  Typed /\ EndFromPeer /\ [Next]_vars => EndFromPeer'
<1> SUFFICES ASSUME Typed, EndFromPeer, [Next]_vars PROVE EndFromPeer'
  OBVIOUS
<1>1. stream \in HeadState /\ stream.inbox \in Seq(Chunk)
  BY DEF Typed, TypeOK, HeadState
<1>2. CASE Write \/ Close \/ PollItem \/ PollPending \/ PollNone
  BY <1>2, QuietSteps DEF ReaderKept, EndFromPeer, EndSent
<1>3. CASE Drop
  BY <1>3, DropSteps DEF EndFromPeer, EndSent, HasEnd
<1>4. CASE Read
  BY <1>4, ReaderSteps DEF EndFromPeer
<1>5. CASE PeerHeader \/ PeerUpdate \/ PeerFin \/ PeerReset
  <2>1. PICK flags \in SUBSET Flag :
           /\ FlagStep(flags)
           /\ \/ peer'.pending \in Nat /\ peer'.pending >= MinPayload
              \/ peer'.pending = NoPayload
    BY <1>5, FlagSteps
  <2>2. peer'.pending # 0
    BY <2>1, SizesAssumption, NoPayloadAssumption
  <2>3. CASE "RST" \in flags \/ "FIN" \in flags
    BY <2>1, <2>2, <2>3 DEF FlagStep, EndFromPeer
  <2>4. CASE ~("RST" \in flags \/ "FIN" \in flags)
    <3>1. EndSent' <=> EndSent
      BY <2>1, <2>4 DEF FlagStep, EndSent
    <3>2. EndSent => peer'.finned
      BY <2>1 DEF FlagStep, EndFromPeer
    <3> QED BY <2>2, <3>1, <3>2 DEF EndFromPeer
  <2> QED BY <2>3, <2>4
<1>6. CASE PeerPayload
  <2>1. PICK chunk \in Chunk :
           /\ stream'.inbox = IF stream.tx /\ stream.rxOpen
                               THEN Append(stream.inbox, chunk)
                               ELSE stream.inbox
           /\ (eof' <=> eof)
           /\ chunk = <<>> => peer.pending = 0
           /\ peer'.pending # 0
           /\ (peer'.finned <=> peer.finned) /\ (peer'.reset <=> peer.reset)
    BY <1>6, ChunkSteps
  <2>2. EndSent' <=> EndSent
    BY <1>1, <2>1, EndAppend DEF EndFromPeer, EndSent
  <2> QED BY <2>1, <2>2 DEF EndFromPeer
<1>7. CASE UNCHANGED vars
  BY <1>7 DEF vars, EndFromPeer, EndSent
<1> QED BY <1>2, <1>3, <1>4, <1>5, <1>6, <1>7 DEF Next

\* The end of the stream that the application reads is the peer's FIN or RST
\* and no other event, as long as the peer announces no empty payload; without
\* that assumption the run endpoint_zero_data finds an end nobody sent.
THEOREM EofFromPeerCorrect ==
  ASSUME MinPayload > 0
  PROVE  Spec => []EofFromPeer
<1> DEFINE Inv == Typed /\ EndFromPeer
<1>1. Init => Inv
  BY InitTyped, InitEndFromPeer
<1>2. Inv /\ [Next]_vars => Inv'
  BY NextTyped, NextEndFromPeer
<1>3. Inv => EofFromPeer
  BY DEF EndFromPeer, EofFromPeer, EndSent, HasEnd
<1> HIDE DEF Inv
<1>4. Spec => []Inv
  BY <1>1, <1>2, PTL DEF Spec
<1> QED BY <1>3, <1>4, PTL

-----------------------------------------------------------------------------
\* Nothing follows the marker but, if the end came with a data header, that
\* header's payload.  The peer sends no other data after its end, and an end
\* closes the remote half, which only an ACK, sent once, would open again.

QuietAfterEnd ==
    /\ EofLastUnlessLate
    /\ stream.alive /\ EndSent => ~stream.remote /\ peer.acked
    /\ stream.alive /\ (peer.finned \/ peer.reset) =>
          peer.late \/ peer.pending = NoPayload
    /\ stream.remote => peer.acked

LEMMA InitQuietAfterEnd == Init => QuietAfterEnd
<1> SUFFICES ASSUME Init PROVE QuietAfterEnd
  OBVIOUS
<1> QED BY InitReader DEF QuietAfterEnd, EofLastUnlessLate, EofLast, EndSent, HasEnd

LEMMA NextQuietAfterEnd ==
  ASSUME MinPayload > 0
  PROVE  Typed /\ EndFromPeer /\ QuietAfterEnd /\ [Next]_vars => QuietAfterEnd'
<1> SUFFICES ASSUME Typed, EndFromPeer, QuietAfterEnd, [Next]_vars
             PROVE  QuietAfterEnd'
  OBVIOUS
<1>1. stream \in HeadState /\ stream.inbox \in Seq(Chunk)
  BY DEF Typed, TypeOK, HeadState
<1>2. CASE Write \/ Close \/ PollItem \/ PollPending \/ PollNone
  <2>1. ReaderKept /\ (stream'.alive => stream.alive)
    BY <1>2, QuietSteps
  <2> QED BY <2>1 DEF ReaderKept, QuietAfterEnd, EofLastUnlessLate, EofLast, EndSent
<1>3. CASE Drop
  <2>1. EofLast' /\ (EndSent' => EndSent)
    BY <1>3, DropSteps DEF EofLast, EndSent, HasEnd
  <2> QED BY <1>3, <2>1, DropSteps DEF QuietAfterEnd, EofLastUnlessLate
<1>4. CASE Read
  BY <1>4, ReaderSteps DEF QuietAfterEnd, EofLastUnlessLate
<1>5. CASE PeerHeader \/ PeerUpdate \/ PeerFin \/ PeerReset
  <2>1. PICK flags \in SUBSET Flag :
           /\ FlagStep(flags)
           /\ \/ /\ ~peer.finned
                 /\ peer'.late <=> peer.late \/ "RST" \in flags \/ "FIN" \in flags
              \/ peer'.pending = NoPayload /\ (peer'.late <=> peer.late)
    BY <1>5, FlagSteps
  <2>2. peer'.finned \/ peer'.reset => peer'.late \/ peer'.pending = NoPayload
    BY <2>1 DEF FlagStep
  <2>3. stream'.remote => peer'.acked
    BY <2>1 DEF FlagStep, QuietAfterEnd
  <2>4. CASE EndSent
    <3>1. /\ ~stream.remote /\ peer.acked /\ "ACK" \notin flags
      BY <2>1, <2>4 DEF FlagStep, QuietAfterEnd
    <3>2. /\ stream'.inbox = stream.inbox /\ ~stream'.remote /\ peer'.acked
          /\ stream'.reading = stream.reading /\ (eof' <=> eof)
      BY <2>1, <3>1 DEF FlagStep
    <3>3. peer.late => peer'.late
      BY <2>1
    <3> QED BY <2>2, <3>2, <3>3 DEF QuietAfterEnd, EofLastUnlessLate, EofLast
  <2>5. CASE ~EndSent
    <3>1. ~HasEnd(stream.inbox) /\ ~eof /\ ~eof'
      BY <2>1, <2>5 DEF EndSent, FlagStep
    <3>2. EndIsLast(stream'.inbox)
      BY <1>1, <2>1, <3>1, MarkedEnd DEF FlagStep, HasEnd, EndIsLast
    <3>3. EofLast'
      BY <3>1, <3>2 DEF EofLast, EndIsLast
    <3>4. EndSent' => ~stream'.remote /\ peer'.acked
      <4>1. CASE /\ stream.remote \/ "ACK" \in flags
                 /\ "RST" \in flags \/ "FIN" \in flags
        BY <2>1, <4>1 DEF FlagStep, QuietAfterEnd
      <4>2. CASE ~ /\ stream.remote \/ "ACK" \in flags
                   /\ "RST" \in flags \/ "FIN" \in flags
        BY <2>1, <3>1, <4>2 DEF FlagStep, EndSent
      <4> QED BY <4>1, <4>2
    <3> QED BY <2>2, <2>3, <3>3, <3>4 DEF QuietAfterEnd, EofLastUnlessLate
  <2> QED BY <2>4, <2>5
<1>6. CASE PeerPayload
  <2>1. PICK chunk \in Chunk :
           /\ stream.alive /\ stream'.alive
           /\ (stream'.remote <=> stream.remote)
           /\ stream'.inbox = IF stream.tx /\ stream.rxOpen
                               THEN Append(stream.inbox, chunk)
                               ELSE stream.inbox
           /\ (eof' <=> eof)
           /\ peer.pending \in Nat
           /\ chunk = <<>> => peer.pending = 0
           /\ (peer'.acked <=> peer.acked) /\ (peer'.finned <=> peer.finned)
           /\ (peer'.reset <=> peer.reset) /\ (peer'.late <=> peer.late)
    BY <1>6, ChunkSteps
  <2>2. EndSent' <=> EndSent
    <3>1. chunk # <<>>
      BY <2>1 DEF EndFromPeer
    <3>2. HasEnd(stream'.inbox) <=> HasEnd(stream.inbox)
      BY <1>1, <2>1, <3>1, EndAppend
    <3> QED BY <2>1, <3>2 DEF EndSent
  <2>3. CASE peer.late
    BY <2>1, <2>2, <2>3 DEF QuietAfterEnd, EofLastUnlessLate
  <2>4. CASE ~peer.late
    <3>1. ~peer.finned /\ ~peer.reset
      BY <2>1, <2>4, NoPayloadAssumption DEF QuietAfterEnd
    <3>2. ~EndSent
      BY <3>1 DEF EndFromPeer
    <3>3. EofLast'
      BY <2>1, <2>2, <3>2 DEF EofLast, EndSent, HasEnd
    <3> QED BY <2>1, <2>2, <3>1, <3>2, <3>3 DEF QuietAfterEnd, EofLastUnlessLate
  <2> QED BY <2>3, <2>4
<1>7. CASE UNCHANGED vars
  BY <1>7 DEF vars, QuietAfterEnd, EofLastUnlessLate, EofLast, EndSent
<1> QED BY <1>2, <1>3, <1>4, <1>5, <1>6, <1>7 DEF Next

\* Whatever the peer sends, the end of stream marker is the last thing in the
\* handle's channel and nothing arrives once it has been read, although the
\* channel is unbounded and the head goes on handling frames: unless its FIN or
\* RST came with a data header, whose payload on_input queues behind the marker.
THEOREM EofLastCorrect ==
  ASSUME MinPayload > 0
  PROVE  Spec => []EofLastUnlessLate
<1> DEFINE Inv == Typed /\ EndFromPeer /\ QuietAfterEnd
<1>1. Init => Inv
  BY InitTyped, InitEndFromPeer, InitQuietAfterEnd
<1>2. Inv /\ [Next]_vars => Inv'
  BY NextTyped, NextEndFromPeer, NextQuietAfterEnd
<1>3. Inv => EofLastUnlessLate
  BY DEF QuietAfterEnd
<1> HIDE DEF Inv
<1>4. Spec => []Inv
  BY <1>1, <1>2, PTL DEF Spec
<1> QED BY <1>3, <1>4, PTL

-----------------------------------------------------------------------------
\* The marker precedes BrokenPipe.

EndBeforeBroken ==
    /\ stream.alive /\ stream.rxOpen => stream.tx
    /\ peer.acked /\ stream.rxOpen /\ ~(stream.alive /\ stream.remote) => EndSent
    /\ broken => ~stream.alive
    /\ EofBeforeBroken

LEMMA InitEndBeforeBroken == Init => EndBeforeBroken
<1> SUFFICES ASSUME Init PROVE EndBeforeBroken
  OBVIOUS
<1> QED BY InitReader DEF EndBeforeBroken, EofBeforeBroken

LEMMA NextEndBeforeBroken ==
  Typed /\ EndBeforeBroken /\ [Next]_vars => EndBeforeBroken'
<1> SUFFICES ASSUME Typed, EndBeforeBroken, [Next]_vars PROVE EndBeforeBroken'
  OBVIOUS
<1>1. stream \in HeadState /\ stream.inbox \in Seq(Chunk)
  BY DEF Typed, TypeOK, HeadState
<1>2. CASE Write \/ Close \/ PollItem \/ PollPending \/ PollNone
  <2>1. /\ ReaderKept /\ (stream'.alive => stream.alive)
        /\ stream.alive /\ ~stream'.alive => ~stream.remote
    BY <1>2, QuietSteps
  <2> QED BY <2>1 DEF ReaderKept, EndBeforeBroken, EofBeforeBroken, EndSent
<1>3. CASE Drop
  BY <1>3, DropSteps DEF EndBeforeBroken, EofBeforeBroken
<1>4. CASE Read
  <2>1. /\ EndSent' <=> EndSent
        /\ stream.rxOpen /\ stream'.rxOpen
        /\ (stream'.tx <=> stream.tx) /\ (stream'.alive <=> stream.alive)
        /\ (stream'.remote <=> stream.remote) /\ peer' = peer
        /\ broken' <=> (broken \/ ReadsBroken(stream))
    BY <1>4, ReaderSteps
  <2>2. eof => eof'
    BY <1>4, ReadStep
  <2>3. CASE ReadsBroken(stream)
    <3>1. stream.inbox = <<>> /\ ~stream.alive
      BY <2>1, <2>3 DEF ReadsBroken, EndBeforeBroken
    <3>2. ~HasEnd(stream.inbox)
      BY <3>1 DEF HasEnd
    <3>3. peer.acked => eof
      BY <2>1, <3>1, <3>2 DEF EndBeforeBroken, EndSent
    <3> QED BY <2>1, <2>2, <3>1, <3>3 DEF EndBeforeBroken, EofBeforeBroken
  <2>4. CASE ~ReadsBroken(stream)
    BY <2>1, <2>2, <2>4 DEF EndBeforeBroken, EofBeforeBroken
  <2> QED BY <2>3, <2>4
<1>5. CASE PeerHeader \/ PeerUpdate \/ PeerFin \/ PeerReset
  <2>1. PICK flags \in SUBSET Flag : FlagStep(flags)
    BY <1>5, FlagSteps
  <2>2. ~broken' /\ stream'.alive
    BY <2>1 DEF FlagStep, EndBeforeBroken
  <2>3. stream'.rxOpen => stream'.tx
    BY <2>1 DEF FlagStep, EndBeforeBroken
  <2>4. peer'.acked /\ stream'.rxOpen /\ ~stream'.remote => EndSent'
    <3>1. CASE /\ stream.remote \/ "ACK" \in flags
               /\ "RST" \in flags \/ "FIN" \in flags
      BY <1>1, <2>1, <3>1, MarkedEnd DEF FlagStep, EndBeforeBroken, EndSent
    <3>2. CASE ~(stream.remote \/ "ACK" \in flags)
      BY <2>1, <3>2 DEF FlagStep, EndBeforeBroken, EndSent
    <3>3. CASE /\ stream.remote \/ "ACK" \in flags
               /\ ~("RST" \in flags \/ "FIN" \in flags)
      BY <2>1, <3>3 DEF FlagStep
    <3> QED BY <3>1, <3>2, <3>3
  <2> QED BY <2>2, <2>3, <2>4 DEF EndBeforeBroken, EofBeforeBroken
<1>6. CASE PeerPayload
  <2>1. PICK chunk \in Chunk :
           /\ stream.alive /\ stream'.alive
           /\ (stream'.remote <=> stream.remote)
           /\ stream'.inbox = IF stream.tx /\ stream.rxOpen
                               THEN Append(stream.inbox, chunk)
                               ELSE stream.inbox
           /\ stream'.tx <=> stream.tx /\ stream.rxOpen
           /\ (stream'.rxOpen <=> stream.rxOpen)
           /\ (eof' <=> eof) /\ (broken' <=> broken)
           /\ (peer'.acked <=> peer.acked)
    BY <1>6, ChunkSteps
  <2>2. EndSent => EndSent'
    BY <1>1, <2>1, EndAppend DEF EndSent
  <2> QED BY <2>1, <2>2 DEF EndBeforeBroken, EofBeforeBroken
<1>7. CASE UNCHANGED vars
  BY <1>7 DEF vars, EndBeforeBroken, EofBeforeBroken, EndSent
<1> QED BY <1>2, <1>3, <1>4, <1>5, <1>6, <1>7 DEF Next

\* A reader of an acknowledged stream is told that it has ended before it is
\* told that the stream is broken, whatever the peer sends and however the head
\* has gone by the time it reads.
THEOREM EofBeforeBrokenCorrect == Spec => []EofBeforeBroken
<1> DEFINE Inv == Typed /\ EndBeforeBroken
<1>1. Init => Inv
  BY InitTyped, InitEndBeforeBroken
<1>2. Inv /\ [Next]_vars => Inv'
  BY NextTyped, NextEndBeforeBroken
<1>3. Inv => EofBeforeBroken
  BY DEF EndBeforeBroken
<1> HIDE DEF Inv
<1>4. Spec => []Inv
  BY <1>1, <1>2, PTL DEF Spec
<1> QED BY <1>3, <1>4, PTL
===============================================================================
