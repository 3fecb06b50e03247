------------------------------ MODULE ChunkBuffer ------------------------------
(***************************************************************************)
(* The chunk buffers of chunk.rs as records and pure operators: fixed      *)
(* chunks that are filled at the end and consumed from the front, the      *)
(* chain a writer appends them to, and the chain of views a reader walks.  *)
(* A ChunkView is the sequence of its bytes.                               *)
(***************************************************************************)
EXTENDS Integers, SequencesExt

CONSTANT ChunkCapacity  \* DEFAULT_CHUNK_CAPACITY

ASSUME CapacityAssumption == ChunkCapacity \in Nat \ {0}

\* ChunkOwned: data up to its len, and how much of it was consumed.
ChunkOwned(B) == [data : Seq(B), consumed : Nat]
NewChunk == [data |-> <<>>, consumed |-> 0]

FilledSlice(chunk) == SubSeq(chunk.data, chunk.consumed + 1, Len(chunk.data))
FilledLen(chunk) == Len(chunk.data) - chunk.consumed
AvailableLen(chunk) == ChunkCapacity - Len(chunk.data)
Filled(chunk, bytes) == [chunk EXCEPT !.data = @ \o bytes]
Consumed(chunk, n) == [chunk EXCEPT !.consumed = @ + n]

\* From<ChunkOwned> for ChunkView: from offset 0 on, whatever was consumed.
ToView(chunk) == chunk.data

-----------------------------------------------------------------------------
\* ChainedChunkBufferWriter

Writer(B) == [queue : Seq(ChunkOwned(B)), filled_len : Nat]
NewWriter == [queue |-> <<>>, filled_len |-> 0]

\* Where the next bytes go: the last chunk while it has room, or a new one.
HasRoom(w) == w.queue # <<>> /\ AvailableLen(Last(w.queue)) >= 1
Room(w) == IF HasRoom(w) THEN AvailableLen(Last(w.queue)) ELSE ChunkCapacity
Put(w, bytes) ==
    [queue |-> IF HasRoom(w)
               THEN Append(Front(w.queue), Filled(Last(w.queue), bytes))
               ELSE Append(w.queue, Filled(NewChunk, bytes)),
     filled_len |-> w.filled_len + Len(bytes)]

\* write_u8
WriteU8(w, byte) == Put(w, <<byte>>)

\* write_slice: turn by turn, as much as there is room for.
Smaller(a, b) == IF a < b THEN a ELSE b
SliceTurn(s) ==
    LET n == Smaller(Room(s.writer), Len(s.left))
    IN  IF s.left = <<>> THEN s
        ELSE [writer |-> Put(s.writer, SubSeq(s.left, 1, n)),
              left |-> SubSeq(s.left, n + 1, Len(s.left))]
WriteSlice(w, bytes) ==
    LET after[k \in 0..Len(bytes)] ==
            IF k = 0 THEN [writer |-> w, left |-> bytes]
            ELSE SliceTurn(after[k - 1])
    IN  after[Len(bytes)].writer

FrontSlice(w) == FilledSlice(Head(w.queue))

\* consume_front; the front chunk goes when it is used up.
MutantConsumeFront(w, n) ==
    [queue |-> Tail(w.queue), filled_len |-> w.filled_len - n]
ConsumeFront(w, n) ==
    [queue |-> IF n = FilledLen(Head(w.queue)) THEN Tail(w.queue)
               ELSE [w.queue EXCEPT ![1] = Consumed(@, n)],
     filled_len |-> w.filled_len - n]

\* pop_front: the view it returns, and the chain without it.
FrontView(w) == ToView(Head(w.queue))
PopFront(w) ==
    [queue |-> Tail(w.queue),
     filled_len |-> w.filled_len - FilledLen(Head(w.queue))]

-----------------------------------------------------------------------------
\* ChainedChunkBufferReader

Reader(B) == [chunks : Seq(Seq(B)), len : Nat]
NewReader == [chunks |-> <<>>, len |-> 0]

\* From<ChainedChunkBufferWriter>
FromWriter(w) ==
    [chunks |-> [i \in DOMAIN w.queue |-> ToView(w.queue[i])],
     len |-> w.filled_len]

PushBack(r, view) ==
    [chunks |-> Append(r.chunks, view), len |-> r.len + Len(view)]

\* ChunkView::view
View(view, start, end) == SubSeq(view, start + 1, end)

\* Of the front view, next_u8 takes a byte and next_chunk what it may; the view
\* goes when nothing is left of it.
MutantTakeFront(r, n) ==
    [chunks |-> <<View(Head(r.chunks), n, Len(Head(r.chunks)))>>
                  \o Tail(r.chunks),
     len |-> r.len - n]
TakeFront(r, n) ==
    [chunks |-> IF n = Len(Head(r.chunks)) THEN Tail(r.chunks)
                ELSE <<View(Head(r.chunks), n, Len(Head(r.chunks)))>>
                       \o Tail(r.chunks),
     len |-> r.len - n]

MutantFrontLen(r, max) == Len(Head(r.chunks))
FrontLen(r, max) == Smaller(max, Len(Head(r.chunks)))
NextChunk(r, max) == View(Head(r.chunks), 0, FrontLen(r, max))
===============================================================================
