# A formal model of yamux-low-mem

TLA+ specifications of the multiplexer in `src/src`, the TLC runs that check
small instances of them, and TLAPS proofs, for every instance, of every safety
property the passing runs check: of a stream's end, of a session, of a stream
between two sessions, which implements an ordered byte stream, and of the codec
from frames to bytes and back.
`PROJECT.json` lists the runs, the source lines each definition models (`map`),
the mutants that show that each property can fail, the theorems, the hazards of
the code and the findings.

## The system

    application          session owner
    YamuxStream (tx)     poll / open_stream / close
        |   ^                  |
        v   | (two channels)   v
    YamuxStreamHead  <->  YamuxSession  -- out_queue -->  YamuxTransport  <-> I/O
    (one per stream)      (map of heads)                  FrameWriter buffer
                                                          FrameReader buffer

| Component | State | Operations | Hard behaviour | Correct when |
|---|---|---|---|---|
| `YamuxStreamHead` (`stream.rs`) | `state` (local/remote half open), `window` (send/recv), `outs`, `recv_state`, `tx`, `rx` | `on_input`, `handle_flag`, `mark_received_bytes`, `try_close_local`/`remote`, `poll_next` | input, polls and the handle interleave; closes in any order | windows exact, header and payload adjacent, one FIN and no data after it, one end of stream marker |
| `YamuxStream` (`stream.rs`) | the other ends of the channels, `recv_chunk` and its offset | `poll_read`, `poll_write`, `poll_close`, drop | used from another thread; may outlive its head, or its head it | an ordered byte stream whose end means that it is complete |
| `YamuxSession` (`session.rs`) | `streams`, `next_stream_id`, `out_queue`, `manual_close` | `poll_next`, `open_stream`, `close`, drop | several return points, each with its own wakers; GoAway; frames of unknown streams | no wakeup lost, framing kept across streams, nothing but GoAway after GoAway, an identifier never 0 and of the right parity |
| `YamuxTransport` (`transport.rs`) | writer buffer, reader buffer, the I/O object | `poll_ready`, `start_send`, `poll_flush`, `poll_close`, `poll_next` | partial writes, backpressure, Pending flush | buffer bounded, everything flushed before it closes |
| `FrameReader`, `FrameWriter` (`frame.rs`) | the payload pending after a header | `push_back`, `next_frame`; `write`, `pop_front`, `take` | cuts anywhere | the same frames whatever the cuts |
| Header codec (`packet.rs`) | none | `Header::write`, `read`, flag words, frame types | shifts, casts, bit masks | every value comes back |
| Chunk buffers (`chunk.rs`) | chains of chunks with offsets, and their lengths | push, pop, fill, consume, convert | partial consumption across chunks | a FIFO of bytes, its counters exact, no empty chunk |

The application and a head share two channels: a bounded one (data from the
handle) and an unbounded one (data to it).  Both use an empty chunk as a mark:
the close hint, and the end of the stream.  A session owns the heads: it feeds
them the frames of their stream and polls them for frames to send.

The examples, the benchmarks, the interoperability test and the crate root are
not modelled: they hold no protocol logic.

## The modules

| Module | What it models |
|---|---|
| `YamuxFrame` | frames and flags; what `FrameWriter::write` accepts |
| `PacketHeader` | the twelve octets of a header: integers in network order, flag words, types, both ways |
| `ChunkBuffer` | `chunk.rs` as pure operators: chunks, the writer's chain, the reader's chain of views |
| `StreamHead` | one operator per function of `stream.rs`, on a record that holds head, handle and both channels |
| `StreamEndpoint` | one such record as a state machine: application, session polls, and a free peer that keeps to SPEC.md; `PeerDataFlags` and `MinPayload` say what its data headers may be |
| `ByteStream` | the abstract specification: two directions of bytes, read in order and once, whose end comes after everything |
| `StreamPair` | two heads and handles joined by two FIFOs, with the sessions' routing and removal, and transports that may hold frames back; implements `ByteStream` |
| `Session` | `YamuxSession::poll_next` step by step with its heads, `out_queue`, writer buffer, socket, wakers, owner, a connection that may end or fail, and a peer that may close its own session |
| `FrameCodec` | from the frames written to the frames read, over `PacketHeader` and `ChunkBuffer`, in the three ways the crate offers: two transports with a socket between them, `FrameWriter::pop_front` to `FrameReader::push_back`, and `FrameWriter::take` |
| `Sums` | the sum of a function's values, with which the properties count payload and credit in a queue |
| `InductionProofs` | what all the proofs rest on: induction over the naturals, what a loop's turns and sums compute, and queues as paths, which grow at their end and shrink at their front |
| `StreamHeadProofs` | what each operator of `StreamHead` does to each field, to the totals of its queues and to their framing |
| `StreamEndpointProofs`, `StreamReaderProofs` | the invariants of `StreamEndpoint`, proved: the windows and what is sent, and the end of the stream as its reader sees it |
| `SessionProofs` | the invariants and the action property of `Session`, proved |
| `StreamPairProofs` | invariants of `StreamPair`, and that it implements `ByteStream`, proved |
| `PacketHeaderProofs` | that decoding a header undoes encoding it |
| `FrameCodecProofs` | what each operator of `ChunkBuffer` does to the bytes of a chain, and the invariants of `FrameCodec`, proved |
| `MC...` | finite instances |

`StreamHead` is shared: `StreamEndpoint`, `StreamPair` and `Session` decide when
its operators run, so the three look at the same code from three distances.
An operator named `Mutant...` is a wrong variant of the definition that follows
it, used by no specification: `PROJECT.json` says which property must notice
if it took that definition's place.

### State and code

`stream.local`, `.remote` are `State`; `.send`, `.recv` are `Window`; `.outs`,
`.recvState`, `.tx` have their names; `.outbox` with `.txOpen` is the bounded
channel (`tx`/`rx`) and `.inbox` with `.rxOpen` the unbounded one (`tx2`/`rx2`);
`.reading` is `recv_chunk` from its offset on; `.alive` says that the head is in
the session's map.  `futures::channel::mpsc::channel(1)` with its single sender
holds two chunks (`ChannelSlots`): its buffer of 1 and one slot per sender.

`TakeChunk` is a turn of the `while` loop of `YamuxStreamHead::poll_next`, and
`Fill` three turns: two chunks and the end of the channel.  The loop is one step:
a chunk written while it runs is taken by the session's next call, since the
session polls a head until it is Pending.

In `Session`, `pc` is the position in `poll_next`, and each loop body, and each
call of the transport with its result, is one step, so that handles, peer and
socket act in between.  `waiting` holds the wakers that Pending results have
registered, `woken` whether a poll is due: a step of the world that fires a
waker takes it out of the one and sets the other (`Wake`).  `link` is the
connection: up, at its end (`eof`: reads return 0 once what came is read,
writes still go) or lost (`down`: writes fail, and what had not arrived is
gone).  `peerClosing` says that the peer's owner has called `close` too, after
which the peer sends its session's frames, GoAway last, and reads no more.  The
owner's calls happen while no poll runs (`&mut self`), and are followed by a poll.
`close` may be called several times (`closes`); `closing` says that the poll_close
of the stream below the transport has been Pending, after which it completes in
its own time (`StreamCloses`).  `IdSpace` is the number of identifiers, 2^32 in the
code: `FollowingId` wraps around there and skips 0.  `Open` replaces a stream that
still has the identifier, as `HashMap::insert` does.

In `StreamPair`, `flushed[x]` is how many frames of `wire[x]` x's transport has
let go; the rest waits for a later frame of the session, and nothing obliges it to
come.  A session whose socket is never full (x not in `MayHold`) flushes what it
polls, in the same `poll_next`.

`FrameCodec` is one direction of a connection.  `writer` is the
`ChainedChunkBufferWriter` (its `queue` of chunks, a chunk being all its data
and the number of bytes consumed, which still count against its capacity, and
`filled_len`), `reader` the `ChainedChunkBufferReader` (`chunks` and `len`),
`pending` the payload `FrameReader` waits for, `owed` the one `FrameWriter`
waits for; `start_send` does not look at the latter, and the session keeps to it
(which is `TransportDiscipline`).  `PollClose` needs an empty buffer and nothing
else: the payload of a header already written may still be in the session's
`out_queue`.  `way` is fixed at the start. Between transports, `PollWrite` is a
turn of the loop in `YamuxTransport::poll_write`; `PollBuffered` is `poll_next`
up to its first `next_frame`, `PollRead` a turn of its read loop, `PollEnd` its
end of file or error.  `PassChunk` and `PassAll` hand chunks from a
`FrameWriter` to a `FrameReader`, which then has `PollBuffered` only.  A loop's
turn that ends in Pending changes nothing and is no step.

### Abstractions

- A frame is a record and a chunk a sequence of byte values; logging is left
  out.  In `Session` a frame counts as one unit of the writer buffer and the
  socket; `FrameCodec` counts bytes.
- In `FrameCodec` a byte of a header is the header's octets with the byte's
  place among them.  Bytes taken from the wrong place, or of two headers, make
  no header and reading fails, so `FramesInOrder` notices.  The place runs over
  `HeaderLen` positions, 2 in the run, which keeps the instance small; the octets
  themselves are always twelve, converted by `PacketHeader`.  The version is
  written as 0 and never looked at.  `Unknown` is a type a later protocol might add.
- In `StreamPair`, `out_queue`, transport, connection and `FrameReader` are one
  FIFO per direction, with payloads split anywhere.  Byte number i has value i,
  so a reordered, lost or repeated byte would show.
- Peers keep to SPEC.md: they acknowledge before they send, stay within credit,
  send no data after FIN and no frame after RST; the payload of a header that
  carries FIN or RST still comes.  Which flags ride on data headers and whether
  data frames may be empty are constants (`PeerDataFlags`, `MinPayload`): SPEC.md
  allows FIN, RST and empty frames, and findings 6 and 7 are what they do.
  `on_input`'s error branches are modelled and shown not to be reached by such a
  peer (`PayloadInStep`).
- In `StreamPair` a session ends at any moment (`EndSession`), whatever the
  reason; `Session` has the reasons: GoAway, `close`, the end of the connection
  and its loss.  A session whose owner has called `close` reads no more, and so
  counts as ended.  In `Session` an error of `poll_ready` or `poll_close` counts
  as ready, as `.is_ready()` does.
- Windows are unbounded integers (`usize`); identifiers wrap around at `IdSpace`,
  and the integers of a header keep their widths.  `Session` keeps one record per
  identifier, so the handle of a stream replaced after a wrap is forgotten.

## The runs

All invariants are checked at every reachable state of a bounded instance.
Chunk sizes are 1 or 2 bytes and windows 4 to 8, the smallest that satisfy
`ChunkCapacity < InitialWindow \div 2`, as 4090 and 262144 do; only their
order matters to the code.

| Run | Shows | Bounds |
|---|---|---|
| `endpoint` | windows exact in both directions, framing, FIN once and last, end of stream last unless it came on a data header, never before the peer has ended it, and before BrokenPipe | chunk 2, window 8, writes of up to 3 (truncation), 9 bytes out (the window is used up), 3 in, credit of 0 or 3, ACK, FIN or RST on any of the peer's headers |
| `pair_safety` | refinement of `ByteStream`, window conservation, one accept; under fairness, what the transports let go is read | 2 bytes one way and 1 back; chunk 2, so payloads split, and window 8, so credit is withheld; the opener closes early or loses its session, the acceptor drops its handle, both sockets may be full |
| `pair_flow` | windows conserved, no stall and no leftover head; BrokenPipe only after the end of stream; under fairness, the transfer is read to its end and leaves both sessions | 13 bytes one way, one more than both grants of 6; credit comes back in batches of 2; the opener drops its handle, no session ends; sockets always have room, one frame on its way in each direction, the others in `outs` |
| `session` | framing across streams, backpressure, nothing but GoAway behind GoAway, no lost wakeup; under fairness, everything queued is handed over, `close` ends the session and so does an end or loss of the connection | an own stream that sends a byte and closes, one opened by the peer, a ping, a buffer of 2 frames, a socket of 1; either side closes (the owner up to twice), the stream's close may be Pending, the connection ends or fails, at any moment |
| `codec` | the frames read are those written, whatever the cuts and the way; no byte lost or doubled, counters exact; an orderly close may end inside a frame only where the payload was never handed over; under fairness every frame that has left the writer is read | 4 frames or payloads out of 7 kinds with numbers that use every octet, payloads of 0, 1 and 5 bytes, headers of 2, chunks of 3, a connection of 3, which may be lost |
| `endpoint_zero_write`, `endpoint_fin_on_data`, `endpoint_zero_data`, `pair_leak`, `pair_inbox`, `session_flush`, `session_goaway` | the findings below | smallest instance that shows each |

The instances let the interesting cases happen: the send window runs below a
chunk and is refilled, credit is returned in batches, the bounded channel fills,
the head goes while its handle still reads, and the socket is full when the
session wants to write, or both sides' are and both close; in `codec` headers
and payloads straddle chunks and reads, and a payload fills more than one of
each.  Bounds on counters (`MaxAccepted`, `MaxReceived`, `MaxGranted`,
`MaxWritten`, `Arriving`, `Writes`, `Closed`, `MaxCloses`, `MaxFrames`) appear
only as guards of the environment's actions, but for `MaxWire`, which keeps a
session from polling a head while that many frames are on their way: only
`pair_flow` has one small enough to be reached.  Deadlock is not checked: all
these systems stop when the bounds are used up or the stream has ended; that
nothing is left undone is `NoStall`, `NoLeftover`, `NoLostWakeup` and the
liveness properties.

**Fairness.**  `pair_safety` and `pair_flow` assume weak fairness of one action: a
session's work at either end (take in a frame that the peer's transport has let
go, poll an item, remove a head), which its executor does when the frame or a
waker has woken it (`NoLostWakeup`), or a read that can make progress, since a
reader that never reads is owed nothing.  Every step of it uses up something
finite, so that neither end can starve the other.  That a transport lets go of
what it holds is not assumed: `poll_next` never retries a Pending flush (finding
2), so `EventuallyRead` and `EventuallyRemoved` except a transport that holds
frames back (`Held`); `pair_flow` rules that out by sockets that always have room,
for which the flush is in the `poll_next` that polled the frame.  Writes, closes,
drops and session ends are not fair.

`session` assumes weak fairness of the steps of a poll, and of its peer, which
reads until it closes, then sends what it can and leaves, as a stream that was
asked to close does; a poll starts only when a waker has fired or the owner has
called the session.  The run `session_flush` even lets the executor poll for no
reason (`Spurious`), and the frames stay all the same.  `codec` assumes that the
reading side is polled, or that chunks are passed on, and nothing of the writing
side: what has left the writer is read.  Nothing obliges anybody to send, to flush,
to close or to break a connection.

## Findings

1. `pair_leak`: an opened head begins with `remote: false`, so a local close
   before the ACK arrives makes it closed on both sides.  It is removed, and the
   peer's answer is dropped: the reader gets BrokenPipe, and no credit is returned
   for what the acceptor sends.  An acceptor that writes more than its window is
   left with less than a chunk of credit, with which its head does not look at its
   handle: the close of that handle is never seen, and the head stays in its
   session for ever.
2. `session_flush`: a Pending flush is retried only by a poll that sends another
   frame; until then buffered frames stay in the writer buffer.
3. `session_goaway`: after `close`, the socket may drain between a Pending
   `poll_ready` and `poll_close`, which then closes the stream with GoAway (and
   any frame before it) still in `out_queue`.  If that is a payload whose header
   has been sent, the connection ends inside a frame, which the peer takes for an
   ordinary end of file; `EofAfterAll` says how much is lost then, and no more.
4. `pair_inbox`: credit is returned when data arrives, not when it is read, so
   the queue to a slow reader is unbounded.
5. `endpoint_zero_write`: a zero-length write is taken as the close hint, and
   what is written afterwards is sent after FIN.
6. `endpoint_fin_on_data`: FIN or RST on a data frame puts the end of stream
   marker ahead of that frame's payload.
7. `endpoint_zero_data`: a data frame of no bytes, which SPEC.md allows, reaches
   the reader as an empty chunk, that is as the end of a stream still open.

`session` also reaches a state it names `BothBlocked` (session.rs:106): both
owners have called `close`, so neither session reads, and both sockets are full,
so neither gets its GoAway out.  No document promises that `close` ends, so
`EventuallyEnded` and `EventuallyHandedOver` except that state, and no other.

`PROJECT.json` quotes the lines of the documentation each one contradicts.

## The proofs

They hold for every chunk capacity, window, buffer size, number of streams,
script of the peer, set of flags the peer puts on headers and credit it grants,
from the assumptions of the modules: `ChunkCapacity` is positive and less than
half the window, sizes are naturals, `NoPayload` is no number, scripts are
sequences of frames, the numbers of the bytes written are bytes.  For the codec
the frames written have numbers of 32 bits, as the code's types do, a header has
at least one byte, and payload bytes are told from header bytes, which is how the
model notices bytes read from the wrong place.  The bounds of the runs are guards,
and no proof uses them.

### Foundations

The library's induction theorems take an operator as a parameter, which the
provers cannot instantiate.  `InductionProofs` has induction for a *set* of numbers
(`LeastNatural`, `SetInduction`) from the first-order fact that a well-founded
relation has minimal elements, and with it what `SumTo` computes and that a loop
written as a recursive function has its turns (`LoopExists`); so totals over
queues of any length can be reasoned about.  A queue whose elements lead from one
station to the next is a *path* (`Path`), which can be lengthened at its end and
taken up at its front.

`StreamHeadProofs` states for each operator of `StreamHead` which fields it
changes and how; the proofs about specifications then need no record
manipulation.  A call of `poll_next` is reduced to at most three *turns* of its
loop (`FilledTurns`), so an invariant needs a lemma about one turn only.  Its
second half says what an operator does to the totals of a queue
(`TotalsAppend`, `FilledTotals`) and to its framing (`FramedData`, `FramedFilled`),
which the proofs about an endpoint, a session and a pair all use.

### One end of a stream (`StreamEndpointProofs`, `StreamReaderProofs`)

| Theorem | Property | Strengthening |
|---|---|---|
| `TypeCorrect`, `PayloadCorrect` | `TypeOK`, `PayloadInStep` | `Typed`, their conjunction: types of the frames handed to `on_input` depend on `recv_state` agreeing with the peer |
| `SendWindowCorrect` | `SendWindowExact` | `OutboxBounded`: chunks in the channel are no larger than a chunk. The head takes one only with a full chunk of credit, so it never charges more than it has |
| `CreditCorrect` | `CreditExact` | inductive with `Typed`; credit moves from `window.recv` into an update, an update from the queue to the peer |
| `FramingCorrect` | `DataFramed` | inductive with `Typed`: frames are only appended, data as a pair, and polled from the front |
| `FinOnceCorrect` | `FinOnce` | inductive with `Typed` |
| `NoDataAfterFinCorrect` | `NoDataAfterFin`, if `MinWrite > 0` | `LastInv`: no empty chunk waits in the channel, and once the local half is over either the stream is over in both directions for good (the peer has acknowledged or reset it, so no ACK reopens the remote half) or the channel is empty and its sender gone |
| `EofFromPeerCorrect` | `EofFromPeer`, if `MinPayload > 0` | `EndFromPeer`: no empty payload is pending |
| `EofLastCorrect` | `EofLastUnlessLate`, if `MinPayload > 0` | `QuietAfterEnd`: the remote half stays closed once the marker is sent, because the one ACK has come, and the peer owes no payload after its end unless it put that on a data header (`peer.late`) |
| `EofBeforeBrokenCorrect` | `EofBeforeBroken` | `EndBeforeBroken`: the remote half of an acknowledged stream closes with the marker, and a live head has its sender as long as the reader is there |

`MinWrite > 0`, `MinPayload > 0` and the exception for a late payload cannot be
dropped: that is findings 5, 7 and 6.  Nothing is assumed of the flags on the
peer's headers.

### A session (`SessionProofs`)

| Theorem | Property | Strengthening |
|---|---|---|
| `TypeCorrect` | `TypeOK` | inductive as it stands, since the identifier space is even (`FollowingIdType`) |
| `BufferCorrect` | `BufferBounded` | inductive with `TypeOK`: a frame is handed over only while fewer than `max_write_buffer` are left, and a lost connection stays lost |
| `FarewellCorrect` | `NothingAfterGoAway` | `FarewellInv`: in `out_queue` only GoAways follow a GoAway (`GoAwaysLast`), once the first is handed over there is nothing else, and after `close` the poll never gets to the arms that queue anything |
| `DisciplineCorrect` | `TransportDiscipline` | `QueueInv`: `out_queue` is a chain of whole payloads; a header at its end is followed by the next item of the very head that the loop over the heads is at (`LeftOf`), whose own queue is framed; what the transport has been promised is the first frame of the queue |
| `WakeCorrect` | `NoLostWakeup` | `ReadWake`, `HeadWake`, `WriteWake`: for each place in `poll_next`, the wakers that the Pending results seen so far have left, the stream's own poll_close included, or the poll they have made due |

`DisciplineCorrect` is the property `start_send` relies on and does not check: it
holds because the loop over the heads, once a head has given a header, asks the
same head again before anything else can be queued, even if the transport is
full in between.

### Two ends and the frames between them (`StreamPairProofs`)

| Theorem | Property | Strengthening |
|---|---|---|
| `TypeCorrect` | `TypeOK` | inductive as it stands |
| `AcceptCorrect` | `AcceptOnce` | `AcceptInv`: before the accept, the acceptor has nothing and SYN leads whatever the opener has queued or sent; after it, no frame anywhere has SYN or RST |
| `WindowCorrect` | `WindowConserved` | `WindowInv` with `FlowInv`: the balance of each direction (`Balance`), counting from the start an acceptor that does not exist yet |
| `PromiseKept` | `ImplementsByteStream` | `FlowInv` with `AcceptInv` |
| `BrokenCorrect` | `BrokenOnlyAfterEof`, if `EarlyClose` is FALSE | `LifeInv` with `FlowInv`: no end is removed before it has heard its peer's FIN |
| `StallCorrect` | `NoStall`, if also `MayEnd` is empty | `RecvInv`, `WindowInv`, `LifeInv` and `FlowInv` together |
| `LeftoverCorrect` | `NoLeftover`, under the same hypotheses | the same |

`PromiseKept` is the refinement.  The mapping takes `written[x]` to the bytes
1 to `written[x]`, `ended` to what `poll_read` has said, and a closed handle to a
shut direction.  The argument:

- `Ghost(x)` is the end at x, or the head that the opening frame will make if
  there is none yet, so that the two directions are alike from the start.
- A queue is a path, a station being how many bytes have passed and how much
  payload is owed.  A chunk of bytes m+1 to n leads from m to n, a header sets
  what is owed, an update changes nothing, and a FIN or end marker may only
  stand where the direction ends.
- `Flow` says that the sender's channel, its `outs`, the frames between the ends,
  the receiver's channel and the chunk being read are one path, from the bytes
  read to the bytes written, and that `recv_state` is what is owed where the
  frames reach the receiver.  Each `Flow...` lemma is one way a step moves a piece
  of that path: a write lengthens it, a poll moves a frame, an arrival takes the
  front or part of it, a read takes bytes off its end.
- It follows that `on_input` never fails, that what is read continues what has
  been read, and that an end is read only at the end of the path, after a close
  (`NextPromise`).

`WindowInv` needs `FlowInv` for one thing: that the receiver's `on_input` accepts
every frame, since a rejected one would vanish with its payload.

The last three are about the *life* of a direction, from which `Flow` abstracts:
its receiver is first to hear the ACK (phase `before`, the opener only), then
data (`open`), then the FIN (`closed`).  `Life` says that the frames between the
ends and in the sender's `outs` are a path through these phases, that a head
removed by its session had sent its FIN, that the receiver's `remote` flag is the
phase, and that the end of stream marker waits in the channel of a handle, or has
been read, once the phase is `closed`.  An opener in phase `before` has heard
nothing, so an application that waits for its peer (`MayClose`) has not closed.
`EarlyClose` cannot be TRUE, which is finding 1, and a session that ends in the
middle removes a head with anything in it: `LifeInv` is then void (`Cut`).

For `StallCorrect`, take a state with nothing to do.  The wires are empty and a
head that is left `Waits`, for credit or for its handle (`PolledWaits`).  If both
are left, the balance of the direction is all in `send` and `recv`; what
`mark_received_bytes` may hold back is less than half a window (`RecvInv`), so
`send` is at least a chunk, the head waits for its handle, and the path of `Flow`
has no element: all is read.  If one is gone, the phase is `closed`, so the reader
has had its end, which is where the path ends.  For `LeftoverCorrect`, two heads
that wait for nothing, with closed handles, have both sent FIN, and with empty
wires have heard it: then `poll_next` returns None, and they do not wait.

### The header (`PacketHeaderProofs`)

For every identifier, length, ping value and reason below 2^32 and every set of
flags:

| Theorem | Statement | Lemmas |
|---|---|---|
| `HeaderRoundTrip` | `Header::write` takes twelve octets, from which `Header::read` gets the same header | `U16RoundTrip`, `U32RoundTrip` (from `OctetKept`: `as u8` keeps the last octet of each shift), `FlagsRoundTrip` |
| `FrameRoundTrip` | what `Frame::write` encodes of a data header, window update, ping or GoAway, `Frame::read` decodes to the same frame, and it takes no unknown type for one of them | `HeaderRoundTrip` |

These say that the values survive, whichever they are, once the bytes are where
`Header::read` looks for them; that they are is the next section.

### The codec (`FrameCodecProofs`)

| Theorem | Property | From |
|---|---|---|
| `TypeCorrect` | `TypeOK` | `Shape` |
| `ChainsCorrect` | `ChainsExact` | `Shape` |
| `FramesCorrect` | `FramesInOrder` | `InFlight`, `Excused` |
| `BytesCorrect` | `BytesConserved` | `Shape`, `InFlight` |
| `EofCorrect` | `EofAfterAll` | `Ends`, `InFlight` |

None is inductive; their common strengthening is `IInv`, the conjunction of the
four.  It is built in three layers:

- *Chains.*  `OkWriter` and `OkReader` are the chains that the code builds: every
  chunk has something left, none is beyond its capacity, and the counter is the
  number of bytes left; a writer whose chunks are popped or taken is moreover
  `fresh`, nothing of it having been consumed, since `ChunkView::from` begins at
  offset 0.  One lemma per operator (`WriteSliceEffect`, `ConsumeFrontEffect`,
  `TakeFrontEffect`, `SkipHeaderEffect` and the like) says that it keeps the chain
  so, and which bytes it adds or takes.  `TakeFront` needs a chain with no empty
  chunk, and `SkipHeader` as many bytes as `len` claims: this is what
  `ChainsExact` is for.
- *Units.*  A unit is a header or one byte of payload with its stream.
  `EncodedUnits` says that frames and the units they make are the same bytes.  Units
  follow one another as a path (`Follows`), a station being the payload that is
  owed: a data header sets it, a byte takes one off, and any other header may only
  stand where nothing is owed.
- *In flight.*  `InFlight` says that what was written is what was read followed by
  some units still to be read; that their bytes are those in the reader's chain, the
  connection and the writer's chain together, up to what a lost connection
  swallowed; and that they are a path from `pending` to `owed`.

So when `next_frame` waits for payload, the next units are bytes of that payload
(`NextBytes`), and it takes no more than are left; when it waits for a header, the
next unit is one, whose `HeaderLen` bytes are the first of the chain (`NextHead`,
`HeaderFound`), and `HeaderRoundTrip` and `HeaderFits` give the frame back.  It
fails only on a header of unknown type, which can only come from a frame that was
written (`UnknownSent`).  At an end of file of a closed connection (`Ends`) the
connection and the writer's chain are empty, and a reader that still waits has an
empty chain or less than a header in it, which is no unit: so nothing is left to
be read (`NothingAhead`), and the path from `pending` to `owed` is empty: what the
reader still waits for is what the session never handed over.

### Only model-checked

All liveness properties (`EventuallyRead`, `EventuallyRemoved`,
`EventuallyHandedOver`, `EventuallyEnded`, `LinkEndNoticed`, `EventuallyYielded`),
which need fairness and ENABLED and are out of this prover's reach.  `StallCorrect`
and `LeftoverCorrect` say what holds if the pair comes to rest; that it does is
`EventuallyRead` and `EventuallyRemoved`.

## Not modelled

- The handle of a stream whose identifier `open_stream` gives to another one.
  After 2^31 opens `next_stream_id` has wrapped around, and the new head is
  inserted whatever the map holds (session.rs:73): one that is still there is
  dropped.  `FollowingId` and `Open` do as the code does, and `TypeCorrect` holds
  across wraps, but no run reaches one.
- An `out_queue` without bound (heads and pongs are drained into it whatever the
  transport's state), and a send window that a peer raises without limit: the
  code has no limit to check, and no document promises one.
- A socket that answers `Ok(0)` to a write: `poll_write` then loops within one
  call, which no step of a model shows.
- The sharing of chunk memory (`Arc`): `ChunkView` is the sequence of its bytes.
- The crate root, the examples and benchmarks, and the interoperability test:
  they hold no protocol logic of this crate, and the last runs against another
  implementation.

## Plan

Done: all the modules above, and a proof of every safety property that a passing
run checks.  What is left:

1. Models: two `Session`s joined by bounded sockets in place of the scripted peer.
2. Proofs: that `Session`'s transport, which counts frames, is what `FrameCodec`'s
   writing side does in bytes.
