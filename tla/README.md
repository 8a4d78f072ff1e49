# corelib-go in TLA+

A verification development for the Go core library of SofaBuffers: TLA+
modules translated from the source, TLC runs over small instances of them, and
TLAPS proofs for all instances.

## The system

corelib-go is a codec. It is single-threaded, persists nothing and sends
nothing: a caller drives it, and it calls the caller back. What makes it hard
is that both sides are resumable. The decoder is fed a message in chunks cut
anywhere; the encoder writes through a window smaller than the message and runs
a caller's sink in the middle of a write.

| component | source | state | operations | talks to |
|---|---|---|---|---|
| integer coding | `varint.go`, `types.go` | none | `putUvarint`, `uvarintFast`, zigzag | both codecs |
| push decoder | `istream.go`, `visitor.go` | machine state, varint accumulator, field registers, parse stack of visitors, error latch | `Feed`, `FeedFrom`, `AcceptBytes`, `Reset` | calls a `Visitor` per field, which may accept, decline a subtree, or fail |
| encoder | `encoder.go` | window and cursor, sticky error, nesting depth, held-back sequence ids, staged tail | `Write*`, `Flush`, `Bytes`, `SetBuffer` | calls an `io.Writer` or a `Sink`, which may call `SetBuffer` back |
| payload accumulator | `payload.go` | the bytes of a payload so far | `Take`, `Reset` | called by visitors, piece by piece |
| collectors | `collectors.go` | destination slices, row gates, the current row | they implement `Visitor` | called by the decoder |
| limits, options | `limits.go` | configuration | `With*` | read by all of the above |
| UTF-8 check | `utf8*.go` | policy | `UTF8Valid` | handed to visitors by the decoder |
| float comparison | `floats.go` | none | `BitsEqual` | generated code |
| benchmarks | `cmd/perfbench`, `bench` | none | drivers | the public interface |

What makes each part correct:

* **integer coding**: every 64-bit word survives, the writer is minimal, the
  reader also takes non-minimal varints but nothing wider than a word.
* **decoder**: the verdict and the callbacks depend on the bytes alone, never
  on the chunks, the entry point or what the decoder decoded before; visitors
  are called in the order `visitor.go` promises; a declined subtree is silent
  and ends where it ends; an error is terminal; `Feed` returns.
* **encoder**: the output depends on the calls alone, never on the buffers, the
  drains or what a sink did; a buffer that was given away is not written; a
  full buffer is reported exactly when the message does not fit; sequences are
  balanced and framed exactly when they have content; the first error stays.
* **accumulator**: what is assembled is what was sent, in memory nobody else
  writes to, and no announced length alone allocates.
* **collectors**: the destination reads as the fields that arrived say, whatever
  pieces they came in and whatever it held before; each refusal has the one
  reason that applies and touches nothing; reused storage is never shared.

The hard behaviours, each at its line, are the `hazards` of `PROJECT.json`.
There are no threads and no restarts, so no interleaving of processes and no
crash recovery is modelled; nondeterminism comes from the cuts between chunks,
the readers, the sinks, the visitors and the caller.

## Modules

| module | what it is |
|---|---|
| `Varint` | the integer codings, with the group size, length and word width as constants |
| `VarintProofs` | the TLAPS proofs about `Varint`, on the round trip of `MCVarint` |
| `Decoder` | `istream.go`, one action per state handler and entry point |
| `VisitorProtocol` | the abstract specification: what a visitor may rely on, with no bytes |
| `DecoderRefinement` | the refinement mapping: `Decoder` implements `VisitorProtocol` |
| `WireFormat` | the wire grammar as a function of a whole byte string, the reference the decoder is compared with |
| `DecoderProofs` | the TLAPS proofs about `Decoder`: its invariants, and the refinement with the string policy |
| `Encoder` | `encoder.go`, one action per writer, per reservation, per drain |
| `EncoderProofs` | the TLAPS proofs about `Encoder`: who owns a buffer, what has room in it, and which calls reach the wire |
| `EncoderOutputProofs` | the TLAPS proof that its output is the message: where the bytes of those calls are |
| `PayloadAcc` | `payload.go`, one action per outcome of `Take` |
| `PayloadAccProofs` | the TLAPS proofs about `PayloadAcc` |
| `Limits` | `limits.go` and the policy of `utf8.go`: the options, what they fold into, the string check |
| `Slices` | Go slices over a memory of buffers, and the storage helpers of `collectors.go` on them |
| `Collectors` | `collectors.go`, one action per callback of a collector |
| `SlicesProofs` | what the storage helpers do to a memory, to the tree of slices in it, and to what is read of it |
| `CollectorsProofs` | the TLAPS proofs about `Collectors`: storage, and the refinement of `WrapperArray` |
| `WrapperArray` | the abstract specification of a collector: the value alone, with no memory and no pieces |
| `SeqLemmas` | what the proofs of several components use: sequences whose entries have no common set, and induction over the naturals |
| `MCVarint`, `MCDecoder`, `MCEncoder`, `MCPayloadAcc`, `MCCollectors` | instances for TLC |

`Encoder` extends `Varint` and `Limits`; `Collectors` extends `Slices` and
`Limits` and implements `WrapperArray`; `DecoderRefinement` joins `Decoder` and
`VisitorProtocol`; `MCDecoder` compares `Decoder` with `WireFormat`, and
`MCEncoder` reads what `Encoder` wrote with the same `WireFormat`, which is where
the two halves of the library meet.

### Varint

Bytes and words are numbers. A group has `Cont` values (2^7 in the code), a
varint has at most `MaxVarintLen` bytes (10), and the last one carries one bit
of weight `TopWeight` (2^63). Every property and proof leaves the three open
but for `TopWeightAssumption`, that `TopWeight` is the weight of the last group, and
that `Cont` is even, as zigzag's one-byte range needs. `Weight(k)` is `1 << (7*k)`. The writer's cascade of
comparisons and the unrolled reader are written as what they compute: the
number of bytes, and the first byte without a flag.

### Decoder

The variables are the fields of the `Decoder` struct. `weight` is 2^`shift`;
`fp` is `fp[:nfp]`; visitors are numbered in the order the decoder is given
them and 0 is nil. `stream` is the message, `fed` how much of it was handed
over, `pos` how much was read; `pc`, `call`, `rerr` and `ret` are the call in
progress (idle, in `run`, or between two `Read`s of `FeedFrom`) and the last
result. `log` is a history variable: the callbacks made since the last `Reset`.

One iteration of the switch in `run` is one action, or one per outcome:
`TakeVarint(s)` is a completed read in state s by whichever of the three
readers the code would use (the inline byte, `uvarintFast` when a whole varint
must be in the chunk, `varintResume` otherwise); `VarintByte` one suspended
byte. In the element loops an iteration is one element. A step that fails
latches the error, and what it leaves in the field registers is then
irrelevant because no action but `Return` is enabled; `LatchIsTerminal` proves
it. The visitor is the environment: `Answers` is the set of answers it may give
to a callback (ok, decline, error). What a nil visitor means (`Deliver`) is the
code's nil test around every callback.

### Encoder

A `Write` call puts the reservations it will make into `todo`: a unit is
contiguous, asks for the upper bound the code asks for and writes the bytes it
writes; a payload is divisible. `WriteStep` consumes them: `PutUnit` and
`PutPayload` when there is room, `MakeRoom` when not, which drains to the
writer or the sink, or stages the tail of a sink-less buffer. The code checks
room once per unit in the same order, so the drains fall at the same bytes. The
integer runs reserve a whole varint per element and the float runs a whole
float, as their loop conditions do.

`mem` is the content of every buffer, so that writing into a buffer that
belongs to somebody else is a visible step. A sink may copy, install any buffer
it has (the one it was handed too), fail or have a `SetBuffer` refused, and
either after it installed one. `taken` are the buffers a transport holds, `frame` the bytes before
the start offset when the buffer was installed. `sunk` and `ops` are history:
what left the encoder, and the calls accepted.

Assumed of the caller: it takes `Bytes` before it installs a buffer itself (as
`SetBuffer`'s comment asks), it does not reinstall a buffer a transport still
holds, and a sink does not call a writer.

### PayloadAcc

`buf`, `len` and `total` are the struct's fields, a slice being the number of a
buffer and a length; its capacity is the buffer's size. `Take` is one disjunct
per outcome: refused, whole at once (a window of the caller's chunk, so no
buffer), the first piece, the next one. `append` writes in place when the
capacity allows and otherwise moves to a new buffer of one of two sizes.
`handed` is the memory that was given away, `since` the history of calls since
the last at offset 0. The caller is unconstrained: what `VisitorProtocol`
promises about pieces is one of the things it may do.

### Limits

A limits value is the struct's two fields; an option is the field it sets and
the value. `NewLimits` folds a list of them over the defaults, so the last one
given for a field wins. `DepthBound` is the encoder's reading of `maxDepth`, `StringCheck`
the policy the decoder hands to a destination, `UTF8Valid` the check behind both
gates. The validator is the standard library's, an operator constant
(`WellFormed`) here.

### Slices

A memory is a sequence of buffers and only grows: what nobody reaches any more
is not reused, as the garbage collector guarantees. A slice is a buffer and a
length, all slices begin at their buffer's first cell (the code makes no other),
and the capacity is the buffer's size. `append` to a full slice moves it to a
buffer of `NextCap` of its capacity, a table that has to grow it and nothing
else, and `AppendAll` is `append` of several, one at a time. A slice allocated for its contents has
exactly their size: the code depends on a larger one nowhere, and rounding up
only makes storage last longer. `ReserveRows`, `Stale`, `Grow`, `ReuseSlice` and
`ReuseBytes` are the code's functions of those names; one that writes returns the
memory and its result.

### Collectors

`array` says which collector it is: the kind of the element, the schema's bounds,
the caps, and whether it sits inside a `NestedSeq`. `mem` holds the destination:
its first buffer is one cell, the field. `out` is the collector's `s.out`, a
pointer into that memory, and `coll` its other fields: the accumulator, the row
being built, the gate, the string check. The five matrix collectors differ in
the type of their element and are one here, with `TooWide` and `Narrowed` for
what their element callbacks do; `elem` is the message a `MessageSeq` handed out
as visitor. `PayloadAcc` is a component of its own above; here its `Take` is the
outcome it has for the pieces of one payload in order, written into the same
memory, since `BlobSeq` keeps the buffer it returns. Its fresh buffer opens with `AccChunk`
at most. A string refused when it is whole has left the accumulator and ends its field; every
other refusal leaves the collector where it was, and the index `PlaceRow` judges again at
`ArrayEnd` is the one `ArrayBegin` has accepted, so that refusal does not happen.

The environment is the decoder and the code generator. Callbacks come in the order
`VisitorProtocol` allows: a header, then every piece of the payload or every element,
then the end; fields of another kind at an element's id go to `VisitorBase`; the
string check is set before the first string of the scope. The arrays marked
`byHand` are also driven without a header, and `PlaceRow` is called with a row of
the caller's, as the comments on `String` and `rowGate.ended` allow. A decode may
stop after any callback; `OpenArray` is the generated arm that truncates the field
and starts the next. `SetMember` is a generated arm of a message element. These
two are external: they are not in the repository.

A row abandoned half way is simply there in `mem` when the next decode starts,
which is what makes `StorageOwned` worth checking. `View` reads the destination as
its owner would, nil and empty slices told apart, and `CollectsWhatArrived` says that
with this mapping every step is one of `WrapperArray` or a stutter.

## Runs

The widths are scaled down and nothing else: in the decoder runs a group has 16
values, a varint 3 bytes, a word 9 bits, `IDMax` is 2, `ArrayMax` 3, `MaxDepth`
2, floats have 1 and 2 bytes. With these, one byte still holds a whole header,
an id and a length can exceed their ceilings, and a varint can be too wide.

| run | question | size |
|---|---|---|
| `varint` | The writer and the unrolled reader agree on every word and every byte window of an instance small enough to enumerate (`WordsSurvive`, `TolerantAndMinimal`), and zigzag is a bijection (`ZigzagInverse`). | 94 thousand states |
| `decoder_chunks` | For seventeen messages and every one-byte corruption of them by seven bytes, every way of cutting it, all three entry points and a visitor that declines or fails some calls: the verdict and the callbacks are those of `WireFormat` (`MatchesWireFormat`). | 0.9 million |
| `decoder_reset` | The same, and `KeepsVisitorProtocol`, with a `Reset` at any point between two calls. | 41 thousand |
| `decoder_protocol` | Nested messages, well and ill formed, one nested past `MaxDepth`, and visitors that answer anything at every callback: `TypeOK`, `ScopesCoherent`, `VisitorsNested`, `FieldAccounted`, `PolicyBeforeStrings`, `InvalidIsTerminal`, the refinement `KeepsVisitorProtocol`, and `FeedReturns`. | 41 thousand |
| `encoder_sink` | Writer and sink forms, buffers of the minimum and one byte more, up to three calls of every writer, a sink or caller that swaps buffers: `OutputIsMessage`, `FullOnlyWithoutSink`, `HeaderRoomKept`, `TakenUntouched`, `TypeOK`, and that every call returns, `WritesReturn`. The depth option is given twice, the second tighter than the format's. | 0.6 million |
| `encoder_buffer` | The sink-less form in buffers of 2, 6 and 9 bytes: `FullOnlyWhenFull`, `OutputIsMessage`, `HeaderRoomKept`, `TakenUntouched`, `WritesReturn`, and that the wire grammar reads from the output the calls that wrote it (`ReadsAsWritten`). The depth option is one the format does not allow, the string check is off. | 0.4 million |
| `encoder_lazy` | Sequences to depth 3, six calls in any order: `OutputIsMessage` with the framing rule stated from the calls alone, and `OutputDecodes`. | 0.2 million |
| `payload_acc` | Any sequence of pieces of 0 to 2 bytes, with any announced total up to 3 and any offset, negative ones included, up to three calls after one at offset 0 and three buffers: `AssemblesPayloads`, `HandedUntouched`, `AllocatesWhatArrived`, `TypeOK`. | 0.4 million |
| `collectors` | Fourteen arrays, two decodes into the same destination, fields in any order with ids 0 to 2, every cut of every payload, a `NestedSeq` over four of the kinds: `CollectsWhatArrived`, `StorageOwned`, `FieldInStep`, `HeadersAllocateNothing`, `TypeOK`. | 0.3 million |
| `decoder_reset_visitors`, `decoder_invalid_reason`, `encoder_first_error` | The three findings below, each violated. | |

Bounds: `Streams` (the messages), `MaxResets`, `MaxOps`, `MaxSwaps`, `MaxBufs`,
`MaxSince`, `Arrays`, `MaxDecodes`, `MaxFields`. The
streams of `decoder_chunks` are listed in `MCDecoder`: between them they use
every wire type, every subtype, both float widths split and whole, declined and
nested sequences, non-minimal and three-byte varints, and the breach of every
ceiling; replacing any one byte of them reaches most of the malformed strings
that differ from a message in one place. A field never depends on a finished one other than through the parse stack and
the string-policy flag, so one field after another, at two depths, reaches
what longer messages would. Three encoder calls are enough to fill the
largest window more than once and to write across two drains. Three pieces
make a payload with a first, a middle and a last one, and three buffers let a
payload handed out meet two later ones. In `collectors` the bound of an array is
two elements, so that id 0 and 1 give a gap, an element in order and one reopened,
and 2 is refused; two fields in each of two decodes put something into every slot
before the second decode finds it there, and three of them in nested arrays are a
row, an element and the row again, or a second row. `ReserveRowsMax` is 2: an array with
`count` 2 is reserved at once, one without grows. `AccChunk` is 1, less than the payloads in pieces. A matrix whose range is narrower than
the elements offered refuses some of them in the middle of a row.

Fairness: `Decoder` assumes `WF(RunStep)`. `run` is a loop in the caller's
goroutine and does not stop by itself; nothing is assumed of the caller, of a
reader or of a visitor. `FairSpec` of `Encoder` assumes `WF(WriteStep)`: a write is
a loop in the caller's goroutine, too, that ends only by finishing its units or on
an error. It includes the drains, so it assumes of a sink or a writer that it returns,
with whatever result; a caller between two calls is under no fairness. `Collectors`
and `PayloadAcc` are called back and never wait, so they have no liveness.

`MCCollectors` switches the deadlock check off: a collector that has refused its field
in the last decode is in a state the caller does not go on from. The other runs keep it.

## Findings

* `encoder_first_error`: `Bytes` calls `spill` whether or not an error is
  held, and `spill` assigns `ErrBufferFull`. `Err` is documented to return the
  first error.
* `decoder_reset_visitors`: `Reset` in the middle of a nested message leaves
  the old message's visitors in the stack above slot 0. They are not called
  again (`ScopesCoherent`, `KeepsVisitorProtocol` hold across resets), only
  kept alive; the comment says every trace is discarded.
* `decoder_invalid_reason`: `FeedFrom` on a latched decoder whose reader is at
  its end returns `(Invalid, nil)`; the comment on `Feed` says the error is
  non-nil exactly when the outcome is Invalid, and `FeedFrom` that it applies no
  rule of its own.

Three more, seen in reading and without a run: `collectors.go:43-44` says a slot keeps
the largest storage it ever needed until the field is set to nil, while a gap or an
empty blob at the slot, or growth of the outer slice, leaves it with none;
`visitor.go:105-109` says a receiver
cap acts at the count word of a float array, `istream.go:834-837` that it does
not; `doc.go:127-137` speaks of `ErrIncomplete` on all entry points, of which
only `AcceptBytes` returns it.

## Proofs

`DecoderProofs` proves, for every message, every chunking, every visitor and all
values of the constants that satisfy `VarintAssumption`, `DecoderAssumption`
and `StreamsAssumption`:

* `TypeCorrect`: `TypeOK`, which says among the types that the decoder never
  reads past what it was fed and never nests past `MaxDepth`;
* `FieldsAccounted`, `ScopesStayCoherent`, `VisitorsStayNested`: the three
  invariants of the same names;
* `LatchIsTerminal`: `InvalidIsTerminal`.

The argument. `TypeOK` is not inductive: that a split float takes no more from
the chunk than the chunk has needs `Len(fp) < width`, and that a declined run of
floats divides by something needs `width > 0`. Both are conjuncts of
`FieldAccounted`, so `IInv == TypeOK /\ FieldAccounted` is carried through
together; the proof goes through the four parts of the type invariant one by
one, then `FieldAccounted`. What the readers return is isolated in
`ReadsInChunk` and `TakeVarintTypes`: a varint ends inside the chunk it is
completed in, whichever reader read it. The stack invariants rest on
`ScopeMoves`, which reduces all steps to the six ways the stack can
move; `ScopesCoherent` is inductive over them under the types, and
`VisitorsNested` under both. The latch needs only that every handler starts
from `err = "nil"`.

`PayloadAccProofs` proves, under `PayloadAssumption` and for a caller that passes
any pieces:

* `AccumulatorTypeCorrect` (`TypeOK`) and `HandedStaysUntouched` (`HandedUntouched`);
* `PayloadsAreAssembled`: `AssemblesPayloads`;
* `AnnouncedIsNotAllocated`: the action property `AllocatesWhatArrived`.

The first two invariants are inductive together. What `append` does is two lemmas,
`AppendedSparesOthers`: the buffer it returns is the one it was given or a new one, has
room for everything, and no other buffer changes; and `AppendedContents`: it holds the
bytes that were there and the chunk behind them. `FillKeepsInvariant` and `FillGathers`
then cover the two ways `Take` stores a piece. `AssemblesPayloads` says of the last
result what the history implies; that is inductive only with `HoldsPayload`, which says
the same of the bytes still held: while a payload is outstanding, `len` bytes of the buffer are
what arrived since offset 0, and the total is the one announced then. The history is
read by the recursive function `Arrived`, which `Joins` and `OneMoreArrived` unfold. The
run `payload_acc` was checked with `HoldsPayload`. `AllocatesWhatArrived` follows from
`AppendedAllocates` and both invariants. The bounds `MaxBufs` and `MaxSince` are not
assumed to be anything.

`VarintProofs` proves, under `VarintAssumption` and `TopWeightAssumption`, and so at the
code's 7 bits, 10 bytes and 64 too:

* `WordsAlwaysSurvive` (`WordsSurvive`): what `putUvarint` writes, `uvarintFast` reads;
* `AlwaysTolerantAndMinimal` (`TolerantAndMinimal`);
* `ZigzagAlwaysInverse` (`ZigzagInverse`).

`GroupsOfWord` is the heart of it: k groups of a word, and what is left of it when they
are shifted out, make the word. It rests on `ShrNext` (two shifts are one) and on the weights
(`WeightNext`, `WeightGrows`). `LastByte` is the boundary case: what is left at the last
byte is a group, or a single bit in the byte that has no room for more. `GroupSumBound`
keeps what a window spells within a word, and `OneStop` and `NoStop` say where the reader
stops.

`EncoderProofs` proves, under `MemoryAssumption` alone (the encoder's own memory is no
caller's buffer) and so for every sequence of calls, buffer size and sink,
`TakenStaysUntouched` (`TakenUntouched`). The invariant is `OwnsTarget`: the buffer that
holds the caller's bytes is in nobody else's hands, and while the encoder stages the
window is the scratch. It is needed because the two differ then: `Spill` writes the one
while the writers write the other. `SinkInstallsElsewhere`, `DrainKeepsOwner`,
`SpillKeepsOwner`, `StageKeepsOwner` and `SetBufferKeepsOwner` are the five ways either of
them can change.

Under the assumptions of `Varint` and `Encoder` it goes on to prove, for every
sequence of calls, every set of buffers, every sink and any options:

* `EncoderTypeCorrect`: `TypeOK`;
* `SinkNeverFull`: `FullOnlyWithoutSink`, that a streaming encoder in the smallest legal
  buffer never fails for want of room;
* `FullMeansFull`: `FullOnlyWhenFull`, its counterpart for the sink-less form;
* `HeaderRoomStaysKept`: `HeaderRoomKept`.

None of them is inductive. That a drained window has room for the next unit says something
about every unit a writer may still have to write, so the first half of the proof goes
through the writers: `Reserved` says of a unit that it writes no more than it
reserved and reserves no more than `MinOutputBuffer`, and `ScalarReserved`,
`FloatReserved`, `FixlenReserved`, `IntArrayReserved`, `FloatArrayReserved` and
`CommitUnits` prove it of what each of them puts into `todo`. The lengths come from
`VarintBytes`; the reservations narrower than two varints need what
`ReservationAssumption` says of the constants (the word of a float is one byte and a
count under the ceiling fits five), which is so in the code. `CallsAssumption` is
the Go types of the arguments. The second half is
`EncoderInv`, in five parts: `OwnsTarget`; `CallInv`, with the units and that an
end marker comes last while its sequence is open; `WindowInv`, the cursors and the
room behind `start` when there is a sink; `ErrorInv`, that a full buffer is only
reported by the staged tail of a sink-less encoder that does not fit; and
`FrameInv`, that the header room is what comes before `start`, or before
the saved start while staging, when `start` itself is zero. `DrainMakesRoom`,
`SpillKeepsRoom`, `StageKeepsRoom`, `PutKeepsRoom` and `InstalledWindow` are the
moves of the window; the runs `encoder_*` were also checked with `EncoderInv` as an
invariant.

`EncoderOutputProofs` proves, under the same assumptions, `OutputAlwaysMessage`:
`OutputIsMessage`, the property the encoder is for. Whatever the buffers, wherever the
drains fall and whatever a sink does, what went downstream, what is held and what the call
in progress has yet to write are the message its calls spell, and after an error a
beginning of it. The inductive invariant is `OutputInv` beside `EncoderInv`:

* `FramingInv`: which calls reach the wire is a property of the whole list of calls, since
  a sequence begun is written only when content follows while it is open. `pending` has to
  be what is missing: its ids are those of the begins held back, one at each of
  the innermost nesting levels, outermost first (`Linked`), and the message with all
  begins counted that are still held back (`Marked`) is the message followed by their headers (`Heads`).
* `DepthInv`: `depth` is what the calls leave open, and one more while an end
  marker waits to be written.
* An error leaves nothing to write: what was written before it is the beginning.

`EncoderProofs` also proves how the message grows with one more call (`SpelledMore`):
content adds the headers held back and its own bytes (`FramingContent`), a begin adds nothing
(`FramingBegin`), a plain end adds the marker if its sequence was framed
(`FramingEndFramed`) and takes the last pending id with it if not (`FramingEndHeld`). `Grown` and its
companions say that what an earlier call contributed does not change; `OneOpener` and `SomeOpener`
that each end closes exactly one begin. The bytes follow: `ScalarImage`,
`FloatImage`, `FixlenImage`, `IntArrayImage` and `FloatArrayImage` say that the units a writer queues
join to the image of its call, whichever units are reserved together; `DrainOutput`,
`SpillOutput`, `StageOutput` and `PutOutput` that moving bytes between the call, the
window, the staged tail and downstream neither loses nor repeats one. Runs
`encoder_sink`, `encoder_buffer` and `encoder_lazy` were checked with `DepthInv` and
`FramingInv` first.

`DecoderProofs` proves besides, under the same assumptions:

* `DecoderKeepsProtocol`: `KeepsVisitorProtocol`, the refinement. With the mapping of
  `DecoderRefinement` the initial states are those of `VisitorProtocol` and every step is
  one of its steps or a stutter, resets included.
* `PolicyComesFirst`: `PolicyBeforeStrings`.

The refinement needs, besides the invariants above, that a count is read under
the wire type and the kind its header had (`CountKinds`), since the kind announced is
set one state earlier than it is announced. Most steps call nobody: `KeptIsStutter` is
their whole proof. The others have one lemma for each kind of callback (`ScalarSpeaks`,
`PieceSpeaks`, `PayloadBegins`, `ArrayBegins`, `ElementSpoken`, `ArrayEnds`, `SequenceOpens`,
...) over `DeliverSays`: what `Deliver` adds to the log when the visitor is nil,
accepts, or fails at any of the callbacks of a step. `PolicyInv` is the induction
for the policy: a visitor was asked at most once, before its strings, and `spDone` of
each open scope says truly whether its visitor was. It needs `CallsIssued`, that no call
has gone to a visitor yet to come, so that a scope that opens starts without a policy,
and `VisitorsNested`, so that the flag of one scope speaks of no other. The
runs `decoder_protocol`, `decoder_reset` and `decoder_chunks` were checked with both.

`CollectorsProofs` proves, under `SlicesAssumption` and `ArraysAssumption` (the Go types of
an array's description, and that the declared width admits its range), for every array,
memory, table of capacities, sequence of fields and number of decodes:

* `TypesHold`: `TypeOK`;
* `FieldsStayInStep`: `FieldInStep`;
* `StorageStaysOwned`: `StorageOwned`;
* `HeadersStayFree`: the action property `HeadersAllocateNothing`;
* `CollectorsKeepPromise`: `CollectsWhatArrived`, the refinement of `WrapperArray`. The initial
  states map to its initial state, every callback to one of its steps or a stutter.

`HeadersAllocateNothing` is about the headers of strings, blobs and rows of numbers, whose count
or length is announced, and about every header that is refused. The header of a
message or of a row of an array that is accepted does grow its slice, to the id,
which the index bound has capped; and the first piece of a payload opens the accumulator's
buffer, which `AllocatesWhatArrived` bounds in `PayloadAcc`.

The inductive invariant is `Inv`. `StorageOwned` speaks of pointers, and a pointer goes stale
when the slice it points into grows; so `Inv` names a header of the destination by its path,
the field, row `i` of it or slot `j` of that row, and `Tree` says that no two
paths have one buffer, none the field's own, slots past the length included. `PathInv` says
which path `out` and `elem` point to at each depth, `AccInv` that the bytes being put together are in a
buffer no path has, and `CurInv` that the row being built shares at most with its own stale slot, which
is past the length. That is what makes `grow` safe: it overwrites the stale
slot before the row comes back to it. The storage helpers come first,
in `SlicesProofs`: `Lengthened` is what `ReserveRows` and `Filled` do to the slice they grow
(`ReservedAndFilled`), `Grew` what is left of the tree then (`FieldGrew`, `RowGrew`), `SharedGone` that
nobody has the stale slot's buffer afterwards, `LeafPlaced` and `RowSaved` that the slot
may then be given it back. One lemma for each callback follows (`ArrayBeginKeeps`, `ArrayElementKeeps`,
`CollectKeeps`, `NestedBeginSequenceKeeps`, ...). The run `collectors` was checked
with `Inv` first.

The refinement needs one invariant more, `Truth` (`TruthHolds`), also checked with that run: the
accumulator and the row being built hold what has come of the field, narrowed and within
its width; a field whose header was delivered is within its bounds; and the string check a
collector holds is the decode's, or the stricter zero value where nobody told it. `ViewOf` is
`View` as a function of the memory, so that `SlicesProofs` can say what a change leaves
of it: `ViewSpared` when the buffer written is idle (nobody's, or the stale slot's past the
length), `BarePut` and `LeafPut` when an element is placed, each an `Ext` (the gaps) and a `Put`
(the element) of the abstract value, `RowOpenRead` when a row is opened. `TakeGathers` says that
the pieces of a payload are put together to the payload. With these, every callback has a
lemma that names the abstract step it is (`CollectPromised`: `RefuseLate`, `BadString`, `Advance`
or `Complete`; `ArrayElementPromised`: `BadElement` or `Advance`; ...). The theorem is about
every value of `Strings`, every bound, cap and width, any ids and any number of rows and decodes.

`SeqLemmas` holds what these proofs share. The log and the units of a call hold records of
several shapes, so `Listed` speaks of a sequence without a set for its
entries. `LeastNatural` (a set of naturals that is not empty has a least
element) stands in for the library's induction theorems, whose operator parameter the
provers cannot instantiate. What a recursive function computes (`Weight`, `GroupSum`,
`Arrived`) is proved with it: the function is built value by value, for the least domain
that had none, and two functions with the same equations are compared at the least
argument where they differ.

Only model-checked:

* `MatchesWireFormat`, `ReadsAsWritten` and `OutputDecodes` compare a whole message with
  `WireFormat`, a grammar of mutually recursive operators. tlapm has no SMT backend in
  a module that reaches one.
* `FeedReturns` and `WritesReturn` are liveness under fairness, which needs ENABLED.

## Not modelled

`floats.go`: `BitsEqual` compares two slices bit by bit, with no state and nothing to
interact with. The UTF-8 validator itself (the standard library's). The build tag
that compiles the check out: it is the constant `StrictUTF8Compiled`, which no run sets
to FALSE, because what remains is the waived check that `encoder_buffer` and
`collectors` already run. `VisitorBase`, which does nothing (a field it gets is a step
that leaves the collector alone). The benchmarks and the documentation. 32-bit `int`,
where `overCeiling` is constant. A tail of a backing array that two destinations share,
which the comment on `stale` puts outside its contract. The allocations of the codecs
themselves.

## Plan

1. *Done*: `Varint`, `Decoder` with its grammar and protocol, `Encoder`,
   `PayloadAcc`, and the first proofs.
2. *Done*: `Limits`, `Slices`, `Collectors` and its abstract specification; the options
   and the liveness of the encoder; encoder and grammar composed (`ReadsAsWritten`).
3. *Done*: the encoder's type invariant with `FullOnlyWithoutSink`, `FullOnlyWhenFull` and
   `HeaderRoomKept`; the refinement of `VisitorProtocol` and `PolicyBeforeStrings`; the
   accumulator's `AssemblesPayloads` and `AllocatesWhatArrived`; the integer codings.
4. *Done*: the encoder's `OutputIsMessage`.
5. *Done*: the storage helpers and the collectors' four invariants and action property.
6. *Done*: the refinement of `WrapperArray`, step by step.
