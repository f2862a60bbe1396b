# A TLA+ verification of barrique

barrique is a Rust serialization crate. A program encodes values into a
*stream*: a sequence of *regions*, each at most 64 KiB - 1 bytes of raw data,
compressed with LZ4 in streaming mode (every region may refer back to the one
before it) and framed with a 12 byte header. A decoder reads the regions back
one at a time. What makes this hard is not the format but the state around it:
two buffers that are swapped, a C compression context that keeps pointers into
them, a cursor, destinations and sources that fail half way, and buffers handed
from one stream to the next.

This directory holds the TLA+ modules that model that state, the
configurations that TLC checks them with, and proofs that TLAPS checks.

## 1. Inventory

| part | source | state | operations | what makes it correct |
|---|---|---|---|---|
| region format | `src/region.rs`, `src/lz4/mod.rs`, `SPEC` | none | header, `compress_bound`, `max_encoded_size` | header says what follows it; the size bound bounds |
| `DoubleBuffer`, `RegionBuffer` | `src/region.rs` | two `Vec`s, which one is current, `cursor` | `swap`, `pass`, `read`, `write`, `remaining_*` | neither overflows nor underflows; the memory LZ4 refers to is left alone |
| `StreamEncoder` + `Push` | `src/encode.rs`, `src/region.rs` | buffer, LZ4 context, seed, destination | `write`, `flush`, `into_raw`, `from_raw`, `build` | every byte accepted is emitted once, in order, whole writes to a region |
| `StreamDecoder` + `Pull` | `src/decode.rs`, `src/region.rs` | buffer, LZ4 context, seed, source | `build`, `read`, `into_raw`, `from_raw` | serves verified bytes, once, in order |
| `Writer` implementations | `src/encode.rs`, `src/cursor.rs` | memory and a cursor; `CursorWriter`: buffer, `error` | `write_mut`, `assume_init`, `flush`, drop | what was flushed has arrived |
| `Reader` implementations | `src/decode.rs`, `src/cursor.rs` | a slice; `CursorReader`: buffer, `start`, `end` | `read_borrow`, `advance` | exactly the next n bytes, or an error |
| `Frame`, `Label`, metadata | `src/frame.rs` | header fields, seed | `encode`, `decode`, `get_value` | opens what it wrote; refuses the wrong seed |
| `Encode`/`Decode` implementations | `src/impl/` | none | `encode`, `decode` | reads along the pieces in which it wrote |
| decoding guards | `src/impl/alloc.rs`, `mod.rs`, `tuple.rs`, derive | pointer, count | `add`, drop | what was decoded before a failure is dropped once |
| derive macros | `derive/src/` | none | code generation | generated pairs agree |

Interaction: an `Encode` implementation calls `write` on the encoder; a write
that does not fit makes `Push::pass` compress the current buffer, frame it, hand
it to the `Writer` and flush that; then the buffers are swapped. A `Decode`
implementation calls `read` on the decoder; a read that the current region
cannot serve swaps the buffers and makes `Pull::pass` borrow the next region
from the `Reader`, decompress it, compare its hash and advance the reader. All
calls are synchronous, on one thread: the interleavings that matter are those of
calls, of failures, and of the two sides of a buffer, not of threads.

The hard behaviours, each listed with its line in `PROJECT.json`:

* memory that LZ4 still refers to is written to (flush without swap, error paths);
* a call fails in the middle and is retried (writer, reader, hash, device);
* a buffer carries contents from one stream into another;
* unsigned arithmetic at the edges: `REGION_SIZE - len`, `len - cursor`, `as u16`
  on the side that writes a header, and the length so cut off on the side that
  reads it;
* short reads of `io::Read`, and a file that ends inside a request;
* a flush that fails half way, is retried, or happens in a destructor;
* a frame whose encoding stopped at any write, opened with any seed;
* reads that must never cross the end of a write, type by type, since the
  decoder cannot join two regions for one read.

## 2. Modules

| module | models | state and its counterpart |
|---|---|---|
| `Region` | region format, slots, LZ4 dictionary | operators only |
| `StreamEncoder` | `StreamEncoder`, `RegionBuffer`, `Push` | `vec`, `curr`: the two `Vec`s and which is current; `lz4`: memory the context refers to; `out`: regions given to the `Writer`; `phase`: what the last call told the caller |
| `StreamDecoder` | `StreamDecoder`, `RegionBuffer`, `Pull` | the same, with `cursor`, and `src`, `pos` for the `Reader`, `got` for the bytes served |
| `ByteFifo` | what the two promise together (abstract) | bytes stored, bytes taken |
| `RegionPipe` | encoder and decoder composed, the destination of one being the source of the other; it extends `StreamEncoder` | both states; the decoder's begin with `d` where the names collide |
| `Codec` | the `Encode` and `Decode` of every kind of type and of derived types | operators only: `Encode` (schema, value) is the sequence of writes; `Decode` (schema, bytes so far) is the length of the next read, the value, or the pattern refused |
| `Archive` | `Frame`: metadata, value and stream; it extends `RegionPipe`, and takes what encoding and decoding a value does as constant operators | `header`: how much of the metadata was given to the `Writer`; `result`, `outcome`: what `encode`, and `decode` with `get_value`, came to |
| `FixedMemory` | `write_mut` of `&mut [u8]`, `&mut [MaybeUninit<u8>]` and `Cursor` | operators, and two theorems |
| `CursorReader` | `CursorReader` over `io::Read` | `buffer`, `start`, `end`; `fpos` of the file |
| `CursorWriter` | `CursorWriter` over `io::Write`, owned or by `&mut` | `buffer`, `error`; `dst`, `device` |
| `CursorFile` | the two cursors on one file: `dst` of the writer is the file of the reader | both states |
| `DecodeGuards` | the drop guards of in-place decoding: heap pointers, slices, `Vec`, arrays, tuples, derived structs and enums | `stack`: the running calls of `decode`; `count`: what their guards count; `slot`, `heap`: places and allocations |
| `MCStreamEncoder`, `MCStreamDecoder`, `MCArchive`, `MCDecodeGuards` | TLC instances; sources, raw buffers, values with their schemas and values to decode; `MCArchive` gives `Archive` the operators of `Codec`, and assumes that they agree on every sample | |
| `StreamEncoderProofs`, `StreamDecoderProofs`, `RegionPipeProofs`, `ArchiveProofs`, `CursorFileProofs`, `DecodeGuardsProofs` | theorems about the module in the name | |
| `RegionProofs` | lemmas about sums and divisions, and the sizes of regions | |

Correspondence. A byte is its position in what the caller writes, so that any
loss, repetition or reordering is visible; `Junk` is a byte that belongs to no
stream. The two `Vec`s are heap allocations with fixed places, so they are slots
1 and 2 and `mem::swap` changes only `curr`. An action is one call of the public
interface with everything it does, the failing outcomes included: `WriteSwitches`
is `write` with the pass, the swap and the final `extend`, or the pass alone if
it fails, exactly where the `?` leaves the function. What a `Writer` may answer
(room, no room, a slice of another length, a failed flush) is chosen by the
environment at each call, and so is the length to which LZ4 compresses a block,
within `compress_bound`. `out` is what was given to the `Writer`, in memory it
handed out; whether its `flush` then succeeded is in the answer. `flush` of an
encoder with an empty buffer returns `Ok` at once (`region.rs:367`), so that a
flush repeated after `flush_error` is `Ok` without the `Writer` being flushed
again: `FlushedMeansEmitted`, `FlushedBytesOut` and `OkMeansComplete` say that
everything was given to the `Writer`, not that the `Writer` delivered it.

LZ4 is modelled by its contract. The context remembers the slot and the contents
of the last block; `intact` turns false when that slot is written. Compressing
against a dictionary that is not intact is not an error in the model, as it is
none in the code; it is recorded with the region, and `WindowIntact` says it does
not happen. A decoder that finds other memory than the encoder had may get the
right bytes (the block did not refer back), wrong ones, or a malformed block.

A region in `out` has two lengths: `size`, of its block, and the
`compressed_size` of its header, which is `size % U16` (`region.rs:391`). The
decoder goes by the header: it borrows, decompresses and advances over
`compressed_size` bytes (`region.rs:284`, `:324`). Where the two differ
(`CutOff`) LZ4 is given a piece of the block. It refuses the piece, or, if it
happens to end where a run of literals does, takes it for a whole block of fewer
bytes (`Undone`). With a seed the hash then refuses it. Without one there is
nothing to refuse it: the shorter region is accepted, a beginning of the right
one, and the source is advanced into the middle of the block (`Astray`). The next
pull takes bytes of the block for a header; that step, `ReadAstray`, ends the
model.

The caller is a parameter: `Caller` names the liberties it takes that the types
allow and the documentation does not always forbid (writing again after a flush,
going on after an error, giving a buffer away unflushed). `Caller = {}` is the
disciplined caller, which does nothing after a flush or an error but give the
buffer away; `"flush_failed"` adds a flush after a failed write, which is what
`Frame::encode` does. `Builds` says whether arithmetic overflow panics (debug) or
wraps (release); with both, either may happen. `erred` in the decoder says that a
call has failed since the source was opened: what is promised to a caller that
stops there is stated up to that point, and checked in the same run as what holds
beyond it.

`RegionPipe` leaves both programs free: the encoding one may stop anywhere, its
`Writer` may refuse or fail, the decoding one has a seed of its own and may read
past the end. The one rule is `WithinWrite`: a read does not cross the end of a
write. That the code keeps it is a property of `Archive` (`ImplementsPipe`), where
the writes and reads are not chosen but follow from the value: `WritesOf` lists
the writes, `EncodeNext` makes the next of them, and `DecodeNext` makes the read
that `DecodedFrom` asks for, given the bytes that it was served. The two are
constants of `Archive`, so that it can be proved about without the recursion over
schemas; `MCArchive` gives them `Encode` and `Decode` of `Codec`. In `Codec` a type is a
*schema* (number, char, struct with skipped fields, enum, collection), and
references, `Box`, `Arc` and `Rc` have that of what they point to: they are the
same bytes on the wire. (`Codec` is about bytes only; that decoding one of these
pointers hands out freed memory is `DecodeGuards`' subject, and the run
`GuardsPointer`.) A byte is a digit to the base `Base` and UTF-8 is scaled down
with it, one bit of a character to a byte, but with the same four lengths and the
same distinction of leading and following bytes. `Expected` is what a program may expect back: the default in
each skipped field, and collected what was iterated over.

The decoding program opens what the other left. A `Writer` that was not flushed
may have passed on any part of the header, but a region only after all of it
(`OpenFrame`). The header is counted in bytes, since the nine that are borrowed
for a descriptor of one reach into the label and the stream.

A value to decode is a tree of parts (`DecodeGuards`). Each `decode` is a call on
`stack`; a part fails, and the failure leaves the calls one at a time, each time
dropping that call's guard (`GuardDrops`). Errors and panics take the same way.
`Returns` is the end of a `decode`: the guard is forgotten, and in the one case of
a heap pointer, dropped. Dropping is recorded, not prevented: `misused` collects
the nodes that were dropped without a value or in freed memory. A `Box` of a type
without size has no allocation to lose and is not modelled.

## 3. Runs

| run | module | bounds | shows |
|---|---|---|---|
| `EncoderDisciplined` | `MCStreamEncoder` | `REGION_SIZE` 3, writes of 0, 1, 2 and 4 bytes, 7 bytes, blocks of 1, 3 and 4 bytes (the last is more than a header counts, and LZ4's bound for a full region only), 2 streams, all Writer answers, with and without seed, both builds | order, whole writes, bounded buffers, the LZ4 window, what `Ok` of a flush means and `max_encoded_size`, for a disciplined caller |
| `EncoderAnyCaller` | `MCStreamEncoder` | writes of 1 to 3, 5 bytes, 2 streams, all liberties, every raw buffer a decoder leaves (0, 1, 3 bytes in either slot), both builds | no caller makes the encoder lose, repeat, reorder or split what it writes |
| `Decoder` | `MCStreamDecoder` | sources of 0, 3 and 4 regions, undamaged, damaged in the second, or with the length of the first or second cut off in its header; seeds equal, different, none; failing reader; dirty buffers; 2 sources, 5 bytes served from each; a caller that reads on after every error, both builds | order, verification and the LZ4 window until a read fails or goes astray; one read never mixes two regions |
| `Pipe` | `RegionPipe` | `REGION_SIZE` 3, 7 bytes, writes and reads of 0 to 3; blocks of 1 and 5 bytes (5 is cut off to 1); all Writer answers, encoding stopped anywhere, both seeds on both sides | refinement of `ByteFifo`; what was flushed is read back with the same seed, all of it and without an error, unless a header cuts a length off |
| `Archive` | `MCArchive` | `REGION_SIZE` 4; 28 values of 17 schemas; labels of 0 and 9 bytes, with and without timestamp; seeds none, 7 and 8 on both sides; blocks of 1 and 6 bytes (6 is cut off to 1); all Writer answers; `Base` 10, a `u32` of 2 digits | a value that comes back is the right one; `Ok` means complete; frames open, or refuse the seed; the reads are those the pipe allows; the value comes back, unless a header cuts a length off; `Encode` and `Decode` agree on each value (`CodecAgreement`) |
| `Cursors` | `CursorFile` | 8 bytes in pieces of 0, 1, 4, owned and by reference, device bad at any time; threshold 3, requests 1, 3, 5, file and pipe, I/O errors, allocator slack 0 and 1 | prefix and flush, for a caller that stops at a failed flush; placement, no byte dropped, exactness; the file reads back |
| `Guards` | `MCDecodeGuards` | all 1114 values of three levels with at most two parts each, of every kind, every part failing or not | dropped once, no leak, initialised on success |

The bounds are chosen so that what matters happens: three bytes per region let a
write fit exactly, leave a gap, or fill a region; seven bytes make at least
three regions, so that both slots have been dictionary and been reused; two
streams let contents cross. `U16` is `REGION_SIZE + 1`, as in the code, in every
configuration. Nothing in the code depends on the numbers beyond these orderings,
and the proofs below do not have them at all. Two parts and three levels are enough for the guards: a
part before the one that fails, and a guard under and above each kind of guard.
The values of `Archive` have characters of all four lengths, collections that are
empty, of one element and longer than a region, elements of no bytes, keys out of
order, nested tags, and skipped fields in structs and variants; regions of four
bytes make a write that fits, one that just does not, and one that needs a swap
between the two reads of a character. A label of 9 bytes is longer than the
look-ahead and one of 0 is shorter than it, so that opening runs into the label
in one case and into the stream in the other. `MaxBytes` of 64 in `Archive` is
above the length of every value and cuts nothing off.

Five further runs are expected to fail; each is a place where the code does not do
what a comment says, and TLC's trace is the scenario. They are listed under
"findings" in `PROJECT.json`:

| run | property violated | scenario |
|---|---|---|
| `EncoderFlushMidway` | `WindowIntact` | write, flush, write, and another pass, by a write or a flush: flush does not swap, so what was written after it lies in the dictionary |
| `EncoderIncompressible` | `HeaderFaithful` | a block that LZ4 cannot shrink grows beyond what a `u16` counts: `compressed as u16` is cut off (in the code only a region of nearly 64 KiB can) |
| `ReaderSpurious` | `OutOfBoundsMeansEnd` | `end` forgets the kept bytes; a request for bytes that are there is refused |
| `SkipFirst` | `NeverWrongValue` | `struct T(#[skip] u8, u8)`: encoding numbers the fields after leaving the skipped one out, and writes the first member for the second |
| `GuardsPointer` | `InitialisedWhenOk` | decode of a `Box`: the guard is dropped on success, and the `Box` is made of what it freed |

The models show more of this kind, to be seen by changing a constant in a passing
configuration: with `Caller = {"retry"}`, `WindowIntact` fails after a failed
`Writer::flush` (the `?` skips the swap); with `RawBuffers <- MCDecoderRaw`,
`BufferBounded` fails (`from_raw` does not empty a decoder's buffer); with
`FlushRetries = TRUE`, `PrefixWritten` and `OwnedFlushReaches` fail (a flush that
wrote a part is repeated from the start). Three more are consequences that a
reader of the code should know of:

* a failed pull has swapped the buffers already (`decode.rs:336`), so that a read
  after it is served once more from the region before;
* `into_raw` does not flush (`encode.rs:340`): the example in its documentation,
  which writes, takes the buffer and builds the next encoder of it, carries the
  bytes of the first file into the second. No property says that a stream holds
  its own bytes only, since for that documented use it would be false; what holds
  for it is that the second stream's bytes come whole and in order behind the
  leftovers (`StreamBytesKept`, `NoWriteSplit`);
* `CursorWriter` never resets `error`: after a flush that failed, a later flush
  that succeeds and further writes, dropping the writer writes nothing of what is
  in the buffer, although its documentation (`cursor.rs:88-89`) has the buffer
  flushed on drop. The run `Cursors` stops at a failed flush (`FlushRetries`), so
  that no property of it touches this.

`ReaderSpurious` has a consequence for whole files: a request that is refused once
is refused again, since nothing moves `end` any more, and the rest of the file is
lost to that reader.

What the properties leave out is as deliberate. `Verified` and `WindowKept` end at
the first error (the buffer is filled before the hash is compared, and pulled into
again on a retry), and `OneRegionPerRead` after an error asks for a buffer that
served no other source (a read after a failed pull may return the bytes of the
source before). `OwnedFlushReaches` says "owned" because `impl Writer for &mut T`
does not forward `flush`; `ExactWhileFilled` ends with the file because `grow` does
not look at how much it got; `ReadsNeverFail` excepts the stream of no bytes, which
has no region and cannot be opened; `NothingLeaks` excepts the elements of a failed
array or slice (the guard drops a slice of `MaybeUninit`, and nothing with it) and
the skipped fields of a failed struct; `DroppedOnce` and `OwnedWhenOk` except what a
decoded heap pointer owns. `OpensWhatItWrote` and `ValueComesBack` except a value
of no bytes (`next > 0`): encoding one passes no region, so that nothing flushes
the metadata, a short header may not open for want of nine bytes, and `get_value`
has no first region to pull. And `ReadsNeverFail`, `AllReadBack` and `ValueComesBack`
have `HeaderFaithful` as a premise: **a flushed stream, or a frame encoded with
`Ok`, with one incompressible region of about 64 KiB does not read back**. The
premise is about the regions that were emitted, and whether LZ4 makes such a block
is chosen freely, so each run has behaviours of both kinds; that a cut-off length
never yields a wrong byte or one out of order before the decoder goes astray is
checked in all of them (`IsFifo`, `NeverWrongValue`, `Verified`,
`InOrderUntilError`). `HeaderFaithful` is a property of no passing run: it is
violated by `EncoderIncompressible`, and proved under `Compressible`.

What was seen on the way and is in no property, since the code says nothing else:

* `Decode` of a `char` takes any continuation bytes and makes a `char` of them
  unchecked, overlong or out of range, while a `String` goes through `from_utf8`,
  which is strict (`FromUtf8`);
* the generated `decode` of an enum puts a `?` without a semicolon behind a
  `decode_with` call (`derive/src/decode/enum_.rs:103`);
* a collection of more elements than a `u32` counts is encoded with the count cut
  off, and decodes as the shorter one; `size_of` is only a hint for a capacity.

Deadlock is not checked: a caller may stop at any time, and the models stop at
their bounds.

### Fairness

`Pipe` and `Archive` have liveness properties. The decoding program is sequential
code: it opens the frame, calls `build` and then `read` until it has its value or
an error, and nothing can keep it from its next call. In `RegionPipe`
`BuildDecoder` and a read that gets on are weakly fair, in `Archive` the steps of
`FrameDecoding`. The encoding program is not assumed to do anything: `AllReadBack`
speaks of streams that were flushed, `ValueComesBack` of frames whose `encode`
returned `Ok`. Every other property is a safety property.

## 4. Proofs

The proofs hold for every value of the constants: any region size, any lengths of
writes and reads, any Writer, Reader and source, without the bounds of the runs.
The lengths of compressed blocks are any too; those that a header cannot count are
not excluded but followed (`CutOff`), and what is then no longer true has
`HeaderFaithful` or `Compressible` as a premise. Each theorem names what it needs of the caller; the
assumptions on constants (`RegionAssumption`, `EncoderAssumption`,
`PipeAssumption`, `CursorAssumption`, ...) give their types and, in `Archive`, the
caller that `Frame` is and the range of its writes, and TLC checks them in every
run. No theorem rests on liveness or on a bound, although the
specifications have them.

### The encoder: `StreamEncoderProofs`

| theorem | property | under |
|---|---|---|
| `Typing` | `TypeOK` | |
| `NeverOverfull` | `BufferBounded` | `CleanBuffers`: buffers come from encoders only |
| `NothingLost`, `WritesWhole`, `FlushEmits` | `InOrder`, `WholeWrites`, `FlushedMeansEmitted` | `CarefulReuse`: and are flushed before they are given away; retries and writes after a flush are allowed |
| `NothingLostAnyCaller`, `FlushEmitsAnyCaller`, `WritesWholeAnyCaller` | `StreamBytesKept`, `FlushedBytesOut`, `NoWriteSplit` | `JunkBuffers`: what buffers of decoders hold belongs to no encoder's stream; any caller, buffers that are too full, both builds |
| `ReservedSuffices` | `MaxEncodedSize` | `CarefulReuse` |
| `WindowSafe` | `WindowIntact` | `Disciplined`: and the caller writes nothing after a flush or an error; it may flush after an error |
| `HeadersFaithful` | `HeaderFaithful` | `CleanBuffers` and `Compressible`: no block is longer than a u16 counts |

None of the properties is inductive. `BufferBounded` says nothing of the slot
that is swapped in, which must be *empty*, not merely bounded: `Bounded` adds that
`prev` is empty, which holds because a pass empties a buffer before it is swapped
away. `Streaming` relates the regions, the current buffer and `next`, and adds
that `next` is at the end of a write. `Window` adds to `WindowIntact` what the
context refers to at this moment: the last region, in the slot that is not being
written.

With any caller the buffer may begin with leftovers, of another stream or of a
decoder, and `Streaming` fails. `Keeping` has what is left of it: up to some `m`,
the end of a write, this stream's bytes are in the regions (`Carry`), and from
there on they are the *end* of the current buffer, behind leftovers only; the
other slot holds nothing but leftovers. A pass moves `m` to `next`, a pass that
fails before it empties the buffer moves nothing, and giving the buffer away makes
leftovers of everything. `Sized` bounds what the regions take by what full ones
may: the regions are counted one at a time, so that it is inductive, and the
division in `max_encoded_size` comes in only at the end (`DivIs`).

The hypotheses are not idle: the failing runs above, and the settings
named there, drop them one by one, and each time TLC violates the conclusion.

### The decoder: `StreamDecoderProofs`

| theorem | property | under |
|---|---|---|
| `DecoderTyping` | `TypeOK` | `IsSource`: a source is what an encoder made, up to damage and lengths cut off |
| `WindowAlwaysReady`, `WindowAlwaysKept` | `WindowReady`, `WindowKept` | the same |
| `OrderedUntilError` | `InOrderUntilError` | the same |
| `VerifiedUntilError` | `Verified` | the same |
| `ReadsOneRegion` | `OneRegionPerRead` | and `JunkBuffers`: a buffer handed in holds nothing of this source |

No caller is excluded: it may read on after every error, and the buffer it hands
in may hold anything, but for `ReadsOneRegion`, where bytes that only look like
those of the source are excluded. `Settled` is the strengthening of `WindowReady`: before the
first region there is no dictionary, and a decoder that is not open has failed,
so that a read finds the window in place. `Tracked` says that the current slot
holds a region of the source or, where its length was cut off, a beginning of it
(`Begins`), or junk no longer than it, and that every byte served `Precedes` what
is left of that region and all of the later ones; order and verification follow,
also for damaged and cut-off blocks, which may become junk, or shorter, and are
served only if there is no hash to refuse them. `Pieces` is what is left of it
after errors: each of the two slots holds junk, or the beginning of a region that
the source has reached, so that whatever a read serves comes from one of them.

### Both: `RegionPipeProofs`

| theorem | property | under |
|---|---|---|
| `PipeIsFifo` | `IsFifo`: the pair implements `ByteFifo`, under the mapping in `RegionPipe` | |
| `FlushedReadsBack` | `ReadsNeverFail` | (the property asks for `HeaderFaithful` in the state it speaks of) |
| `CompressibleReadsBack` | (`ReadsNeverFail` without that premise) | `Compressible`: no block is longer than a header counts |

Every step of the pipe is a step of `ByteFifo` or a stutter. The argument goes
over the regions: `Source` has, of the encoder, that the regions are contiguous,
hashed with its seed, intact when they were compressed, and end where a write
ends, all of it from `StreamEncoderProofs`; `Decoding` ties the decoder to them:
what it was served is `1 .. Len(got)`, the rest of the current region continues
it, and the next region is compressed against the slot that the decoder still
has. A read along the pieces of a write is then inside the region or begins the
next one. `TakenFor` is what the decoder may have taken the last region for: the
region, or, where a header cuts the length off and there are no seeds, a beginning
of it. A read can end that region only by going astray, after which the pipe takes
no step of the decoder's any more: the refinement has nothing to say beyond that
point, and `FaithfulIsWhole` says that it is not reached with faithful headers.
With another seed the hash of the first region differs, so nothing is
served, which a FIFO store allows.

### Frames: `ArchiveProofs`

| theorem | property | under |
|---|---|---|
| `FrameTyping` | `FrameTypeOK` | |
| `OkIsComplete` | `OkMeansComplete` | |
| `FramesOpen` | `OpensWhatItWrote` | |
| `WrongSeed` | `WrongSeedRefused` | |
| `FrameIsPipe` | `ImplementsPipe`, the refinement | `CodecAgrees` |
| `ValueIsRight` | `NeverWrongValue` | `CodecAgrees` |
| `OkDecodes` | (`NoErrorAfterOk`, for frames whose headers are faithful) | `CodecAgrees` |
| `CompressibleDecodes` | (the same, for all frames encoded with `Ok`) | `CodecAgrees` and `Compressible` |

They hold for any set of samples and any writes of theirs that the regions have
room for, labels of any length and any answers of the Writer. `FrameEncodes` says
that the program that encodes a frame drives an encoder, so that the theorems
about encoders are theorems about it, `Source` of `RegionPipeProofs` among them.
`FrameInv` adds what ties the frame to the stream: `AtWrites` counts the ends of
writes (what was written is a number of *whole* writes of the sample, in order),
and `Stages` says in which state of the one program the other can be (a region only
behind the whole header, `Ok` only from a flush that succeeded). A frame encoded
with `Ok` opens because a region takes at least its header, which is longer than
the look-ahead; `WrongSeed` because the hash of the first region is compared
before the decoder is built.

The last four theorems say what the values need. `Agrees(s, stops)` is the contract
between `Encode` and `Decode` on one value: at every place in `stops`, given the
bytes so far, decoding either has the value, or asks for bytes up to another such
place, crossing the end of no write and not the end of the value. `CodecAgrees`
says that each sample has such places. The argument is then that the decoder never
leaves them: it is served the first bytes of what was written, in order
(`Decoding`), so `Progress` is what the contract speaks of, its next read is within
a write, which is what `RegionPipe` asks of reads, and a value that it returns is
the right one, wherever encoding stopped and whatever the Writer did. A frame whose
`encode` returned `Ok` is in its regions to the last byte, so that with its seed,
and with headers that count their blocks, no read fails (`OkReads`): `OkDecodes` is
the safety half of `ValueComesBack`, stated in `ArchiveProofs` alone, and
`CompressibleDecodes` replaces its premise on the headers of the frame by one on
LZ4 (from `HeadersFaithful`). The contract itself is about `Codec` alone, and TLC evaluates it, as `CodecAgreement`,
for each sample of the run `Archive`. It is not idle: without it (`SkipFirst`) a
wrong value comes back.

### The cursors: `CursorFileProofs`

| theorem | property | under |
|---|---|---|
| `CursorTyping` | `TypeOK` | |
| `PrefixWrittenAlways`, `OwnedFlushReachesAlways` | `PrefixWritten`, `OwnedFlushReaches` | `StopsAfterError`: the caller stops at a flush that failed |
| `ExactWhileFilledAlways`, `PlacedRightAlways`, `NothingDroppedAlways` | `ExactWhileFilled`, `PlacedRight`, `NothingDropped` | |
| `ReadBackAlways` | `ReadBack` | `StopsAfterError` |

`Writing`: until a flush fails, the device followed by the buffer has the bytes
that were written, in order, and `error` is not set; from then on `error` keeps
the device from being written to. `Reading`: behind `start` the buffer has the
bytes that were read, each at its place, and then zeros (`Ahead`), and no zeros as
long as `end` is the end of the buffer or the reads of a file were not short
(`Full`). The second half is why a grow keeps places: it happens only with `end`
at the end of the buffer, and so never puts a byte behind a zero.

### The decoding guards: `DecodeGuardsProofs`

| theorem | property |
|---|---|
| `GuardsTyping` | `TypeOK` |
| `OwnedWhenOkAlways` | `OwnedWhenOk` |
| `DroppedOnceAlways` | `DroppedOnce` |
| `NothingLeaksAlways` | `NothingLeaks` |

They hold of values of any shape, width and depth, with a failure at any part;
`IsTree` (`TreesAssumption`) says no more than that a value is a tree. That `below`
is transitive follows from the tree for finite values, by an induction over it, so
it is a conjunct of `IsTree` that TLC evaluates for each value of the runs.

The invariant, `Guarding`, is a statement about every running call. `Frame`: the
parts that its guard has counted are `Whole`, those behind the next one are
`Untouched`, and its own place holds nothing yet. `Path`: the calls lie inside one
another, each in the part with which the one before is busy (`Inside`). Of that
part itself nothing is said but at the innermost call: it is untouched while
decoding goes on, and has `Failed` while a failure leaves. A step changes nothing
except below that part (`Aside`), so that the frames of all other calls are kept
(`PathKept`), and a part that is whole is counted by one call (`PartDone`).
`CleanedUp` is the case of `Unwind`: what the guard drops was whole and lies apart
from what has failed, hence is dropped for the first time, and with the failed part
cleaned up the whole value is, but for what the guard forgets. `Allocations` has
the reason why nothing but the heap pointers go wrong: what is freed while the
value is decoded belonged to such a pointer, or to the part that failed.

### Writers over fixed memory: `FixedMemory`

`NoFrameInSlice`: whatever the length of the slice, one of the two writes of a
frame's header is refused or panics. `NoValueInCursor`: a `Cursor` that accepted
the first part of a header refuses every region. Both follow from `get_mut(n..)`
in `write_mut`, which hands out the memory *behind* the first n bytes.

### Sums: `RegionProofs`

`EncodedSize` and the places in a value are sums, defined by recursive functions.
The provers cannot use the library's induction rule, which takes a formula as
parameter; but `NatLessThanWellFounded` and `WFMin` take sets, and give every set
of numbers a least one, hence induction for a set (`InductionTo`). The lemmas
`SumIs`, `SumSteps` and `SumOfAppend` are what the proofs need of it. `DivIs` says
what division by a region size is, which is not linear.

### Only model-checked

`Codec`: its operators are recursive over schemas, and modules with `RECURSIVE`
operators are out of the provers' reach. That `Encode` and `Decode` agree is
therefore a hypothesis of four theorems about frames, and checked by TLC value by
value; everything else about values is proved from it. Liveness (`AllReadBack`,
`ValueComesBack`) is out of reach as well. All other properties of the passing runs
are theorems.

A note on the slots. In an obligation where `Len` occurs, the SMT encoding of
tlapm takes what has no elements for the empty sequence and `DOMAIN` for
`1 .. Len`, also of functions that are no sequences. `vec` is therefore a pair,
over the slots 1 and 2, for which both are the same; and `IsSource` says that a
source has the domain of a sequence. Nothing else in the models depends on it.

## 5. Not modelled

* LZ4 and XXH64 themselves. The hash is taken as free of collisions;
  `LZ4_compress_continue` never fails with a destination of `compress_bound`
  bytes, so `MalformedRegion` on encoding cannot happen. Memory is touched by
  whole slots, although LZ4 may get away with partial overlaps.
* Capacities of `Vec`s, except where a growth would move memory LZ4 refers to: any
  write to the dictionary's slot counts as a loss of it.
* What a decoder without a seed reads once it is astray inside a block whose length
  was cut off: whether the bytes there pass for a header and a block depends on the
  data (`ReadAstray` ends the model). What it served until then is covered.
* A source is a sequence of framed regions. One that ends inside a region fails
  where one that ends before it does.
* The miri stand-ins for the C functions.
* `&mut [u8]`, `&mut [MaybeUninit<u8>]` and `Cursor` as writers: `FixedMemory` has
  what their `write_mut` answers, and to the encoder they are the answers `none`
  and `mismatch`. Where they put bytes is not modelled, since no frame is ever
  completed in them.
* Contents of labels and timestamps, and a source with a wrong magic number, which
  the reader refuses by one comparison: the models have sources that an encoder
  left, complete or not.
* `encode_with` and `decode_with`, which call functions of the user, and the
  parsing of attributes. Of the derive macros, what the generated code does is in
  `Codec` (fields, tags, skipping) and `DecodeGuards` (the guards). A tag that is
  too narrow for its variants is a compile error in the generated `Decode`.
* `size_of`, a hint for a capacity that nothing depends on; numbers of more than
  one digit width beyond what `LE` says of them; floats, which are their bits.

## 6. Plan

1. Done: the region format, the encoder, the decoder, their composition and its
   abstract specification, the cursors and the file between them, the decoding
   guards, frames and the codec; proofs of every safety property, refinement and
   action property that a passing run checks, under the hypotheses given above.
2. Next: the contract between `Encode` and `Decode` is closed under composition
   (a tuple agrees if its fields do), which could be stated of pieces of a value
   without the recursion over schemas.
