---------------------------- MODULE StreamEncoder ----------------------------
(***************************************************************************)
(* StreamEncoder<W> with its RegionBuffer and its Push switch: bytes are   *)
(* collected in the current buffer; when the next write does not fit, or   *)
(* on flush, the buffer is compressed with the previous one as dictionary, *)
(* framed and handed to the Writer.                                        *)
(*                                                                         *)
(* The encoder is driven by a caller that writes, flushes, and reuses the  *)
(* RegionBuffer for another stream (into_raw, from_raw).  `Caller` says    *)
(* which of the calls that the API allows this caller makes.               *)
(***************************************************************************)
EXTENDS Region

CONSTANTS
  Chunks,          (* lengths of the byte slices given to write              *)
  CompressedSizes, (* lengths of compressed blocks the data may lead to      *)
  Seeds,           (* seeds a stream may be built with, NoSeed among them    *)
  WriterResults,   (* what the Writer may answer: see WriterAnswers          *)
  Caller,          (* liberties the caller takes: see CallerLiberties        *)
  RawBuffers,      (* buffers of other bearers that from_raw may be given    *)
  Builds,          (* debug: overflows panic; release: they wrap             *)
  MaxBytes,        (* bound: bytes accepted over all streams                 *)
  MaxStreams       (* bound: streams encoded with the same buffer            *)

(* ok; write_mut refused the room; write_mut gave a slice of another       *)
(* length; the final flush of a pass failed.                               *)
WriterAnswers == {"ok", "none", "mismatch", "flush_error"}

(* Writing again after an explicit flush; going on after an error; only    *)
(* flushing after an error, as Frame::encode does; giving up the buffer    *)
(* with bytes that were not flushed.                                       *)
CallerLiberties == {"flush_midway", "retry", "flush_failed", "reuse_unflushed"}

ASSUME EncoderAssumption ==
  /\ Chunks \subseteq Nat
  /\ CompressedSizes \subseteq Nat \ {0}
  /\ NoSeed \in Seeds
  /\ WriterResults \subseteq WriterAnswers
  /\ Caller \subseteq CallerLiberties
  /\ RawBuffers \subseteq [vec : [Slot -> Seq(Nat)], curr : Slot]
  /\ Builds \subseteq {"debug", "release"}
  /\ MaxBytes \in Nat
  /\ MaxStreams \in Nat

VARIABLES
  vec,     (* contents of the two Vecs of the DoubleBuffer, by slot          *)
  curr,    (* the slot `curr` names; the other one is `prev`                 *)
  lz4,     (* CompressStream context                                         *)
  seed,    (* seed of the Push switch                                        *)
  out,     (* regions given to the destination Writer, in order              *)
  phase,   (* what the caller knows: open, flushed, failed, panicked         *)
  next,    (* bytes accepted so far, over all streams                        *)
  base,    (* value of `next` when this stream began                         *)
  ends,    (* positions in the stream at which an accepted write ended       *)
  streams  (* streams begun with this buffer                                 *)

vars == <<vec, curr, lz4, seed, out, phase, next, base, ends, streams>>

Phases == {"open", "flushed", "failed", "panicked"}

FreshBuffer == [vec |-> [s \in Slot |-> << >>], curr |-> 1]

Init ==
  /\ \E raw \in RawBuffers \cup {FreshBuffer} :
       vec = raw.vec /\ curr = raw.curr
  /\ lz4 = NoDict
  /\ seed \in Seeds
  /\ out = << >>
  /\ phase = "open"
  /\ next = 0
  /\ base = 0
  /\ ends = {0}
  /\ streams = 1

-----------------------------------------------------------------------------
(* RegionBuffer::remaining_cap, an unsigned subtraction.                   *)
RemainingCapOffByOne(v) == REGION_SIZE + 1 - Len(v)
RemainingCap(v) == REGION_SIZE - Len(v)

CapOverflows(v) == Len(v) > REGION_SIZE

(* An overflow that is not checked wraps to a huge capacity.               *)
NeedsPass(v, k) == ~CapOverflows(v) /\ RemainingCap(v) < k

(* The next k bytes of the caller, as a slice.                             *)
Chunk(k) == [i \in 1 .. k |-> next + i]

(* RegionBuffer::write on the Vec in `slot`, after `context` was set.      *)
Extend(slot, k, contents, context) ==
  /\ vec' = [contents EXCEPT ![slot] = @ \o Chunk(k)]
  /\ lz4' = IF k = 0 THEN context ELSE Touch(context, slot)
  /\ next' = next + k
  /\ ends' = ends \cup {next + k}

(* The region Push::pass makes of the current buffer.                      *)
RegionOf(c) == EncodedRegion(c, seed, vec[curr], lz4)

(* Push::pass on a buffer that is not empty: the Writer gave room for the  *)
(* region, which is compressed, framed and handed over; the buffer is      *)
(* emptied before the Writer is flushed.                                   *)
Emit(c) ==
  /\ c \in CompressedSizes
  /\ c <= compress_bound(Len(vec[curr]))
  /\ out' = Append(out, RegionOf(c))

EmptiedNever == vec
Emptied == [vec EXCEPT ![curr] = << >>]
CompressedDict == DictOf(curr, vec[curr])

(* What a pass that stops at the Writer leaves behind: nothing, if the     *)
(* Writer gave no room; a panic, if the slice had another length; an       *)
(* emitted region and an empty buffer, if only the last flush failed.      *)
PassRefused(w) ==
  /\ \/ w = "none"     /\ phase' = "failed"
     \/ w = "mismatch" /\ phase' = "panicked"
  /\ UNCHANGED <<vec, lz4, out>>

PassUnflushedKeeps(w, c) ==
  /\ w = "flush_error"
  /\ Emit(c)
  /\ UNCHANGED vec
  /\ lz4' = CompressedDict
  /\ phase' = "failed"
PassUnflushed(w, c) ==
  /\ w = "flush_error"
  /\ Emit(c)
  /\ vec' = Emptied
  /\ lz4' = CompressedDict
  /\ phase' = "failed"

PassFails(w, c) == PassRefused(w) \/ PassUnflushed(w, c)

-----------------------------------------------------------------------------
CanWrite ==
  \/ phase = "open"
  \/ phase = "flushed" /\ "flush_midway" \in Caller
  \/ phase = "failed" /\ "retry" \in Caller

CanFlush ==
  \/ phase \in {"open", "flushed"}
  \/ phase = "failed" /\ Caller \cap {"retry", "flush_failed"} # {}

(* EncodeBearer::write of more than a region can hold.                     *)
WriteOversized(k) ==
  /\ CanWrite
  /\ k > REGION_SIZE
  /\ phase' = "failed"
  /\ UNCHANGED <<vec, curr, lz4, seed, out, next, base, ends, streams>>

(* write with the remaining capacity of an overfull buffer, in a build     *)
(* that checks overflows.                                                  *)
WritePanics(k) ==
  /\ CanWrite
  /\ k <= REGION_SIZE
  /\ CapOverflows(vec[curr])
  /\ "debug" \in Builds
  /\ phase' = "panicked"
  /\ UNCHANGED <<vec, curr, lz4, seed, out, next, base, ends, streams>>

(* write of bytes the current buffer has room for.                         *)
WriteFits(k) ==
  /\ CanWrite
  /\ k <= REGION_SIZE
  /\ next + k <= MaxBytes
  /\ CapOverflows(vec[curr]) => "release" \in Builds
  /\ ~NeedsPass(vec[curr], k)
  /\ Extend(curr, k, vec, lz4)
  /\ phase' = "open"
  /\ UNCHANGED <<curr, seed, out, base, streams>>

(* write of bytes that do not fit: pass, swap, then write.  The swap and   *)
(* the write are skipped when the pass fails.                              *)
WriteSwitchesPacking(k, w, c) ==
  /\ CanWrite
  /\ k <= REGION_SIZE
  /\ next + k <= MaxBytes
  /\ NeedsPass(vec[curr], k)
  /\ w = "ok"
  /\ LET room == RemainingCap(vec[curr])
         full == vec[curr] \o Chunk(room)
     IN  /\ out' = Append(out, EncodedRegion(c, seed, full, lz4))
         /\ vec' = [Emptied EXCEPT ![Swapped(curr)] =
                      SubSeq(Chunk(k), room + 1, k)]
         /\ lz4' = DictOf(curr, full)
  /\ curr' = Swapped(curr)
  /\ next' = next + k
  /\ ends' = ends \cup {next + k}
  /\ phase' = "open"
  /\ UNCHANGED <<seed, base, streams>>
WriteSwitches(k, w, c) ==
  /\ CanWrite
  /\ k <= REGION_SIZE
  /\ next + k <= MaxBytes
  /\ NeedsPass(vec[curr], k)
  /\ \/ /\ w = "ok"
        /\ Emit(c)
        /\ curr' = Swapped(curr)
        /\ Extend(curr', k, Emptied, CompressedDict)
        /\ phase' = "open"
     \/ /\ PassFails(w, c)
        /\ UNCHANGED <<curr, next, ends>>
  /\ UNCHANGED <<seed, base, streams>>

(* StreamEncoder::flush of a buffer that holds bytes.  No swap follows.    *)
Flush(w, c) ==
  /\ CanFlush
  /\ vec[curr] # << >>
  /\ \/ /\ w = "ok"
        /\ Emit(c)
        /\ vec' = Emptied
        /\ lz4' = CompressedDict
        /\ phase' = "flushed"
     \/ PassFails(w, c)
  /\ UNCHANGED <<curr, seed, next, base, ends, streams>>

(* flush of an empty buffer: the pass returns early.                       *)
FlushAnyEarly ==
  /\ CanFlush
  /\ phase' = "flushed"
  /\ UNCHANGED <<vec, curr, lz4, seed, out, next, base, ends, streams>>
FlushEmpty ==
  /\ CanFlush
  /\ vec[curr] = << >>
  /\ phase' = "flushed"
  /\ UNCHANGED <<vec, curr, lz4, seed, out, next, base, ends, streams>>

(* into_raw, then from_raw of the same buffer and build with a new Writer: *)
(* a new Push with a new LZ4 context, over the buffer as it was left.      *)
Reuse(s) ==
  /\ streams < MaxStreams
  /\ \/ phase = "flushed"
     \/ phase \in {"open", "failed"} /\ "reuse_unflushed" \in Caller
  /\ lz4' = NoDict
  /\ seed' = s
  /\ out' = << >>
  /\ phase' = "open"
  /\ base' = next
  /\ ends' = {next}
  /\ streams' = streams + 1
  /\ UNCHANGED <<vec, curr, next>>

Write(k) ==
  \/ WriteOversized(k)
  \/ WritePanics(k)
  \/ WriteFits(k)
  \/ \E w \in WriterResults, c \in CompressedSizes : WriteSwitches(k, w, c)

FlushCall ==
  \/ FlushEmpty
  \/ \E w \in WriterResults, c \in CompressedSizes : Flush(w, c)

Next ==
  \/ \E k \in Chunks : Write(k)
  \/ FlushCall
  \/ \E s \in Seeds : Reuse(s)

Spec == Init /\ [][Next]_vars

-----------------------------------------------------------------------------
LZ4Context == [at : Slot, data : Seq(Nat), intact : BOOLEAN]

Hashes == [seed : Seeds, data : Seq(Nat)]

Regions ==
  [ header : [compressed_size : Nat, alloc_size : Nat, hash : Hashes],
    size   : Nat,
    data   : Seq(Nat),
    dict   : [data : Seq(Nat), intact : BOOLEAN] ]

TypeOK ==
  /\ vec \in [Slot -> Seq(Nat)]
  /\ curr \in Slot
  /\ lz4 \in LZ4Context
  /\ seed \in Seeds
  /\ out \in Seq(Regions)
  /\ phase \in Phases
  /\ next \in Nat
  /\ base \in 0 .. next
  /\ ends \subseteq 0 .. next
  /\ streams \in Nat

(* No buffer ever holds more than a region may, so that the subtraction in *)
(* RegionBuffer::remaining_cap does not underflow and the length fits the  *)
(* u16 of the header.                                                      *)
BufferBounded == \A s \in Slot : Len(vec[s]) <= REGION_SIZE

(* What the Writer was given followed by what the current buffer holds is  *)
(* the stream accepted from the caller, every byte once and in order,      *)
(* whatever the Writer answered: write, flush, Push::pass and swap neither *)
(* lose nor repeat a byte, not even when a failed call is retried.         *)
InOrder ==
  /\ \A i \in 1 .. Len(out) :
       /\ out[i].data # << >>
       /\ Follows(out[i].data, EndOf(out, i - 1, base))
  /\ Follows(vec[curr], EndOf(out, Len(out), base))
  /\ EndOf(out, Len(out), base) + Len(vec[curr]) = next

(* No write is split between two regions, which is what lets a decoder     *)
(* read it back with one read: every region ends where a write ended.      *)
WholeWrites == \A i \in 1 .. Len(out) : EndOf(out, i, base) \in ends

(* The header of a region says how long its body is and how much memory it *)
(* takes uncompressed: neither `as u16` in Push::pass cuts the length off. *)
HeaderFaithful ==
  \A i \in 1 .. Len(out) :
    /\ out[i].header.compressed_size = out[i].size
    /\ out[i].header.alloc_size = Len(out[i].data)

(* LZ4 compressed every region with the region before it as dictionary,    *)
(* and that region was still in memory, unmodified, at that moment (the    *)
(* safety requirement of CompressStream::compress).                        *)
WindowIntact ==
  \A i \in 1 .. Len(out) :
    /\ out[i].dict.intact
    /\ out[i].dict.data = IF i = 1 THEN << >> ELSE out[i - 1].data

(* When the last call was a flush that succeeded, all the bytes accepted   *)
(* were given to the Writer, in regions.                                   *)
FlushedMeansEmitted ==
  phase = "flushed" => EndOf(out, Len(out), base) = next

-----------------------------------------------------------------------------
(* The bytes after `from` that a sequence of pieces holds are those up to  *)
(* `to`: each of them is somewhere, and they come in order, each once.     *)
(* Other bytes may come before them or in between.                         *)
Carry(pieces, from, to) ==
  /\ \A b \in from + 1 .. to : \E i \in DOMAIN pieces : \E j \in DOMAIN pieces[i] :
       pieces[i][j] = b
  /\ \A i1, i2 \in DOMAIN pieces :
       \A j1 \in DOMAIN pieces[i1], j2 \in DOMAIN pieces[i2] :
         /\ pieces[i1][j1] <= to
         /\ /\ pieces[i1][j1] > from /\ pieces[i2][j2] > from
            /\ i1 < i2 \/ (i1 = i2 /\ j1 < j2)
            => pieces[i1][j1] < pieces[i2][j2]

Emitted == [i \in 1 .. Len(out) |-> out[i].data]

(* Whatever a buffer taken over from another bearer held, and whatever the *)
(* caller did before, the bytes of this stream all come out, once and in   *)
(* order: leftovers may come before or between them, but displace none.    *)
StreamBytesKept == Carry(Append(Emitted, vec[curr]), base, next)

(* And after a flush that succeeded the Writer was given all of them.      *)
FlushedBytesOut == phase = "flushed" => Carry(Emitted, base, next)

(* And no write was split between two regions: the last byte of this       *)
(* stream that a region holds is the last one of a write.                  *)
LastOwn(bytes, i, from) ==
  bytes[i] > from /\ \A j \in i + 1 .. Len(bytes) : bytes[j] <= from
NoWriteSplit ==
  \A i \in 1 .. Len(out) : \A j \in 1 .. Len(out[i].data) :
    LastOwn(out[i].data, j, base) => out[i].data[j] \in ends

(* "The maximum possible size of an encoded region stream": what was       *)
(* reserved with max_encoded_size for the bytes written is enough for the  *)
(* regions they became, as long as every region but the last is full.      *)
Packed == \A i \in 1 .. Len(out) - 1 : Len(out[i].data) = REGION_SIZE
MaxEncodedSize ==
  phase = "flushed" /\ Packed
    => EncodedSize(out) <= max_encoded_size(next - base)
=============================================================================
