---------------------------- MODULE StreamDecoder ----------------------------
(***************************************************************************)
(* StreamDecoder<R> with its RegionBuffer and its Pull switch: a read is   *)
(* served from the current region; when that one has too little left, the  *)
(* buffers are swapped and the next region is read, decompressed with the  *)
(* region before it as dictionary, and verified.                           *)
(*                                                                         *)
(* The source is a sequence of framed regions; a source that ends inside a *)
(* region fails in the same way, and at the same point, as one that ends   *)
(* before it, and a region whose body was damaged is one whose dictionary  *)
(* is not `intact`: LZ4 makes of it what it can.  A region whose length    *)
(* the encoder cut off to a u16 is read, and passed over, by the length    *)
(* that its header says.                                                   *)
(***************************************************************************)
EXTENDS Region

CONSTANTS
  Streams,        (* sources a decoder may be given                          *)
  ReadSizes,      (* lengths asked for by read                               *)
  Seeds,          (* seeds a decoder may be built with, NoSeed among them    *)
  Transient,      (* TRUE: the Reader may fail and succeed when asked again  *)
  Retries,        (* TRUE: the caller goes on reading after an error         *)
  RawBuffers,     (* buffers of other bearers that from_raw may be given     *)
  Builds,         (* debug: overflows panic; release: they wrap              *)
  MaxServed,      (* bound: bytes served from one source                     *)
  MaxStreams      (* bound: sources decoded with the same buffer             *)

(* A source is what an encoder made, up to damage in places: every region  *)
(* was compressed with the one before it as dictionary, bears the hash of  *)
(* its bytes, if any, and has the bytes that follow.                       *)
IsSource(s) ==
  /\ Len(s) \in Nat /\ DOMAIN s = 1 .. Len(s)
  /\ \A i \in 1 .. Len(s) :
       /\ s[i].data \in Seq(Nat)
       /\ s[i].dict.intact \in BOOLEAN
       /\ s[i].dict.data = IF i = 1 THEN << >> ELSE s[i - 1].data
       /\ s[i].header.hash = ZeroHash \/ s[i].header.hash.data = s[i].data
  /\ \A i, j \in 1 .. Len(s) :
       \A k \in 1 .. Len(s[i].data), l \in 1 .. Len(s[j].data) :
         i < j \/ (i = j /\ k < l) => s[i].data[k] < s[j].data[l]

ASSUME DecoderAssumption ==
  /\ \A s \in Streams : IsSource(s)
  /\ ReadSizes \subseteq Nat
  /\ NoSeed \in Seeds
  /\ Transient \in BOOLEAN
  /\ Retries \in BOOLEAN
  /\ RawBuffers \subseteq [vec : [Slot -> Seq(Nat)], curr : Slot, cursor : Nat]
  /\ Builds \subseteq {"debug", "release"}
  /\ MaxServed \in Nat
  /\ MaxStreams \in Nat

VARIABLES
  vec,     (* contents of the two Vecs of the DoubleBuffer, by slot          *)
  curr,    (* the slot `curr` names; the other one is `prev`                 *)
  cursor,  (* bytes of the current buffer already served                     *)
  lz4,     (* DecompressStream context                                       *)
  seed,    (* seed of the Pull switch                                        *)
  src,     (* regions of the source                                          *)
  pos,     (* regions the source was advanced over, or into the last of them *)
  got,     (* bytes served, in order                                         *)
  phase,   (* new, open, failed, dead (build failed), panicked, astray       *)
  erred,   (* a call has failed since the source was opened                  *)
  streams  (* sources opened with this buffer                                *)

vars == <<vec, curr, cursor, lz4, seed, src, pos, got, phase, erred,
          streams>>

Phases == {"new", "open", "failed", "dead", "panicked", "astray"}

FreshBuffer == [vec |-> [s \in Slot |-> << >>], curr |-> 1, cursor |-> 0]

InitDecoder ==
  /\ \E raw \in RawBuffers \cup {FreshBuffer} :
       vec = raw.vec /\ curr = raw.curr /\ cursor = raw.cursor
  /\ lz4 = NoDict
  /\ seed \in Seeds
  /\ pos = 0
  /\ got = << >>
  /\ phase = "new"
  /\ erred = FALSE
  /\ streams = 1

Init == src \in Streams /\ InitDecoder

-----------------------------------------------------------------------------
Incoming == src[pos + 1]

(* What LZ4 is asked to undo in `slot` is what was done: the same bytes    *)
(* are at hand as dictionary, and decompression does not overwrite them.   *)
DictMatches(slot) ==
  /\ Incoming.dict.intact
  /\ lz4.intact
  /\ lz4.data = Incoming.dict.data
  /\ (lz4.data = << >> \/ slot # lz4.at)

(* LZ4 is given as much of a block as its header says.  When that is not   *)
(* all, the piece is malformed, or, if it ends where a run of literals     *)
(* does, it is a block of its own, of the first bytes of the region.       *)
CutOff(region) == region.header.compressed_size # region.size
Undone ==
  IF CutOff(Incoming)
  THEN {SubSeq(Incoming.data, 1, n) : n \in 1 .. Len(Incoming.data) - 1}
  ELSE {Incoming.data}

(* Against another dictionary a block may fail to decompress, or           *)
(* decompress to anything; if it does not refer to the dictionary it may   *)
(* still come out right.                                                   *)
JunkFor(bytes) == [i \in 1 .. Len(bytes) |-> Junk]
Decompressed(slot) ==
  Undone \cup (IF DictMatches(slot) THEN {} ELSE {JunkFor(b) : b \in Undone})

HashIgnored(bytes) == TRUE
HashMatches(bytes) == HashOf(seed, bytes) = Incoming.header.hash

(* Pull::pass cannot get the region from the Reader: the source is at its  *)
(* end, or the Reader fails.  The buffer was not touched yet.              *)
PullUnavailable ==
  /\ pos = Len(src) \/ Transient
  /\ UNCHANGED <<vec, lz4, pos>>

(* LZ4 rejects the block; the buffer has been emptied and scribbled on.    *)
PullMalformed(slot) ==
  /\ pos < Len(src)
  /\ ~DictMatches(slot) \/ CutOff(Incoming)
  /\ vec' = [vec EXCEPT ![slot] = << >>]
  /\ lz4' = Touch(lz4, slot)
  /\ UNCHANGED pos

(* The block is decompressed into the buffer, and becomes the dictionary,  *)
(* before its hash is looked at.                                           *)
DecompressAfter(slot, bytes) ==
  /\ vec' = [vec EXCEPT ![slot] = @ \o bytes]
  /\ lz4' = DictOf(slot, bytes)
Decompress(slot, bytes) ==
  /\ vec' = [vec EXCEPT ![slot] = bytes]
  /\ lz4' = DictOf(slot, bytes)

PullInvalidHash(slot) ==
  /\ pos < Len(src)
  /\ \E bytes \in Decompressed(slot) :
       ~HashMatches(bytes) /\ Decompress(slot, bytes)
  /\ UNCHANGED pos

PullFails(slot) ==
  PullUnavailable \/ PullMalformed(slot) \/ PullInvalidHash(slot)

(* What a pass into `slot` may find and accept.                            *)
Accepted(slot) ==
  IF pos = Len(src) THEN {} ELSE {b \in Decompressed(slot) : HashMatches(b)}

(* A whole pass: decompressed, verified, and the source advanced by the    *)
(* length in the header: to the next region, or into a block cut off.      *)
PullOk(slot, bytes) ==
  /\ Decompress(slot, bytes)
  /\ pos' = pos + 1

(* The source stands inside a block, as after a piece of it was accepted.  *)
Astray == pos > 0 /\ CutOff(src[pos])

(* RegionBuffer::pass resets the cursor once the pass has succeeded.       *)
OpenedAsBefore == phase' = "open" /\ UNCHANGED <<cursor, erred>>
Opened == phase' = "open" /\ cursor' = 0 /\ UNCHANGED erred

(* A call that does not return Ok; `to` says what is left of the decoder.  *)
Errs(to) == phase' = to /\ erred' = TRUE

(* RegionBuffer::read of n bytes that lie within the region.               *)
ServeAgain(bytes, from, n) ==
  /\ got' = got \o SubSeq(bytes, from + 1, from + n)
  /\ cursor' = from
  /\ phase' = "open"
  /\ UNCHANGED erred
Serve(bytes, from, n) ==
  /\ got' = got \o SubSeq(bytes, from + 1, from + n)
  /\ cursor' = from + n
  /\ phase' = "open"
  /\ UNCHANGED erred

-----------------------------------------------------------------------------
(* StreamDecoderBuilder::build: the first region is pulled without a swap. *)
(* If that fails there is no decoder, and the buffer is dropped with it.   *)
Build ==
  /\ phase = "new"
  /\ \/ /\ \E bytes \in Accepted(curr) : PullOk(curr, bytes)
        /\ Opened
     \/ /\ PullFails(curr)
        /\ Errs("dead")
        /\ UNCHANGED cursor
  /\ UNCHANGED <<curr, seed, src, got, streams>>

CanRead ==
  \/ phase = "open"
  \/ phase = "failed" /\ Retries

(* RegionBuffer::remaining_len; a negative value is an overflow, which     *)
(* wraps to a huge length when it is not checked.                          *)
RemainingLen == Len(vec[curr]) - cursor
LenOverflows == Len(vec[curr]) < cursor
NeedsPullEarly(n) == ~LenOverflows /\ RemainingLen <= n
NeedsPull(n) == ~LenOverflows /\ RemainingLen < n

ReadPanics ==
  /\ CanRead
  /\ LenOverflows
  /\ "debug" \in Builds
  /\ Errs("panicked")
  /\ UNCHANGED <<vec, curr, cursor, lz4, seed, src, pos, got, streams>>

(* The wrapped length lets the read through to RegionBuffer::read, where   *)
(* the slice is out of bounds.                                             *)
ReadPastEnd ==
  /\ CanRead
  /\ LenOverflows
  /\ "release" \in Builds
  /\ Errs("failed")
  /\ UNCHANGED <<vec, curr, cursor, lz4, seed, src, pos, got, streams>>

(* read of bytes the current region still has.                             *)
ReadServed(n) ==
  /\ CanRead
  /\ Len(got) + n <= MaxServed
  /\ ~LenOverflows
  /\ ~NeedsPull(n)
  /\ Serve(vec[curr], cursor, n)
  /\ UNCHANGED <<vec, curr, lz4, seed, src, pos, streams>>

(* read of more than the current region has left: swap, pull, then serve   *)
(* from the start of the new region.  A pull that fails leaves the buffers *)
(* swapped and the cursor where it was.                                    *)
ReadPulls(n) ==
  /\ CanRead
  /\ Len(got) + n <= MaxServed
  /\ NeedsPull(n)
  /\ ~Astray
  /\ curr' = Swapped(curr)
  /\ \/ /\ PullFails(curr')
        /\ Errs("failed")
        /\ UNCHANGED <<cursor, got>>
     \/ \E bytes \in Accepted(curr') :
          /\ PullOk(curr', bytes)
          /\ \/ /\ n <= Len(bytes)
                /\ Serve(bytes, 0, n)
             \/ /\ n > Len(bytes)
                /\ cursor' = 0
                /\ Errs("failed")
                /\ UNCHANGED got
  /\ UNCHANGED <<seed, src, streams>>

(* A pull from inside a block takes bytes of it for a header.  What comes  *)
(* of that, an error most likely, is not followed.                         *)
ReadAstray(n) ==
  /\ CanRead
  /\ NeedsPull(n)
  /\ Astray
  /\ phase' = "astray"
  /\ UNCHANGED <<vec, curr, cursor, lz4, seed, src, pos, got, erred, streams>>

(* into_raw, then from_raw of the same buffer for another source.          *)
Reuse(s, regions) ==
  /\ phase \in {"open", "failed"}
  /\ streams < MaxStreams
  /\ lz4' = NoDict
  /\ seed' = s
  /\ src' = regions
  /\ pos' = 0
  /\ got' = << >>
  /\ phase' = "new"
  /\ erred' = FALSE
  /\ streams' = streams + 1
  /\ UNCHANGED <<vec, curr, cursor>>

Read(n) ==
  ReadPanics \/ ReadPastEnd \/ ReadServed(n) \/ ReadPulls(n) \/ ReadAstray(n)

Next ==
  \/ Build
  \/ \E n \in ReadSizes : Read(n)
  \/ \E s \in Seeds, regions \in Streams : Reuse(s, regions)

Spec == Init /\ [][Next]_vars
-----------------------------------------------------------------------------
LZ4Context == [at : Slot, data : Seq(Nat), intact : BOOLEAN]

TypeOK ==
  /\ vec \in [Slot -> Seq(Nat)]
  /\ curr \in Slot
  /\ cursor \in Nat
  /\ lz4 \in LZ4Context
  /\ seed \in Seeds
  /\ src \in Streams
  /\ pos \in 0 .. Len(src)
  /\ got \in Seq(Nat)
  /\ phase \in Phases
  /\ erred \in BOOLEAN
  /\ streams \in Nat

(* "Read of n bytes advances the bearer's internal position in source by   *)
(* n, making prior bytes inaccessible": no byte is served after a later    *)
(* one, or twice.                                                          *)
NeverRewinds ==
  \A i, j \in 1 .. Len(got) :
    i < j /\ got[i] # Junk /\ got[j] # Junk => got[i] < got[j]

(* The same, asked of the code only until a read fails: what a caller who  *)
(* propagates errors with `?` has seen is in order.                        *)
InOrderUntilError == erred \/ NeverRewinds

(* Until a read fails, every byte served was put there by an encoder with  *)
(* the same seed and came out of a region whose hash agrees with it.       *)
(* Without a seed there is no hash, and only an undamaged source gives     *)
(* that guarantee.                                                         *)
Undamaged == \A i \in 1 .. Len(src) : src[i].dict.intact
Verified ==
  ~erred /\ (seed # NoSeed \/ Undamaged) =>
    \A i \in 1 .. Len(got) : \E r \in 1 .. pos :
      /\ \E j \in 1 .. Len(src[r].data) : src[r].data[j] = got[i]
      /\ src[r].header.hash = HashOf(seed, src[r].data)

(* No call before the first error, and not the failing one either, writes  *)
(* to the memory that LZ4 still has to use as dictionary (the safety       *)
(* requirement of DecompressStream::decompress).                           *)
WindowKept ==
  [][ ~erred /\ streams' = streams /\ lz4.data # << >> /\ lz4.intact
        => vec'[lz4.at] = lz4.data ]_vars

(* Until a read fails the cursor is inside the current region, and that    *)
(* region, the last one decompressed, is the dictionary for the next,      *)
(* which will go to the other buffer.                                      *)
WindowReady ==
  phase = "open" /\ ~erred =>
    /\ cursor \in 0 .. Len(vec[curr])
    /\ lz4 = DictOf(curr, vec[curr])
    /\ pos > 0

(* What one read returns is a contiguous piece of one region, and of one   *)
(* the source has reached; or all of it is what LZ4 made of a damaged one. *)
(* That holds for a caller that goes on after errors too, unless the       *)
(* buffer has been used for another source, whose bytes it may then get.   *)
SliceOf(bytes, data) ==
  \E from \in 0 .. Len(data) - Len(bytes) :
    \A i \in 1 .. Len(bytes) : bytes[i] = data[from + i]

OneRegionPerRead ==
  [][ streams' = streams /\ (streams = 1 \/ ~erred) /\ got' # got =>
        LET served == SubSeq(got', Len(got) + 1, Len(got'))
        IN  \/ \A i \in 1 .. Len(served) : served[i] = Junk
            \/ \E r \in 1 .. Len(src) :
                 r <= pos' + 1 /\ SliceOf(served, src[r].data) ]_vars
=============================================================================
