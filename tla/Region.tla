------------------------------- MODULE Region -------------------------------
(***************************************************************************)
(* The region format: what a region carries, how its header is computed,   *)
(* and the two-slot buffer (DoubleBuffer) that the encoder and the decoder *)
(* stream regions through.                                                 *)
(*                                                                         *)
(* A byte is the natural number of its position in the stream its caller   *)
(* produces (1, 2, ...), so equal bytes are the same byte and every loss,  *)
(* duplicate or reordering shows.  Junk (0) is a byte that belongs to no   *)
(* stream: memory left by an earlier use of a buffer, or what LZ4 yields   *)
(* from a damaged block or against the wrong dictionary.                   *)
(***************************************************************************)
EXTENDS Integers, Sequences

CONSTANTS
  REGION_SIZE,  (* most bytes a region holds; 2^16 - 1 in the code           *)
  U16,          (* number of values of a u16 header field; 2^16 in the code  *)
  BoundEvery,   (* compress_bound adds one byte for this many; 255           *)
  BoundBase,    (* and this many more; 16                                    *)
  NoSeed        (* the seed of a bearer built without one                    *)

ASSUME RegionAssumption ==
  /\ REGION_SIZE \in Nat \ {0}
  /\ U16 \in Nat
  /\ REGION_SIZE < U16
  /\ BoundEvery \in Nat \ {0}
  /\ BoundBase \in Nat \ {0}

Junk == 0

-----------------------------------------------------------------------------
(* The two Vecs of a DoubleBuffer are heap allocations with fixed places,  *)
(* so they are slots 1 and 2; mem::swap of the Vecs only changes which of  *)
(* the two is `curr`.                                                      *)
Slot == {1, 2}
SwappedNever(slot) == slot
SwappedOffByOne(slot) == slot + 1
Swapped(slot) == 3 - slot

(* The LZ4 streaming context remembers the memory of the last block (slot  *)
(* and contents at that time) and refers to it while it works on the next: *)
(* `intact` turns FALSE once that memory is written to or reallocated.     *)
NoDict == [at |-> 1, data |-> << >>, intact |-> TRUE]
DictOf(slot, bytes) == [at |-> slot, data |-> bytes, intact |-> TRUE]

(* The context after `slot` has been written to.                           *)
Touch(lz4, slot) ==
  [lz4 EXCEPT !.intact = @ /\ (slot # lz4.at \/ lz4.data = << >>)]

-----------------------------------------------------------------------------
HEADER_SIZE == 12

(* `n as u16`                                                              *)
AsU16(n) == n % U16

(* Translation of LZ4_compressBound.                                       *)
compress_bound(n) == n + (n \div BoundEvery) + BoundBase

(* The size a caller reserves for a value of n bytes.                      *)
CeilDiv(n, d) == (n + d - 1) \div d
max_encoded_size_floor(n) ==
  (n \div REGION_SIZE) * compress_bound(REGION_SIZE)
    + compress_bound(n % REGION_SIZE) + (n \div REGION_SIZE) * HEADER_SIZE
max_encoded_size(n) ==
  (n \div REGION_SIZE) * compress_bound(REGION_SIZE)
    + compress_bound(n % REGION_SIZE) + CeilDiv(n, REGION_SIZE) * HEADER_SIZE

(* XXH64 of the uncompressed bytes, taken as collision free; the zero hash *)
(* stands in the header when there is no seed.                             *)
ZeroHash == [seed |-> NoSeed, data |-> << >>]
HashOf(seed, bytes) ==
  IF seed = NoSeed THEN ZeroHash ELSE [seed |-> seed, data |-> bytes]

Header(compressed, seed, bytes) ==
  [ compressed_size |-> AsU16(compressed),
    alloc_size      |-> AsU16(Len(bytes)),
    hash            |-> HashOf(seed, bytes) ]

(* A region in the destination.  The body is described by its length, the  *)
(* bytes that were compressed and the dictionary LZ4 was free to refer to; *)
(* `dict.intact` says whether that memory still held those bytes.          *)
EncodedRegion(compressed, seed, bytes, lz4) ==
  [ header |-> Header(compressed, seed, bytes),
    size   |-> compressed,
    data   |-> bytes,
    dict   |-> [data |-> lz4.data, intact |-> lz4.intact] ]

-----------------------------------------------------------------------------
(* `bytes` is the run of stream positions that follows `from`.             *)
Follows(bytes, from) == \A i \in 1 .. Len(bytes) : bytes[i] = from + i

(* The stream position of the last byte of regions[1 .. i], given the      *)
(* position before the first.                                              *)
EndOf(regions, i, base) ==
  IF i = 0 THEN base ELSE regions[i].data[Len(regions[i].data)]

SumOf(numbers) ==
  LET sum[n \in 0 .. Len(numbers)] ==
        IF n = 0 THEN 0 ELSE sum[n - 1] + numbers[n]
  IN  sum[Len(numbers)]

(* Bytes that regions take in the destination, with their headers.         *)
EncodedSize(regions) ==
  SumOf([i \in 1 .. Len(regions) |-> HEADER_SIZE + regions[i].size])
=============================================================================
