-------------------------- MODULE RegionPipeProofs --------------------------
(***************************************************************************)
(* Proofs about RegionPipe: for every region size, every write and read,   *)
(* every answer of the Writer and every pair of seeds, an encoder and a    *)
(* decoder together are a FIFO store of bytes, and with the same seed what *)
(* was flushed is read back without an error, if no region has a length    *)
(* that its header cuts off.                                               *)
(***************************************************************************)
EXTENDS RegionPipe, StreamEncoderProofs

LEMMA PipeCaller == Disciplined /\ CarefulReuse /\ CleanBuffers
  BY PipeAssumption DEF Disciplined, CarefulReuse, CleanBuffers

(* The encoder of the pipe is an encoder: all that is proved of it holds.  *)
LEMMA PipeEncodes == SafePipe => Spec
<1>1. PipeInit => Init
  BY DEF PipeInit
<1>2. [PipeNext]_pipeVars => [Next]_vars
  BY DEF PipeNext, WriteValue, FlushAll, BuildDecoder, ReadValue, pipeVars,
         Next
<1> QED
  BY <1>1, <1>2, PTL DEF SafePipe, Spec

(* What a step of the encoder may do to what the decoder depends on.       *)
LEMMA EncoderStep ==
  ASSUME WriteValue \/ FlushAll
  PROVE  /\ dphase = "new"
         /\ UNCHANGED <<decoderVars, seed, base>>
         /\ \/ UNCHANGED out
            \/ \E c \in CompressedSizes : Emit(c)
<1>1. ASSUME NEW k \in Chunks, Write(k)
      PROVE  /\ UNCHANGED <<seed, base>>
             /\ \/ UNCHANGED out
                \/ \E c \in CompressedSizes : Emit(c)
  BY <1>1 DEF Write, WriteOversized, WritePanics, WriteFits, WriteSwitches,
              PassFails, PassRefused, PassUnflushed
<1>2. ASSUME FlushCall
      PROVE  /\ UNCHANGED <<seed, base>>
             /\ \/ UNCHANGED out
                \/ \E c \in CompressedSizes : Emit(c)
  BY <1>2 DEF FlushCall, FlushEmpty, Flush, PassFails, PassRefused,
              PassUnflushed
<1> QED
  BY <1>1, <1>2 DEF WriteValue, FlushAll

-----------------------------------------------------------------------------
(* Every region holds at most as much as a buffer does, and its hash is    *)
(* that of its bytes.                                                      *)
Framed ==
  /\ base = 0
  /\ \A i \in 1 .. Len(out) :
       /\ Len(out[i].data) <= REGION_SIZE
       /\ out[i].header.hash = HashOf(seed, out[i].data)

LEMMA FramedNext ==
  TypeOK /\ Bounded /\ Framed /\ [PipeNext]_pipeVars => Framed'
<1> SUFFICES ASSUME TypeOK, Bounded, Framed, [PipeNext]_pipeVars
             PROVE  Framed'
  OBVIOUS
<1>1. CASE UNCHANGED <<out, seed, base>>
  BY <1>1 DEF Framed
<1>2. ASSUME NEW c \in CompressedSizes, Emit(c), UNCHANGED <<seed, base>>
      PROVE  Framed'
  <2>1. /\ RegionOf(c).data = vec[curr]
        /\ RegionOf(c).header.hash = HashOf(seed, vec[curr])
    BY DEF RegionOf, EncodedRegion, Header
  <2>2. out' = Append(out, RegionOf(c)) /\ out \in Seq(Regions)
    BY <1>2 DEF Emit, TypeOK
  <2>3. /\ Len(out') = Len(out) + 1
        /\ out'[Len(out) + 1] = RegionOf(c)
        /\ \A i \in 1 .. Len(out) : out'[i] = out[i]
    BY <2>2, RegionType
  <2>4. ASSUME NEW i \in 1 .. Len(out')
        PROVE  /\ Len(out'[i].data) <= REGION_SIZE
               /\ out'[i].header.hash = HashOf(seed', out'[i].data)
    <3>1. CASE i \in 1 .. Len(out)
      BY <1>2, <2>3, <3>1 DEF Framed
    <3>2. CASE i = Len(out) + 1
      BY <1>2, <2>1, <2>3, <3>2 DEF Bounded
    <3> QED
      BY <2>2, <2>3, <3>1, <3>2
  <2> QED
    BY <1>2, <2>4 DEF Framed
<1>3. CASE WriteValue \/ FlushAll
  BY <1>1, <1>2, <1>3, EncoderStep
<1>4. CASE BuildDecoder \/ ReadValue \/ UNCHANGED pipeVars
  BY <1>1, <1>4 DEF BuildDecoder, ReadValue, pipeVars, vars
<1> QED
  BY <1>3, <1>4 DEF PipeNext

(* What the decoder may rely on in its source.                             *)
Source ==
  /\ TypeOK
  /\ InOrder
  /\ WholeWrites
  /\ WindowIntact
  /\ FlushedMeansEmitted
  /\ Framed

LEMMA SourceInvariant == SafePipe => []Source
<1>1. Spec => [](TypeOK /\ Bounded /\ Streaming)
  BY PipeCaller, StreamingInvariant
<1>2. PipeInit => Framed
  BY DEF PipeInit, Init, Framed
<1>3. SafePipe => []Framed
  BY <1>1, <1>2, FramedNext, PipeEncodes, PTL DEF SafePipe
<1>4. Spec => []InOrder
  BY PipeCaller, NothingLost
<1>5. Spec => []WholeWrites
  BY PipeCaller, WritesWhole
<1>6. Spec => []WindowIntact
  BY PipeCaller, WindowSafe
<1>7. Spec => []FlushedMeansEmitted
  BY PipeCaller, FlushEmits
<1> QED
  BY <1>1, <1>3, <1>4, <1>5, <1>6, <1>7, PipeEncodes, PTL DEF Source

(* The place of a region in the stream.                                    *)
LEMMA RegionPlace ==
  ASSUME Source, NEW i \in 1 .. Len(out)
  PROVE  /\ out[i].data \in Seq(Nat)
         /\ Len(out[i].data) \in 1 .. REGION_SIZE
         /\ EndOf(out, i - 1, 0) \in Nat
         /\ EndOf(out, i, 0) = EndOf(out, i - 1, 0) + Len(out[i].data)
         /\ EndOf(out, i, 0) \in ends
         /\ EndOf(out, i, 0) <= next
         /\ Follows(out[i].data, EndOf(out, i - 1, 0))
<1>1. out \in Seq(Regions) /\ base = 0
  BY DEF Source, TypeOK, Framed
<1>2. out[i].data \in Seq(Nat) /\ out[i].data # << >>
  <2>1. out[i] \in Regions
    BY <1>1
  <2>2. out[i].data # << >>
    BY DEF Source, InOrder
  <2> QED
    BY <2>1, <2>2 DEF Regions
<1>3. \A j \in 1 .. Len(out) : EndOf(out, j, 0) \in ends
  BY <1>1 DEF Source, WholeWrites
<1>4. \A e \in ends : e \in Nat /\ e <= next
  BY DEF Source, TypeOK
<1>5. EndOf(out, i - 1, 0) \in Nat
  <2>1. CASE i = 1
    BY <2>1 DEF EndOf
  <2>2. CASE i # 1
    <3>1. i - 1 \in 1 .. Len(out)
      BY <1>1, <2>2
    <3>2. EndOf(out, i - 1, 0) \in ends
      BY <1>3, <3>1
    <3> QED
      BY <1>4, <3>2
  <2> QED
    BY <2>1, <2>2
<1>6. Follows(out[i].data, EndOf(out, i - 1, 0))
  BY <1>1 DEF Source, InOrder
<1>7. EndOf(out, i, 0) = EndOf(out, i - 1, 0) + Len(out[i].data)
  <2>1. /\ Len(out[i].data) \in Nat \ {0}
        /\ out[i].data[Len(out[i].data)]
             = EndOf(out, i - 1, 0) + Len(out[i].data)
    BY <1>2, <1>5, <1>6, FollowsLast
  <2>2. EndOf(out, i, 0) = out[i].data[Len(out[i].data)]
    BY <1>1 DEF EndOf
  <2> QED
    BY <2>1, <2>2
<1>8. Len(out[i].data) \in 1 .. REGION_SIZE
  BY <1>1, <1>2, RegionAssumption DEF Source, Framed
<1>9. EndOf(out, i, 0) \in ends /\ EndOf(out, i, 0) <= next
  BY <1>3, <1>4
<1> QED
  BY <1>2, <1>5, <1>6, <1>7, <1>8, <1>9

-----------------------------------------------------------------------------
(* A piece of a sequence.                                                  *)
LEMMA Piece ==
  ASSUME NEW s \in Seq(Nat), NEW from \in Nat, NEW n \in Nat,
         from + n <= Len(s)
  PROVE  /\ SubSeq(s, from + 1, from + n) \in Seq(Nat)
         /\ Len(SubSeq(s, from + 1, from + n)) = n
         /\ \A j \in 1 .. n : SubSeq(s, from + 1, from + n)[j] = s[from + j]
<1>1. from + 1 \in Nat /\ from + n \in 0 .. Len(s) /\ Len(s) \in Nat
  OBVIOUS
<1>2. /\ SubSeq(s, from + 1, from + n) \in Seq(Nat)
      /\ Len(SubSeq(s, from + 1, from + n)) = n
  BY <1>1
<1>3. ASSUME NEW j \in 1 .. n
      PROVE  SubSeq(s, from + 1, from + n)[j] = s[from + j]
  BY <1>1, <1>3
<1> QED
  BY <1>2, <1>3

(* What a pass may take for a region: all of it, or, if its length is cut  *)
(* off in its header and there is no hash to tell, what it begins with.    *)
TakenFor(bytes, i) ==
  /\ bytes \in Seq(Nat)
  /\ Len(bytes) <= Len(out[i].data)
  /\ \A k \in 1 .. Len(bytes) : bytes[k] = out[i].data[k]
  /\ IF D!CutOff(out[i]) THEN seed = NoSeed /\ dseed = NoSeed
                         ELSE bytes = out[i].data

LEMMA FaithfulIsWhole ==
  ASSUME HeaderFaithful, NEW i \in 1 .. Len(out)
  PROVE  ~D!CutOff(out[i])
  BY DEF HeaderFaithful, D!CutOff

LEMMA TakenPlace ==
  ASSUME Source, NEW i \in 1 .. Len(out), NEW bytes, TakenFor(bytes, i)
  PROVE  /\ bytes \in Seq(Nat) /\ Len(bytes) \in Nat
         /\ Len(bytes) <= REGION_SIZE
         /\ EndOf(out, i - 1, 0) \in Nat
         /\ EndOf(out, i - 1, 0) + Len(bytes) <= next
         /\ Follows(bytes, EndOf(out, i - 1, 0))
<1> DEFINE data == out[i].data
<1>1. /\ data \in Seq(Nat)
      /\ Len(data) \in 1 .. REGION_SIZE
      /\ EndOf(out, i - 1, 0) \in Nat
      /\ EndOf(out, i, 0) = EndOf(out, i - 1, 0) + Len(data)
      /\ EndOf(out, i, 0) <= next
      /\ Follows(data, EndOf(out, i - 1, 0))
  BY RegionPlace
<1>2. /\ bytes \in Seq(Nat)
      /\ Len(bytes) <= Len(data)
      /\ \A k \in 1 .. Len(bytes) : bytes[k] = data[k]
  BY DEF TakenFor
<1> HIDE DEF data
<1>3. Len(bytes) \in Nat /\ Len(data) \in Nat /\ next \in Nat
  BY <1>1, <1>2 DEF Source, TypeOK
<1>4. Follows(bytes, EndOf(out, i - 1, 0))
  BY <1>1, <1>2, <1>3 DEF Follows
<1>5. /\ Len(bytes) <= REGION_SIZE
      /\ EndOf(out, i - 1, 0) + Len(bytes) <= next
  BY <1>1, <1>2, <1>3, RegionAssumption
<1> QED
  BY <1>1, <1>2, <1>3, <1>4, <1>5

(* Before it is built the decoder is as it was made; while it is open, the *)
(* current buffer holds what was taken for the region that the source was  *)
(* advanced over last, which is the dictionary for the next, and what was  *)
(* served is the stream up to the cursor.                                  *)
Unbuilt ==
  /\ dvec \in [Slot -> Seq(Nat)]
  /\ dcurr \in Slot
  /\ cursor = 0
  /\ dlz4 = NoDict
  /\ pos = 0
  /\ got = << >>

Reading ==
  /\ dvec \in [Slot -> Seq(Nat)]
  /\ dcurr \in Slot
  /\ pos \in 1 .. Len(out)
  /\ TakenFor(dvec[dcurr], pos)
  /\ cursor \in 0 .. Len(dvec[dcurr])
  /\ dlz4 = DictOf(dcurr, dvec[dcurr])
  /\ got \in Seq(Nat)
  /\ Len(got) = EndOf(out, pos - 1, 0) + cursor
  /\ Follows(got, 0)

Decoding ==
  /\ dphase = "new" => Unbuilt
  /\ dphase = "open" => Reading

(* The dictionary is the last region, and not in the buffer given.         *)
DictionaryKept(slot) ==
  \/ pos = 0 /\ dlz4 = NoDict
  \/ pos \in 1 .. Len(out) /\ dlz4 = DictOf(Swapped(slot), out[pos].data)

(* LZ4 undoes with the same dictionary what it did, so that a pass into    *)
(* the buffer that is not the dictionary takes what it finds for the next  *)
(* region, or fails for the end of the source, the hash or a length that   *)
(* is cut off.                                                             *)
LEMMA PassFinds ==
  ASSUME Source, NEW slot \in Slot, DictionaryKept(slot)
  PROVE  /\ \A bytes \in D!Accepted(slot) :
              pos + 1 \in 1 .. Len(out) /\ TakenFor(bytes, pos + 1)
         /\ dseed = seed /\ HeaderFaithful /\ D!PullFails(slot)
              => pos = Len(out)
<1>1. /\ out \in Seq(Regions)
      /\ Len(out) \in Nat
      /\ pos \in 0 .. Len(out)
      /\ slot # Swapped(slot)
  BY DEF Source, TypeOK, Slot, Swapped, DictionaryKept
<1> DEFINE data == out[pos + 1].data
<1>2. ASSUME pos < Len(out)
      PROVE  /\ pos + 1 \in 1 .. Len(out)
             /\ D!Incoming = out[pos + 1]
             /\ D!DictMatches(slot)
             /\ D!Decompressed(slot) = D!Undone
  <2>1. pos + 1 \in 1 .. Len(out)
    BY <1>1, <1>2
  <2>2. /\ out[pos + 1].dict.intact
        /\ out[pos + 1].dict.data
             = IF pos = 0 THEN << >> ELSE out[pos].data
    <3>1. (pos + 1) - 1 = pos /\ (pos + 1 = 1 <=> pos = 0)
      BY <1>1
    <3> QED
      BY <2>1, <3>1 DEF Source, WindowIntact
  <2>3. D!Incoming = out[pos + 1]
    BY DEF D!Incoming
  <2>4. D!DictMatches(slot)
    BY <1>1, <2>2, <2>3 DEF D!DictMatches, NoDict, DictOf, DictionaryKept
  <2>5. D!Decompressed(slot) = D!Undone
    BY <2>4 DEF D!Decompressed
  <2> QED
    BY <2>1, <2>3, <2>4, <2>5
<1>3. ASSUME pos < Len(out), ~D!CutOff(out[pos + 1])
      PROVE  D!Undone = {data}
  BY <1>2, <1>3 DEF D!Undone
<1>4. ASSUME pos < Len(out)
      PROVE  /\ data \in Seq(Nat) /\ Len(data) \in Nat
             /\ out[pos + 1].header.hash = HashOf(seed, data)
  BY <1>2, <1>4, RegionPlace DEF Source, Framed
<1>5. ASSUME NEW bytes \in D!Accepted(slot)
      PROVE  pos + 1 \in 1 .. Len(out) /\ TakenFor(bytes, pos + 1)
  <2>1. pos # Len(out) /\ bytes \in D!Decompressed(slot) /\ D!HashMatches(bytes)
    BY <1>5 DEF D!Accepted
  <2>2. pos < Len(out)
    BY <1>1, <2>1
  <2>3. /\ bytes \in D!Undone
        /\ HashOf(dseed, bytes) = HashOf(seed, data)
    BY <1>2, <1>4, <2>1, <2>2
    DEF D!HashMatches, HashOf, D!HashOf, ZeroHash, D!ZeroHash
  <2>4. CASE ~D!CutOff(out[pos + 1])
    BY <1>2, <1>3, <1>4, <2>2, <2>3, <2>4 DEF TakenFor
  <2>5. CASE D!CutOff(out[pos + 1])
    <3>1. PICK n \in 1 .. Len(data) - 1 : bytes = SubSeq(data, 1, n)
      BY <1>2, <2>2, <2>3, <2>5 DEF D!Undone
    <3>2. n \in Nat /\ 0 + n <= Len(data) /\ n # Len(data)
      BY <1>4, <2>2, <3>1
    <3>3. /\ bytes \in Seq(Nat) /\ Len(bytes) = n
          /\ \A k \in 1 .. n : bytes[k] = data[0 + k]
      <4>1. bytes = SubSeq(data, 0 + 1, 0 + n)
        BY <3>1, <3>2
      <4> QED
        BY <1>4, <2>2, <3>2, <4>1, Piece
    <3>4. \A k \in 1 .. n : bytes[k] = data[k]
      BY <3>2, <3>3
    <3>5. bytes # data
      BY <3>2, <3>3
    <3>6. seed = NoSeed /\ dseed = NoSeed
      BY <2>3, <3>5 DEF HashOf, ZeroHash
    <3> QED
      BY <1>2, <2>2, <2>5, <3>2, <3>3, <3>4, <3>6 DEF TakenFor
  <2> QED
    BY <2>4, <2>5
<1>6. ASSUME dseed = seed, HeaderFaithful, D!PullFails(slot)
      PROVE  pos = Len(out)
  <2>1. SUFFICES ASSUME pos < Len(out) PROVE FALSE
    BY <1>1
  <2>2. ~D!CutOff(out[pos + 1]) /\ ~D!CutOff(D!Incoming)
    BY <1>2, <1>6, <2>1, FaithfulIsWhole
  <2>3. CASE D!PullUnavailable
    BY <1>1, <2>1, <2>3 DEF D!PullUnavailable
  <2>4. CASE D!PullMalformed(slot)
    BY <1>2, <2>1, <2>2, <2>4 DEF D!PullMalformed
  <2>5. CASE D!PullInvalidHash(slot)
    <3>1. PICK bytes \in D!Decompressed(slot) : ~D!HashMatches(bytes)
      BY <2>5 DEF D!PullInvalidHash
    <3>2. bytes = data
      BY <1>2, <1>3, <2>1, <2>2, <3>1
    <3> QED
      BY <1>2, <1>4, <1>6, <2>1, <3>1, <3>2
      DEF D!HashMatches, HashOf, D!HashOf, ZeroHash, D!ZeroHash
  <2> QED
    BY <1>6, <2>3, <2>4, <2>5 DEF D!PullFails
<1> QED
  BY <1>5, <1>6

(* Bytes of the current region, from the place where reading is, continue  *)
(* what was served.                                                        *)
LEMMA ServeContinues ==
  ASSUME Source, NEW i \in 1 .. Len(out), got \in Seq(Nat), Follows(got, 0),
         NEW bytes, TakenFor(bytes, i),
         NEW from \in Nat, Len(got) = EndOf(out, i - 1, 0) + from,
         NEW n \in Nat, from + n <= Len(bytes)
  PROVE  LET served == got \o SubSeq(bytes, from + 1, from + n)
         IN  /\ served \in Seq(Nat)
             /\ Len(served) = Len(got) + n
             /\ Follows(served, 0)
             /\ Len(got) + n <= next
             /\ n <= REGION_SIZE
<1> DEFINE piece == SubSeq(bytes, from + 1, from + n)
<1>1. /\ bytes \in Seq(Nat) /\ Len(bytes) \in Nat
      /\ Len(bytes) <= REGION_SIZE
      /\ EndOf(out, i - 1, 0) \in Nat
      /\ EndOf(out, i - 1, 0) + Len(bytes) <= next
      /\ Follows(bytes, EndOf(out, i - 1, 0))
  BY TakenPlace
<1>2. /\ piece \in Seq(Nat)
      /\ Len(piece) = n
      /\ \A j \in 1 .. n : piece[j] = bytes[from + j]
  BY <1>1, Piece
<1>3. Follows(piece, 0 + Len(got))
  <2>1. ASSUME NEW j \in 1 .. n PROVE piece[j] = Len(got) + j
    <3>1. bytes[from + j] = EndOf(out, i - 1, 0) + (from + j)
      <4>1. from + j \in 1 .. Len(bytes)
        BY <1>1
      <4> QED
        BY <1>1, <4>1 DEF Follows
    <3> QED
      BY <1>1, <1>2, <3>1
  <2> QED
    BY <1>2, <2>1 DEF Follows
<1>4. next \in Nat /\ REGION_SIZE \in Nat
  BY RegionAssumption DEF Source, TypeOK
<1> HIDE DEF piece
<1>5. /\ got \o piece \in Seq(Nat)
      /\ Len(got \o piece) = Len(got) + n
      /\ Follows(got \o piece, 0)
  BY <1>2, <1>3, FollowsConcat
<1>6. Len(got) + n <= next /\ n <= REGION_SIZE
  <2>1. /\ EndOf(out, i - 1, 0) + Len(bytes) <= next
        /\ Len(got) = EndOf(out, i - 1, 0) + from
        /\ EndOf(out, i - 1, 0) \in Nat /\ Len(bytes) \in Nat
        /\ Len(bytes) <= REGION_SIZE
    BY <1>1
  <2> HIDE <1>1, <1>2, <1>3, <1>5
  <2> QED
    BY <1>4, <2>1
<1> QED
  BY <1>5, <1>6 DEF piece

-----------------------------------------------------------------------------
(* Building a decoder finds the first region, or there is none, unless the *)
(* seeds differ.                                                           *)
LEMMA BuildStep ==
  ASSUME Source, Unbuilt, BuildDecoder
  PROVE  /\ dphase = "new" /\ dphase' \in {"open", "dead"}
         /\ UNCHANGED <<vars, got, dseed>>
         /\ dphase' = "open" => Reading'
         /\ dphase' = "dead" /\ dseed = seed /\ HeaderFaithful
              => Len(out) = 0
<1>1. /\ dphase = "new"
      /\ UNCHANGED <<vars, got, dseed, dcurr>>
  BY DEF BuildDecoder, D!Build
<1>2. out \in Seq(Regions) /\ UNCHANGED out
  BY <1>1 DEF Source, TypeOK, vars
<1>3. /\ \A bytes \in D!Accepted(dcurr) :
           pos + 1 \in 1 .. Len(out) /\ TakenFor(bytes, pos + 1)
      /\ dseed = seed /\ HeaderFaithful /\ D!PullFails(dcurr)
           => pos = Len(out)
  <2>1. dcurr \in Slot /\ DictionaryKept(dcurr)
    BY DEF Unbuilt, DictionaryKept
  <2> QED
    BY <2>1, PassFinds
<1>4. ASSUME NEW bytes \in D!Accepted(dcurr), D!PullOk(dcurr, bytes), D!Opened
      PROVE  dphase' = "open" /\ Reading'
  <2>1. 1 \in 1 .. Len(out) /\ TakenFor(bytes, 1)
    BY <1>3 DEF Unbuilt
  <2>2. /\ dvec' = [dvec EXCEPT ![dcurr] = bytes]
        /\ dlz4' = DictOf(dcurr, bytes)
        /\ pos' = 1
        /\ cursor' = 0
        /\ dphase' = "open"
    BY <1>4 DEF D!PullOk, D!Decompress, D!Opened, D!DictOf, DictOf, Unbuilt
  <2>3. bytes \in Seq(Nat) /\ Len(bytes) \in Nat
    BY <2>1, TakenPlace
  <2>4. /\ dvec' \in [Slot -> Seq(Nat)]
        /\ dvec'[dcurr'] = bytes
        /\ cursor' \in 0 .. Len(dvec'[dcurr'])
    BY <1>1, <2>2, <2>3 DEF Unbuilt
  <2>5. /\ got' \in Seq(Nat)
        /\ Len(got') = EndOf(out', pos' - 1, 0) + cursor'
        /\ Follows(got', 0)
    BY <1>1, <1>2, <2>2 DEF Unbuilt, EndOf, Follows
  <2>6. TakenFor(dvec[dcurr], pos)'
    BY <1>1, <2>1, <2>2, <2>4 DEF TakenFor, D!CutOff, vars
  <2> QED
    BY <1>1, <1>2, <2>1, <2>2, <2>4, <2>5, <2>6 DEF Reading, Unbuilt
<1>5. ASSUME D!PullFails(dcurr), D!Errs("dead")
      PROVE  /\ dphase' = "dead"
             /\ dseed = seed /\ HeaderFaithful => Len(out) = 0
  BY <1>3, <1>5 DEF D!Errs, Unbuilt
<1> QED
  BY <1>1, <1>4, <1>5 DEF BuildDecoder, D!Build

(* A read from the region that is current, or from the one that a pass     *)
(* made current.                                                           *)
LEMMA ServeReads ==
  ASSUME Source, NEW i \in 1 .. Len(out), got \in Seq(Nat), Follows(got, 0),
         NEW bytes, TakenFor(bytes, i),
         NEW from \in Nat, Len(got) = EndOf(out, i - 1, 0) + from,
         NEW n \in Nat, from + n <= Len(bytes),
         D!Serve(bytes, from, n),
         UNCHANGED <<vars, dseed>>, pos' = i,
         dvec' \in [Slot -> Seq(Nat)], dcurr' \in Slot,
         dvec'[dcurr'] = bytes, dlz4' = DictOf(dcurr', bytes)
  PROVE  /\ dphase' = "open" /\ Reading'
         /\ Len(got') = Len(got) + n /\ Len(got') <= next
         /\ n <= REGION_SIZE
<1>1. /\ got' = got \o SubSeq(bytes, from + 1, from + n)
      /\ cursor' = from + n
      /\ dphase' = "open"
      /\ UNCHANGED <<out, seed>>
  BY DEF D!Serve, vars
<1>2. /\ got' \in Seq(Nat)
      /\ Len(got') = Len(got) + n
      /\ Follows(got', 0)
      /\ Len(got') <= next
      /\ n <= REGION_SIZE
  BY <1>1, ServeContinues
<1>3. EndOf(out, i - 1, 0) \in Nat /\ Len(bytes) \in Nat
  BY TakenPlace
<1>4. Len(got') = EndOf(out', pos' - 1, 0) + cursor'
  BY <1>1, <1>2, <1>3
<1>5. cursor' \in 0 .. Len(bytes)
  BY <1>1, <1>3
<1>6. pos' \in 1 .. Len(out') /\ TakenFor(dvec[dcurr], pos)'
  BY <1>1 DEF TakenFor, D!CutOff
<1> QED
  BY <1>1, <1>2, <1>4, <1>5, <1>6 DEF Reading

(* A read serves the bytes that follow, all of them, or fails; and with    *)
(* the same seed it fails at the end of the stream only, if no length is   *)
(* cut off.  A read that goes on to the next region finds nothing left in  *)
(* the current one, which ends where a write does; unless the source       *)
(* stands inside a block.                                                  *)
LEMMA ReadStep ==
  ASSUME Source, Reading, NEW n \in ReadSizes, WithinWrite(n), D!Read(n),
         UNCHANGED vars
  PROVE  /\ dphase = "open" /\ dphase' \in {"open", "failed", "astray"}
         /\ UNCHANGED dseed
         /\ dphase' = "open" =>
              /\ Reading'
              /\ Len(got') = Len(got) + n /\ Len(got') <= next
              /\ n <= REGION_SIZE
         /\ dphase' # "open" => UNCHANGED got
         /\ dphase' = "failed" /\ dseed = seed /\ HeaderFaithful
              => Len(got) = EndOf(out, Len(out), 0)
         /\ dphase' = "astray"
              => seed = NoSeed /\ dseed = NoSeed /\ ~HeaderFaithful
<1>1. /\ n \in Nat
      /\ out \in Seq(Regions) /\ UNCHANGED <<out, seed>>
      /\ pos \in 1 .. Len(out)
      /\ got \in Seq(Nat) /\ Follows(got, 0)
  BY PipeAssumption DEF Source, TypeOK, Reading, vars
<1>2. /\ TakenFor(dvec[dcurr], pos)
      /\ Len(dvec[dcurr]) \in Nat
      /\ cursor \in Nat /\ cursor <= Len(dvec[dcurr])
      /\ ~D!LenOverflows
  BY <1>1, TakenPlace DEF Reading, D!LenOverflows
<1>3. CASE D!ReadServed(n)
  <2>1. /\ dphase = "open"
        /\ UNCHANGED <<dvec, dcurr, dlz4, pos, dseed>>
        /\ D!Serve(dvec[dcurr], cursor, n)
    BY <1>3 DEF D!ReadServed, D!CanRead
  <2>2. cursor + n <= Len(dvec[dcurr])
    BY <1>1, <1>2, <1>3
    DEF D!ReadServed, D!NeedsPull, D!RemainingLen
  <2>3. /\ dphase' = "open" /\ Reading'
        /\ Len(got') = Len(got) + n /\ Len(got') <= next
        /\ n <= REGION_SIZE
    BY <1>1, <1>2, <2>1, <2>2, ServeReads DEF Reading
  <2> QED
    BY <2>1, <2>3
<1>4. CASE D!ReadAstray(n)
  <2>1. /\ dphase = "open" /\ dphase' = "astray"
        /\ UNCHANGED <<got, dseed>>
        /\ D!CutOff(out[pos])
    BY <1>4 DEF D!ReadAstray, D!CanRead, D!Astray
  <2>2. seed = NoSeed /\ dseed = NoSeed /\ ~HeaderFaithful
    BY <1>1, <1>2, <2>1, FaithfulIsWhole DEF TakenFor
  <2> QED
    BY <2>1, <2>2
<1>5. CASE D!ReadPulls(n)
  <2>1. /\ dphase = "open"
        /\ dcurr' = 3 - dcurr
        /\ UNCHANGED dseed
        /\ ~D!CutOff(out[pos])
    BY <1>1, <1>5 DEF D!ReadPulls, D!CanRead, D!Swapped, D!Astray
  <2>2. dcurr' \in Slot /\ Swapped(dcurr') = dcurr
    BY <2>1 DEF Reading, Slot, Swapped
  <2>3. /\ dvec[dcurr] = out[pos].data
        /\ Len(out[pos].data) \in Nat
        /\ EndOf(out, pos - 1, 0) \in Nat
        /\ EndOf(out, pos, 0) = EndOf(out, pos - 1, 0) + Len(out[pos].data)
        /\ EndOf(out, pos, 0) \in ends
    BY <1>1, <1>2, <2>1, RegionPlace DEF TakenFor
  <2>4. Len(out[pos].data) - cursor < n
    BY <1>5, <2>3 DEF D!ReadPulls, D!NeedsPull, D!RemainingLen
  <2>5. Len(got) = EndOf(out, pos, 0) /\ Len(got) \in Nat
    <3>1. Len(got) = EndOf(out, pos - 1, 0) + cursor
      BY DEF Reading
    <3>2. EndOf(out, pos, 0) < Len(got) + n
      BY <1>1, <1>2, <2>3, <2>4, <3>1
    <3>3. ~(Len(got) < EndOf(out, pos, 0))
      BY <2>3, <3>2 DEF WithinWrite
    <3> QED
      BY <1>2, <2>3, <3>1, <3>3
  <2>6. /\ \A bytes \in D!Accepted(dcurr') :
             pos + 1 \in 1 .. Len(out) /\ TakenFor(bytes, pos + 1)
        /\ dseed = seed /\ HeaderFaithful /\ D!PullFails(dcurr')
             => pos = Len(out)
    <3>1. DictionaryKept(dcurr')
      BY <2>2, <2>3 DEF Reading, DictionaryKept
    <3> QED
      BY <2>2, <3>1, PassFinds
  <2>7. CASE D!PullFails(dcurr') /\ D!Errs("failed") /\ UNCHANGED got
    <3>1. dphase' = "failed" /\ UNCHANGED got
      BY <2>7 DEF D!Errs
    <3>2. dseed = seed /\ HeaderFaithful => pos = Len(out)
      BY <2>6, <2>7
    <3> QED
      BY <2>1, <2>5, <3>1, <3>2
  <2>8. ASSUME NEW bytes \in D!Accepted(dcurr'), D!PullOk(dcurr', bytes)
        PROVE  /\ pos + 1 \in 1 .. Len(out) /\ (pos + 1) - 1 = pos
               /\ TakenFor(bytes, pos + 1)
               /\ bytes \in Seq(Nat) /\ Len(bytes) \in Nat
               /\ pos' = pos + 1
               /\ dvec' \in [Slot -> Seq(Nat)]
               /\ dvec'[dcurr'] = bytes
               /\ dlz4' = DictOf(dcurr', bytes)
    <3>1. pos + 1 \in 1 .. Len(out) /\ TakenFor(bytes, pos + 1)
      BY <2>6
    <3>2. bytes \in Seq(Nat) /\ Len(bytes) \in Nat
      BY <3>1, TakenPlace
    <3>3. /\ dvec' = [dvec EXCEPT ![dcurr'] = bytes]
          /\ dlz4' = DictOf(dcurr', bytes)
          /\ pos' = pos + 1
      BY <2>8 DEF D!PullOk, D!Decompress, D!DictOf, DictOf
    <3>4. dvec' \in [Slot -> Seq(Nat)] /\ dvec'[dcurr'] = bytes
      BY <2>2, <3>2, <3>3 DEF Reading
    <3>5. (pos + 1) - 1 = pos
      BY <1>1
    <3> QED
      BY <3>1, <3>2, <3>3, <3>4, <3>5
  <2>9. ASSUME NEW bytes \in D!Accepted(dcurr'), D!PullOk(dcurr', bytes),
               n <= Len(bytes), D!Serve(bytes, 0, n)
        PROVE  /\ dphase' = "open" /\ Reading'
               /\ Len(got') = Len(got) + n /\ Len(got') <= next
               /\ n <= REGION_SIZE
    <3> DEFINE i == pos + 1
    <3>1. /\ i \in 1 .. Len(out) /\ i - 1 = pos /\ TakenFor(bytes, i)
          /\ pos' = i
          /\ dvec' \in [Slot -> Seq(Nat)]
          /\ dvec'[dcurr'] = bytes
          /\ dlz4' = DictOf(dcurr', bytes)
          /\ Len(bytes) \in Nat
      BY <2>8, <2>9
    <3>2. Len(got) = EndOf(out, i - 1, 0) + 0 /\ 0 + n <= Len(bytes)
      BY <1>1, <2>5, <2>9, <3>1
    <3> HIDE DEF i
    <3> QED
      BY <1>1, <2>1, <2>2, <2>9, <3>1, <3>2, ServeReads
  <2>10. ASSUME NEW bytes \in D!Accepted(dcurr'), D!PullOk(dcurr', bytes),
                n > Len(bytes)
         PROVE  ~HeaderFaithful
    <3> SUFFICES ASSUME HeaderFaithful PROVE FALSE
      OBVIOUS
    <3> DEFINE e == EndOf(out, pos + 1, 0)
    <3>1. /\ pos + 1 \in 1 .. Len(out) /\ (pos + 1) - 1 = pos
          /\ bytes = out[pos + 1].data
      BY <2>8, <2>10, FaithfulIsWhole DEF TakenFor
    <3>2. /\ e \in ends /\ Len(bytes) \in 1 .. REGION_SIZE
          /\ e = EndOf(out, (pos + 1) - 1, 0) + Len(bytes)
      BY <3>1, RegionPlace
    <3>3. e = Len(got) + Len(bytes)
      BY <2>5, <3>1, <3>2
    <3> HIDE DEF e
    <3>4. ~(Len(got) < e /\ e < Len(got) + n)
      BY <3>2 DEF WithinWrite
    <3> QED
      BY <1>1, <2>5, <2>10, <3>2, <3>3, <3>4, RegionAssumption
  <2>11. ASSUME NEW bytes \in D!Accepted(dcurr'), D!PullOk(dcurr', bytes),
                n > Len(bytes), D!Errs("failed"), UNCHANGED got
         PROVE  dphase' = "failed" /\ UNCHANGED got /\ ~HeaderFaithful
    BY <2>10, <2>11 DEF D!Errs
  <2>12. \/ D!PullFails(dcurr') /\ D!Errs("failed") /\ UNCHANGED got
         \/ \E bytes \in D!Accepted(dcurr') :
              /\ D!PullOk(dcurr', bytes)
              /\ \/ n <= Len(bytes) /\ D!Serve(bytes, 0, n)
                 \/ n > Len(bytes) /\ D!Errs("failed") /\ UNCHANGED got
    BY <1>5 DEF D!ReadPulls
  <2> QED
    BY <2>1, <2>7, <2>9, <2>11, <2>12
<1> QED
  BY <1>2, <1>3, <1>4, <1>5 DEF D!Read, D!ReadPanics, D!ReadPastEnd

(* A read is made of an open decoder.                                      *)
LEMMA ReadsOpen ==
  ASSUME ReadValue
  PROVE  /\ dphase = "open"
         /\ UNCHANGED vars
         /\ \E n \in ReadSizes : WithinWrite(n) /\ D!Read(n)
  BY DEF ReadValue, D!Read, D!ReadPanics, D!ReadPastEnd, D!ReadServed,
         D!ReadPulls, D!ReadAstray, D!CanRead

LEMMA DecodingInit == PipeInit => Decoding
<1> SUFFICES ASSUME PipeInit PROVE Decoding
  OBVIOUS
<1>1. \E raw \in {D!FreshBuffer} :
        dvec = raw.vec /\ dcurr = raw.curr /\ cursor = raw.cursor
  BY DEF PipeInit, D!InitDecoder
<1>2. dvec = [s \in Slot |-> << >>] /\ dcurr = 1 /\ cursor = 0
  BY <1>1 DEF D!FreshBuffer, Slot, D!Slot
<1>3. dvec \in [Slot -> Seq(Nat)] /\ dcurr \in Slot
  BY <1>2 DEF Slot
<1>4. /\ dphase = "new" /\ dlz4 = NoDict /\ pos = 0 /\ got = << >>
      /\ dseed \in Seeds
  BY DEF PipeInit, D!InitDecoder, NoDict, D!NoDict
<1> QED
  BY <1>2, <1>3, <1>4 DEF Decoding, Unbuilt

LEMMA DecodingNext == Source /\ Decoding /\ [PipeNext]_pipeVars => Decoding'
<1> SUFFICES ASSUME Source, Decoding, [PipeNext]_pipeVars PROVE Decoding'
  OBVIOUS
<1>1. CASE WriteValue \/ FlushAll
  BY <1>1, EncoderStep DEF Decoding, Unbuilt, decoderVars
<1>2. CASE BuildDecoder
  <2>1. Unbuilt
    BY <1>2 DEF BuildDecoder, D!Build, Decoding
  <2> QED
    BY <1>2, <2>1, BuildStep DEF Decoding
<1>3. CASE ReadValue
  <2>1. Reading
    BY <1>3, ReadsOpen DEF Decoding
  <2> QED
    BY <1>3, <2>1, ReadsOpen, ReadStep DEF Decoding
<1>4. CASE UNCHANGED pipeVars
  BY <1>4 DEF Decoding, Unbuilt, Reading, TakenFor, D!CutOff, pipeVars,
              vars, decoderVars
<1> QED
  BY <1>1, <1>2, <1>3, <1>4 DEF PipeNext

LEMMA DecodingInvariant == SafePipe => [](Source /\ Decoding)
  BY SourceInvariant, DecodingInit, DecodingNext, PTL DEF SafePipe

-----------------------------------------------------------------------------
(* Two runs from the start of the stream are the same run if they have the *)
(* same length, and a longer one continues a shorter one.                  *)
LEMMA RunsFromStart ==
  ASSUME NEW s \in Seq(Nat), Follows(s, 0), NEW m \in Nat
  PROVE  /\ s = [i \in 1 .. Len(s) |-> i]
         /\ m = Len(s) => s = [i \in 1 .. m |-> i]
  BY DEF Follows

LEMMA RunGrows ==
  ASSUME NEW m \in Nat, NEW k \in Nat
  PROVE  [i \in 1 .. m + k |-> i]
           = [i \in 1 .. m |-> i] \o [i \in 1 .. k |-> m + i]
<1> DEFINE a == [i \in 1 .. m |-> i]
           b == [i \in 1 .. k |-> m + i]
<1>1. a \in Seq(Nat) /\ b \in Seq(Nat) /\ Len(a) = m /\ Len(b) = k
  OBVIOUS
<1>2. Follows(a, 0) /\ Follows(b, 0 + Len(a))
  BY <1>1 DEF Follows
<1> HIDE DEF a, b
<1>3. a \o b \in Seq(Nat) /\ Len(a \o b) = m + k /\ Follows(a \o b, 0)
  BY <1>1, <1>2, FollowsConcat
<1>4. a \o b = [i \in 1 .. m + k |-> i]
  BY <1>3, RunsFromStart
<1> QED
  BY <1>4 DEF a, b

LEMMA PieceOfRun ==
  ASSUME NEW m \in Nat, NEW from \in Nat, NEW n \in Nat, from + n <= m
  PROVE  SubSeq([i \in 1 .. m |-> i], from + 1, from + n)
           = [i \in 1 .. n |-> from + i]
  OBVIOUS

(* The encoder accepts the bytes of a write, or none.                      *)
LEMMA PutStep ==
  ASSUME Source, WriteValue \/ FlushAll
  PROVE  \/ UNCHANGED <<next, got, dphase>>
         \/ \E k \in 1 .. REGION_SIZE : \E bytes \in [1 .. k -> 1 .. MaxBytes] :
              Fifo!Put(bytes)
<1>1. dphase = "new" /\ UNCHANGED <<got, dphase>>
  BY EncoderStep DEF decoderVars
<1>2. next \in Nat /\ MaxBytes \in Nat
  BY EncoderAssumption DEF Source, TypeOK
<1>3. ASSUME NEW k \in Nat, k <= REGION_SIZE, next + k <= MaxBytes,
             next' = next + k
      PROVE  \/ UNCHANGED next
             \/ \E n \in 1 .. REGION_SIZE :
                  \E bytes \in [1 .. n -> 1 .. MaxBytes] : Fifo!Put(bytes)
  <2>1. CASE k = 0
    BY <1>2, <1>3, <2>1
  <2>2. CASE k # 0
    <3>1. k \in 1 .. REGION_SIZE
      BY <1>3, <2>2, RegionAssumption
    <3>2. Chunk(k) \in [1 .. k -> 1 .. MaxBytes]
      BY <1>2, <1>3 DEF Chunk
    <3>3. Written' = Written \o Chunk(k)
      BY <1>2, <1>3, RunGrows DEF Written, Chunk
    <3>4. Fifo!Put(Chunk(k))
      BY <1>1, <3>3 DEF Fifo!Put
    <3> QED
      BY <3>1, <3>2, <3>4
  <2> QED
    BY <2>1, <2>2
<1>4. ASSUME NEW k \in Chunks, Write(k)
      PROVE  \/ UNCHANGED next
             \/ /\ k \in Nat /\ k <= REGION_SIZE
                /\ next + k <= MaxBytes /\ next' = next + k
  BY <1>4, EncoderAssumption
  DEF Write, WriteOversized, WritePanics, WriteFits, WriteSwitches, Extend
<1>5. ASSUME FlushCall PROVE UNCHANGED next
  BY <1>5 DEF FlushCall, FlushEmpty, Flush
<1> QED
  BY <1>1, <1>3, <1>4, <1>5 DEF WriteValue, FlushAll

LEMMA TakeStep ==
  ASSUME Source, Reading, ReadValue
  PROVE  \/ UNCHANGED <<next, got>> /\ dphase' # "new"
         \/ \E n \in 1 .. REGION_SIZE : Fifo!Take(n)
<1>1. PICK n \in ReadSizes : WithinWrite(n) /\ D!Read(n)
  BY ReadsOpen
<1>2. dphase = "open" /\ UNCHANGED vars /\ UNCHANGED next
  BY ReadsOpen DEF vars
<1>3. CASE dphase' \in {"failed", "astray"}
  BY <1>1, <1>2, <1>3, ReadStep
<1>4. CASE dphase' = "open"
  <2>1. /\ got \in Seq(Nat) /\ Follows(got, 0)
        /\ got' \in Seq(Nat) /\ Follows(got', 0)
        /\ Len(got') = Len(got) + n /\ Len(got') <= next
        /\ n \in Nat /\ n <= REGION_SIZE /\ Len(got) \in Nat
    BY <1>1, <1>2, <1>4, ReadStep, PipeAssumption DEF Reading
  <2>2. next \in Nat
    BY DEF Source, TypeOK
  <2>3. got' = [i \in 1 .. Len(got) + n |-> i] /\ got = [i \in 1 .. Len(got) |-> i]
    BY <2>1, RunsFromStart
  <2>4. CASE n = 0
    BY <1>2, <1>4, <2>1, <2>3, <2>4
  <2>5. CASE n # 0
    <3>1. n \in 1 .. REGION_SIZE
      BY <2>1, <2>5, RegionAssumption
    <3>2. Len(Written) = next
      BY <2>2 DEF Written
    <3>3. SubSeq(Written, Len(got) + 1, Len(got) + n)
            = [i \in 1 .. n |-> Len(got) + i]
      BY <2>1, <2>2, PieceOfRun DEF Written
    <3>4. got' = got \o SubSeq(Written, Len(got) + 1, Len(got) + n)
      BY <2>1, <2>3, <3>3, RunGrows
    <3>5. Fifo!Take(n)
      BY <1>2, <1>4, <2>1, <3>2, <3>4 DEF Fifo!Take, Written
    <3> QED
      BY <3>1, <3>5
  <2> QED
    BY <2>4, <2>5
<1> QED
  BY <1>1, <1>2, <1>3, <1>4, ReadStep

(* An encoder and a decoder together are the abstract store of bytes,      *)
(* whatever the Writer answers, wherever the encoding program stops,       *)
(* whichever seed the decoder has.                                         *)
THEOREM PipeIsFifo == SafePipe => IsFifo
<1>1. PipeInit => Fifo!Init
  BY DEF PipeInit, Init, D!InitDecoder, Fifo!Init, Written
<1>2. Source /\ Decoding /\ [PipeNext]_pipeVars => [Fifo!Next]_(Fifo!vars)
  <2> SUFFICES ASSUME Source, Decoding, [PipeNext]_pipeVars
               PROVE  [Fifo!Next]_(Fifo!vars)
    OBVIOUS
  <2>1. CASE WriteValue \/ FlushAll
    BY <2>1, PutStep DEF Fifo!Next, Fifo!vars, Written
  <2>2. CASE BuildDecoder
    <3>1. Unbuilt
      BY <2>2 DEF BuildDecoder, D!Build, Decoding
    <3>2. Fifo!Seal
      BY <2>2, <3>1, BuildStep DEF Fifo!Seal, Written, vars
    <3> QED
      BY <3>2 DEF Fifo!Next
  <2>3. CASE ReadValue
    <3>1. Reading /\ dphase = "open"
      BY <2>3, ReadsOpen DEF Decoding
    <3> QED
      BY <2>3, <3>1, TakeStep DEF Fifo!Next, Fifo!vars, Written
  <2>4. CASE UNCHANGED pipeVars
    BY <2>4 DEF pipeVars, vars, decoderVars, Fifo!vars, Written
  <2> QED
    BY <2>1, <2>2, <2>3, <2>4 DEF PipeNext
<1> QED
  BY <1>1, <1>2, DecodingInvariant, PTL DEF SafePipe, IsFifo, Fifo!Spec

-----------------------------------------------------------------------------
LEMMA NeverFailNext ==
  Source /\ Decoding /\ ReadsNeverFail /\ [PipeNext]_pipeVars
    => ReadsNeverFail'
<1> SUFFICES ASSUME Source, Decoding, ReadsNeverFail, [PipeNext]_pipeVars
             PROVE  ReadsNeverFail'
  OBVIOUS
(* A stream that is flushed is in its regions to the last byte.            *)
<1>1. Intact => EndOf(out, Len(out), 0) = next
  BY DEF Intact, Source, Framed, FlushedMeansEmitted
<1>2. CASE WriteValue \/ FlushAll
  BY <1>2, EncoderStep DEF ReadsNeverFail, decoderVars
<1>3. CASE BuildDecoder
  <2>1. /\ dphase' \in {"open", "dead"}
        /\ UNCHANGED <<vars, dseed>>
        /\ dphase' = "dead" /\ dseed = seed /\ HeaderFaithful => Len(out) = 0
    BY <1>3, BuildStep DEF BuildDecoder, D!Build, Decoding
  <2>2. Intact' <=> Intact
    BY <2>1 DEF Intact, HeaderFaithful, vars
  <2>3. dphase' = "dead" /\ Intact => next' = 0
    BY <1>1, <2>1 DEF Intact, EndOf, vars
  <2> QED
    BY <2>1, <2>2, <2>3 DEF ReadsNeverFail
<1>4. CASE ReadValue
  <2>1. Reading /\ UNCHANGED vars
    BY <1>4, ReadsOpen DEF Decoding
  <2>2. /\ dphase' \in {"open", "failed", "astray"}
        /\ UNCHANGED dseed
        /\ dphase' # "open" => UNCHANGED got
        /\ dphase' = "failed" /\ dseed = seed /\ HeaderFaithful
             => Len(got) = EndOf(out, Len(out), 0)
        /\ dphase' = "astray"
             => seed = NoSeed /\ dseed = NoSeed /\ ~HeaderFaithful
    BY <1>4, <2>1, ReadsOpen, ReadStep
  <2>3. ASSUME dphase' = "failed", Intact PROVE got' = Written'
    <3>1. got \in Seq(Nat) /\ Follows(got, 0) /\ Len(got) = next
      BY <1>1, <2>1, <2>2, <2>3 DEF Reading, Intact
    <3>2. next \in Nat
      BY DEF Source, TypeOK
    <3>3. got = Written
      BY <3>1, <3>2, RunsFromStart DEF Written
    <3> QED
      BY <2>1, <2>2, <2>3, <3>3 DEF Written, vars
  <2>4. /\ Intact' <=> Intact
        /\ HeaderFaithful' <=> HeaderFaithful
        /\ UNCHANGED <<seed, dseed>>
    BY <2>1, <2>2 DEF Intact, HeaderFaithful, vars
  <2>5. dphase' = "astray" => ~Intact
    BY <2>2 DEF Intact
  <2> QED
    BY <2>2, <2>3, <2>4, <2>5 DEF ReadsNeverFail
<1>5. CASE UNCHANGED pipeVars
  BY <1>5
  DEF ReadsNeverFail, Intact, HeaderFaithful, Written, pipeVars, vars,
      decoderVars
<1> QED
  BY <1>2, <1>3, <1>4, <1>5 DEF PipeNext

(* What was flushed is read back with the same seed, along the pieces in   *)
(* which it was written, without an error before its end, if no region has *)
(* a length that its header cuts off; and without that, a decoder that     *)
(* goes astray has no hashes to look at.                                   *)
THEOREM FlushedReadsBack == SafePipe => []ReadsNeverFail
<1>1. PipeInit => ReadsNeverFail
  BY DEF PipeInit, D!InitDecoder, ReadsNeverFail
<1> QED
  BY <1>1, NeverFailNext, DecodingInvariant, PTL DEF SafePipe

(* When LZ4 makes no block too long for a header, a flushed stream is read *)
(* back with the same seed, whatever it holds.                             *)
THEOREM CompressibleReadsBack ==
  ASSUME Compressible
  PROVE  SafePipe =>
           [](phase = "flushed" /\ dseed = seed =>
                /\ dphase \in {"new", "open", "failed", "dead"}
                /\ dphase = "failed" => got = Written
                /\ dphase = "dead" => next = 0)
<1>1. Spec => []HeaderFaithful
  BY PipeCaller, HeadersFaithful
<1>2. HeaderFaithful /\ ReadsNeverFail
        => (phase = "flushed" /\ dseed = seed =>
              /\ dphase \in {"new", "open", "failed", "dead"}
              /\ dphase = "failed" => got = Written
              /\ dphase = "dead" => next = 0)
  BY DEF ReadsNeverFail, Intact
<1> QED
  BY <1>1, <1>2, PipeEncodes, FlushedReadsBack, PTL
=============================================================================
