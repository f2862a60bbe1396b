------------------------- MODULE StreamEncoderProofs -------------------------
(***************************************************************************)
(* Proofs about StreamEncoder for every region size, every write, every    *)
(* answer of the Writer and, where it is said, every caller.               *)
(***************************************************************************)
EXTENDS StreamEncoder, RegionProofs

(* `as u16` yields a natural number, and changes nothing that is in range. *)
LEMMA AsU16Range ==
  ASSUME NEW n \in Nat
  PROVE  /\ AsU16(n) \in Nat
         /\ n < U16 => AsU16(n) = n
  BY RegionAssumption DEF AsU16

(* Two runs of positions that adjoin make one run.                         *)
LEMMA FollowsConcat ==
  ASSUME NEW s \in Seq(Nat), NEW t \in Seq(Nat), NEW from \in Nat
  PROVE  /\ s \o t \in Seq(Nat)
         /\ Len(s \o t) = Len(s) + Len(t)
         /\ Follows(s, from) /\ Follows(t, from + Len(s))
              => Follows(s \o t, from)
<1>1. s \o t \in Seq(Nat) /\ Len(s \o t) = Len(s) + Len(t)
  OBVIOUS
<1>2. ASSUME Follows(s, from), Follows(t, from + Len(s)),
             NEW i \in 1 .. Len(s \o t)
      PROVE  (s \o t)[i] = from + i
  <2>1. CASE i <= Len(s)
    BY <1>1, <1>2, <2>1 DEF Follows
  <2>2. CASE i > Len(s)
    <3>1. (s \o t)[i] = t[i - Len(s)] /\ i - Len(s) \in 1 .. Len(t)
      BY <1>1, <1>2, <2>2
    <3> QED
      BY <1>2, <3>1 DEF Follows
  <2> QED
    BY <2>1, <2>2
<1> QED
  BY <1>1, <1>2 DEF Follows

(* The last of a run, and that all of it comes after `from`.               *)
LEMMA FollowsLast ==
  ASSUME NEW s \in Seq(Nat), s # << >>, NEW from \in Nat, Follows(s, from)
  PROVE  /\ Len(s) \in Nat \ {0}
         /\ s[Len(s)] = from + Len(s)
         /\ \A j \in 1 .. Len(s) : s[j] > from
<1>1. Len(s) \in Nat \ {0}
  OBVIOUS
<1> QED
  BY <1>1 DEF Follows

(* The bytes of a write follow the bytes accepted before it.               *)
LEMMA ChunkFollows ==
  ASSUME NEW k \in Nat, next \in Nat
  PROVE  /\ Chunk(k) \in Seq(Nat)
         /\ Len(Chunk(k)) = k
         /\ Follows(Chunk(k), next)
  BY DEF Chunk, Follows

(* A region that is made of a buffer has the type of a region.             *)
LEMMA RegionType ==
  ASSUME TypeOK, NEW c \in CompressedSizes
  PROVE  RegionOf(c) \in Regions
<1>1. c \in Nat
  BY EncoderAssumption
<1>2. vec[curr] \in Seq(Nat) /\ Len(vec[curr]) \in Nat
  BY DEF TypeOK, Slot
<1>3. AsU16(c) \in Nat /\ AsU16(Len(vec[curr])) \in Nat
  BY <1>1, <1>2, AsU16Range
<1>4. HashOf(seed, vec[curr]) \in Hashes
  BY <1>2, EncoderAssumption DEF TypeOK, HashOf, ZeroHash, Hashes
<1> QED
  BY <1>1, <1>2, <1>3, <1>4
  DEF TypeOK, LZ4Context, RegionOf, EncodedRegion, Header, Regions

-----------------------------------------------------------------------------
LEMMA TypeInit == Init => TypeOK
<1> SUFFICES ASSUME Init PROVE TypeOK
  OBVIOUS
<1>1. RawBuffers \cup {FreshBuffer} \subseteq
        [vec : [Slot -> Seq(Nat)], curr : Slot]
  <2>1. RawBuffers \subseteq [vec : [Slot -> Seq(Nat)], curr : Slot]
    BY EncoderAssumption
  <2>2. FreshBuffer \in [vec : [Slot -> Seq(Nat)], curr : Slot]
    BY DEF FreshBuffer, Slot
  <2> QED
    BY <2>1, <2>2
<1>2. vec \in [Slot -> Seq(Nat)] /\ curr \in Slot
  BY <1>1 DEF Init
<1>3. lz4 \in LZ4Context
  BY DEF Init, NoDict, LZ4Context, Slot
<1> QED
  BY <1>2, <1>3 DEF Init, TypeOK, Phases

LEMMA EmitType ==
  ASSUME TypeOK, NEW c, Emit(c)
  PROVE  /\ out' \in Seq(Regions)
         /\ Emptied \in [Slot -> Seq(Nat)]
         /\ CompressedDict \in LZ4Context
<1>1. out' \in Seq(Regions)
  BY RegionType DEF TypeOK, Emit
<1>2. Emptied \in [Slot -> Seq(Nat)]
  BY DEF TypeOK, Emptied
<1>3. CompressedDict \in LZ4Context
  BY DEF TypeOK, CompressedDict, DictOf, LZ4Context, Slot
<1> QED
  BY <1>1, <1>2, <1>3

LEMMA ExtendType ==
  ASSUME TypeOK, NEW k \in Nat, NEW slot \in Slot,
         NEW contents \in [Slot -> Seq(Nat)], NEW context \in LZ4Context,
         Extend(slot, k, contents, context)
  PROVE  /\ vec' \in [Slot -> Seq(Nat)]
         /\ lz4' \in LZ4Context
         /\ next' \in Nat
         /\ base \in 0 .. next'
         /\ ends' \subseteq 0 .. next'
<1>1. vec' \in [Slot -> Seq(Nat)]
  BY ChunkFollows DEF TypeOK, Extend
<1>2. lz4' \in LZ4Context
  BY DEF Extend, Touch, LZ4Context
<1> QED
  BY <1>1, <1>2 DEF TypeOK, Extend

LEMMA PassFailsType ==
  ASSUME TypeOK, NEW w, NEW c, PassFails(w, c)
  PROVE  /\ vec' \in [Slot -> Seq(Nat)]
         /\ lz4' \in LZ4Context
         /\ out' \in Seq(Regions)
         /\ phase' \in Phases
<1>1. CASE PassRefused(w)
  BY <1>1 DEF TypeOK, PassRefused, Phases
<1>2. CASE PassUnflushed(w, c)
  BY <1>2, EmitType DEF PassUnflushed, Phases
<1> QED
  BY <1>1, <1>2 DEF PassFails

LEMMA TypeNext == TypeOK /\ [Next]_vars => TypeOK'
<1> SUFFICES ASSUME TypeOK, [Next]_vars PROVE TypeOK'
  OBVIOUS
<1>1. ASSUME NEW k \in Chunks, WriteOversized(k) PROVE TypeOK'
  BY <1>1 DEF TypeOK, WriteOversized, Phases
<1>2. ASSUME NEW k \in Chunks, WritePanics(k) PROVE TypeOK'
  BY <1>2 DEF TypeOK, WritePanics, Phases
<1>3. ASSUME NEW k \in Chunks, WriteFits(k) PROVE TypeOK'
  <2>1. k \in Nat
    BY EncoderAssumption
  <2>2. Extend(curr, k, vec, lz4)
    BY <1>3 DEF WriteFits
  <2> QED
    BY <1>3, <2>1, <2>2, ExtendType DEF TypeOK, WriteFits, Phases
<1>4. ASSUME NEW k \in Chunks, NEW w \in WriterResults,
             NEW c \in CompressedSizes, WriteSwitches(k, w, c)
      PROVE  TypeOK'
  <2>1. k \in Nat
    BY EncoderAssumption
  <2>2. CASE /\ Emit(c)
             /\ curr' = Swapped(curr)
             /\ Extend(curr', k, Emptied, CompressedDict)
             /\ phase' = "open"
    <3>1. curr' \in Slot
      BY <2>2 DEF TypeOK, Swapped, Slot
    <3> QED
      BY <1>4, <2>1, <2>2, <3>1, EmitType, ExtendType
      DEF TypeOK, WriteSwitches, Phases
  <2>3. CASE PassFails(w, c) /\ UNCHANGED <<curr, next, ends>>
    BY <1>4, <2>3, PassFailsType DEF TypeOK, WriteSwitches
  <2> QED
    BY <1>4, <2>2, <2>3 DEF WriteSwitches
<1>5. ASSUME NEW w \in WriterResults, NEW c \in CompressedSizes, Flush(w, c)
      PROVE  TypeOK'
  <2>1. CASE Emit(c) /\ vec' = Emptied /\ lz4' = CompressedDict
             /\ phase' = "flushed"
    BY <1>5, <2>1, EmitType DEF TypeOK, Flush, Phases
  <2>2. CASE PassFails(w, c)
    BY <1>5, <2>2, PassFailsType DEF TypeOK, Flush
  <2> QED
    BY <1>5, <2>1, <2>2 DEF Flush
<1>6. ASSUME FlushEmpty PROVE TypeOK'
  BY <1>6 DEF TypeOK, FlushEmpty, Phases
<1>7. ASSUME NEW s \in Seeds, Reuse(s) PROVE TypeOK'
  BY <1>7 DEF TypeOK, Reuse, NoDict, LZ4Context, Slot, Phases
<1>8. CASE UNCHANGED vars
  BY <1>8 DEF TypeOK, vars
<1> QED
  BY <1>1, <1>2, <1>3, <1>4, <1>5, <1>6, <1>7, <1>8
  DEF Next, Write, FlushCall

(* The type invariant of the encoder, for every caller and every Writer.   *)
THEOREM Typing == Spec => []TypeOK
<1> QED
  BY TypeInit, TypeNext, PTL DEF Spec

-----------------------------------------------------------------------------
(* Nothing taken over from a bearer that left bytes behind.                *)
CleanBuffers == RawBuffers = {}

(* Unless it was taken over full, the buffer that is not `curr` is empty:  *)
(* a swap comes only after a pass has emptied the buffer it puts aside.    *)
Prev == Swapped(curr)
Bounded ==
  /\ vec[Prev] = << >>
  /\ Len(vec[curr]) <= REGION_SIZE

LEMMA BoundedInit == ASSUME CleanBuffers PROVE Init => Bounded
  BY RegionAssumption
  DEF CleanBuffers, Init, FreshBuffer, Bounded, Prev, Swapped, Slot

(* A pass, whatever its outcome, leaves the buffers where they are, and    *)
(* the current one as it was or empty.                                     *)
LEMMA PassFailsBounded ==
  ASSUME TypeOK, Bounded, NEW w, NEW c, PassFails(w, c), UNCHANGED curr
  PROVE  Bounded'
<1>1. CASE PassRefused(w)
  BY <1>1 DEF PassRefused, Bounded, Prev, Swapped
<1>2. CASE PassUnflushed(w, c)
  BY <1>2, RegionAssumption
  DEF TypeOK, PassUnflushed, Emptied, Bounded, Prev, Swapped, Slot
<1> QED
  BY <1>1, <1>2 DEF PassFails

LEMMA BoundedNext == TypeOK /\ Bounded /\ [Next]_vars => Bounded'
<1> SUFFICES ASSUME TypeOK, Bounded, [Next]_vars PROVE Bounded'
  OBVIOUS
<1>1. ASSUME NEW k \in Chunks, WriteOversized(k) PROVE Bounded'
  BY <1>1 DEF Bounded, Prev, WriteOversized
<1>2. ASSUME NEW k \in Chunks, WritePanics(k) PROVE Bounded'
  BY <1>2 DEF Bounded, Prev, WritePanics
<1>3. ASSUME NEW k \in Chunks, WriteFits(k) PROVE Bounded'
  <2>1. k \in Nat /\ Chunk(k) \in Seq(Nat) /\ Len(Chunk(k)) = k
    BY EncoderAssumption, ChunkFollows DEF TypeOK
  <2>2. vec' = [vec EXCEPT ![curr] = @ \o Chunk(k)] /\ curr' = curr
    BY <1>3 DEF WriteFits, Extend
  <2>3. Len(vec[curr]) + k <= REGION_SIZE
    BY <1>3, <2>1, RegionAssumption
    DEF WriteFits, NeedsPass, CapOverflows, RemainingCap, Bounded, TypeOK, Slot
  <2>4. Len(vec'[curr]) = Len(vec[curr]) + k
    <3>1. vec'[curr] = vec[curr] \o Chunk(k) /\ vec[curr] \in Seq(Nat)
      BY <2>2 DEF TypeOK
    <3>2. Len(vec[curr] \o Chunk(k)) = Len(vec[curr]) + Len(Chunk(k))
      BY <2>1, <3>1, FollowsConcat, 0 \in Nat
    <3> QED
      BY <2>1, <3>1, <3>2
  <2>5. vec'[Prev] = << >>
    BY <2>2 DEF Bounded, Prev, Swapped, TypeOK, Slot
  <2> QED
    BY <2>2, <2>3, <2>4, <2>5 DEF Bounded, Prev
<1>4. ASSUME NEW k \in Chunks, NEW w \in WriterResults,
             NEW c \in CompressedSizes, WriteSwitches(k, w, c)
      PROVE  Bounded'
  <2>1. k \in Nat /\ Chunk(k) \in Seq(Nat) /\ Len(Chunk(k)) = k
    BY EncoderAssumption, ChunkFollows DEF TypeOK
  <2>2. CASE /\ curr' = Swapped(curr)
             /\ Extend(curr', k, Emptied, CompressedDict)
    <3>1. vec' = [Emptied EXCEPT ![Swapped(curr)] = @ \o Chunk(k)]
      BY <2>2 DEF Extend
    <3>2. vec'[curr] = << >> /\ vec'[Swapped(curr)] = << >> \o Chunk(k)
      <4>1. /\ Swapped(curr) \in Slot
            /\ curr \in Slot
            /\ Swapped(curr) # curr
        BY DEF Swapped, TypeOK, Slot
      <4>2. /\ Emptied \in [Slot -> Seq(Nat)]
            /\ Emptied[curr] = << >>
            /\ Emptied[Swapped(curr)] = << >>
        BY <4>1 DEF Emptied, Bounded, Prev, TypeOK
      <4> QED
        BY <3>1, <4>1, <4>2
    <3>3. Len(vec'[Swapped(curr)]) = k
      BY <2>1, <3>2
    <3>4. Swapped(Swapped(curr)) = curr
      BY DEF Swapped, TypeOK, Slot
    <3>5. curr' = Swapped(curr) /\ k <= REGION_SIZE
      BY <1>4, <2>2 DEF WriteSwitches
    <3>6. Prev' = curr
      BY <3>4, <3>5 DEF Prev
    <3> QED
      BY <3>2, <3>3, <3>5, <3>6 DEF Bounded
  <2>3. CASE PassFails(w, c) /\ UNCHANGED <<curr, next, ends>>
    BY <2>3, PassFailsBounded
  <2> QED
    BY <1>4, <2>2, <2>3 DEF WriteSwitches
<1>5. ASSUME NEW w \in WriterResults, NEW c \in CompressedSizes, Flush(w, c)
      PROVE  Bounded'
  <2>1. CASE vec' = Emptied
    BY <1>5, <2>1, RegionAssumption
    DEF TypeOK, Flush, Emptied, Bounded, Prev, Swapped, Slot
  <2>2. CASE PassFails(w, c)
    BY <1>5, <2>2, PassFailsBounded DEF Flush
  <2> QED
    BY <1>5, <2>1, <2>2 DEF Flush
<1>6. ASSUME FlushEmpty PROVE Bounded'
  BY <1>6 DEF Bounded, Prev, FlushEmpty
<1>7. ASSUME NEW s \in Seeds, Reuse(s) PROVE Bounded'
  BY <1>7 DEF Bounded, Prev, Reuse
<1>8. CASE UNCHANGED vars
  BY <1>8 DEF Bounded, Prev, vars
<1> QED
  BY <1>1, <1>2, <1>3, <1>4, <1>5, <1>6, <1>7, <1>8
  DEF Next, Write, FlushCall

(* With a buffer of its own, or one taken over empty, the capacity that    *)
(* RegionBuffer computes never underflows, whatever the caller does and    *)
(* the Writer answers.                                                     *)
THEOREM NeverOverfull == ASSUME CleanBuffers PROVE Spec => []BufferBounded
<1>1. TypeOK /\ Bounded => BufferBounded
  BY RegionAssumption DEF TypeOK, Bounded, BufferBounded, Prev, Swapped, Slot
<1> QED
  BY <1>1, TypeInit, TypeNext, BoundedInit, BoundedNext, PTL DEF Spec

-----------------------------------------------------------------------------
(* What InOrder and WholeWrites say of the regions.                        *)
Placed(regions, b) ==
  \A i \in 1 .. Len(regions) :
    /\ regions[i].data # << >>
    /\ Follows(regions[i].data, EndOf(regions, i - 1, b))
Whole(regions, b, es) ==
  \A i \in 1 .. Len(regions) : EndOf(regions, i, b) \in es
Streamed(regions, b, es) ==
  Placed(regions, b) /\ Whole(regions, b, es)

(* A region that is appended changes no end of those before it.            *)
LEMMA EndOfAppend ==
  ASSUME NEW regions \in Seq(Regions), NEW r \in Regions, NEW b \in Nat
  PROVE  /\ \A i \in 0 .. Len(regions) :
              EndOf(Append(regions, r), i, b) = EndOf(regions, i, b)
         /\ EndOf(Append(regions, r), Len(regions) + 1, b)
              = r.data[Len(r.data)]
         /\ Len(Append(regions, r)) = Len(regions) + 1
  BY DEF EndOf

(* A region of the bytes that follow, up to the end of a write, extends    *)
(* the stream.                                                             *)
LEMMA StreamedAppend ==
  ASSUME NEW regions \in Seq(Regions), NEW r \in Regions, NEW b \in Nat,
         NEW es, NEW from \in Nat, from >= b,
         Streamed(regions, b, es), from = EndOf(regions, Len(regions), b),
         r.data # << >>, Follows(r.data, from), from + Len(r.data) \in es
  PROVE  /\ Streamed(Append(regions, r), b, es)
         /\ EndOf(Append(regions, r), Len(regions) + 1, b)
              = from + Len(r.data)
<1> DEFINE more == Append(regions, r)
<1>1. r.data \in Seq(Nat)
  BY DEF Regions
<1>2. /\ Len(more) = Len(regions) + 1
      /\ more[Len(regions) + 1] = r
      /\ \A i \in 1 .. Len(regions) : more[i] = regions[i]
  OBVIOUS
<1>3. EndOf(more, Len(regions) + 1, b) = from + Len(r.data)
  BY <1>1, EndOfAppend, FollowsLast
<1>4. ASSUME NEW i \in 1 .. Len(more)
      PROVE  /\ more[i].data # << >>
             /\ Follows(more[i].data, EndOf(more, i - 1, b))
             /\ EndOf(more, i, b) \in es
  <2>1. CASE i \in 1 .. Len(regions)
    <3>1. /\ EndOf(more, i - 1, b) = EndOf(regions, i - 1, b)
          /\ EndOf(more, i, b) = EndOf(regions, i, b)
      BY <2>1, EndOfAppend
    <3> QED
      BY <1>2, <2>1, <3>1 DEF Streamed, Placed, Whole
  <2>2. CASE i = Len(regions) + 1
    <3>1. EndOf(more, i - 1, b) = from
      BY <2>2, EndOfAppend
    <3> QED
      BY <1>2, <1>3, <2>2, <3>1
  <2> QED
    BY <1>2, <2>1, <2>2
<1> QED
  BY <1>3, <1>4 DEF Streamed, Placed, Whole

(* Writes that are accepted later only add ends.                           *)
LEMMA StreamedMore ==
  ASSUME NEW regions, NEW b, NEW es, NEW more,
         Streamed(regions, b, es), es \subseteq more
  PROVE  Streamed(regions, b, more)
  BY DEF Streamed, Placed, Whole

-----------------------------------------------------------------------------
(* A caller that does not give up a buffer with bytes in it.               *)
CarefulReuse == CleanBuffers /\ "reuse_unflushed" \notin Caller

EmittedEnd == EndOf(out, Len(out), base)

Streaming ==
  /\ Streamed(out, base, ends)
  /\ next \in ends
  /\ EmittedEnd \in Nat /\ EmittedEnd >= base
  /\ Follows(vec[curr], EmittedEnd)
  /\ EmittedEnd + Len(vec[curr]) = next
  /\ phase = "flushed" => vec[curr] = << >>

LEMMA StreamingInit == ASSUME CarefulReuse PROVE Init => Streaming
  BY DEF CarefulReuse, CleanBuffers, Init, FreshBuffer, Slot, Streaming,
         Streamed, Placed, Whole, EmittedEnd, EndOf, Follows

(* A pass that emits moves the bytes of the current buffer to the          *)
(* destination, which then holds all that was accepted.                    *)
LEMMA EmitStreams ==
  ASSUME TypeOK, Streaming, vec[curr] # << >>, NEW c \in CompressedSizes,
         Emit(c)
  PROVE  /\ Streamed(out', base, ends)
         /\ EndOf(out', Len(out'), base) = next
<1>1. /\ RegionOf(c) \in Regions
      /\ out' = Append(out, RegionOf(c))
      /\ RegionOf(c).data = vec[curr]
  BY RegionType DEF Emit, RegionOf, EncodedRegion
<1>2. out \in Seq(Regions) /\ base \in Nat /\ Len(out') = Len(out) + 1
  BY <1>1 DEF TypeOK
<1> QED
  BY <1>1, <1>2, StreamedAppend DEF Streaming, EmittedEnd

LEMMA PassFailsStreams ==
  ASSUME TypeOK, Streaming, vec[curr] # << >>, NEW w,
         NEW c \in CompressedSizes, PassFails(w, c),
         UNCHANGED <<curr, next, base, ends>>
  PROVE  Streaming'
<1>1. CASE PassRefused(w)
  BY <1>1 DEF PassRefused, Streaming, EmittedEnd
<1>2. CASE PassUnflushed(w, c)
  <2>1. vec'[curr'] = << >>
    BY <1>2 DEF TypeOK, PassUnflushed, Emptied
  <2>2. Streamed(out', base, ends) /\ EndOf(out', Len(out'), base) = next
    BY <1>2, EmitStreams DEF PassUnflushed
  <2> QED
    BY <1>2, <2>1, <2>2 DEF TypeOK, Streaming, EmittedEnd, Follows
<1> QED
  BY <1>1, <1>2 DEF PassFails

(* Bytes appended to a buffer that ends at `next` follow the stream.       *)
LEMMA ExtendStreams ==
  ASSUME TypeOK, NEW k \in Nat, NEW v \in Seq(Nat), NEW from \in Nat,
         Follows(v, from), from + Len(v) = next
  PROVE  /\ Follows(v \o Chunk(k), from)
         /\ from + Len(v \o Chunk(k)) = next + k
<1>1. Chunk(k) \in Seq(Nat) /\ Len(Chunk(k)) = k /\ Follows(Chunk(k), next)
  BY ChunkFollows DEF TypeOK
<1>2. Follows(Chunk(k), from + Len(v))
  BY <1>1
<1>3. /\ Len(v \o Chunk(k)) = Len(v) + Len(Chunk(k))
      /\ Follows(v \o Chunk(k), from)
  BY <1>1, <1>2, FollowsConcat
<1>4. Len(v) \in Nat
  OBVIOUS
<1> QED
  BY <1>1, <1>3, <1>4

LEMMA StreamingNext ==
  ASSUME CarefulReuse
  PROVE  TypeOK /\ Bounded /\ Streaming /\ [Next]_vars => Streaming'
<1> SUFFICES ASSUME TypeOK, Bounded, Streaming, [Next]_vars PROVE Streaming'
  OBVIOUS
<1>1. ASSUME NEW k \in Chunks, WriteOversized(k) PROVE Streaming'
  BY <1>1 DEF Streaming, EmittedEnd, WriteOversized
<1>2. ASSUME NEW k \in Chunks, WritePanics(k) PROVE Streaming'
  BY <1>2 DEF Streaming, EmittedEnd, WritePanics
<1>3. ASSUME NEW k \in Chunks, WriteFits(k) PROVE Streaming'
  <2>1. k \in Nat /\ vec[curr] \in Seq(Nat)
    BY EncoderAssumption DEF TypeOK
  <2>2. /\ vec'[curr'] = vec[curr] \o Chunk(k)
        /\ next' = next + k
        /\ ends' = ends \cup {next + k}
        /\ phase' = "open"
        /\ UNCHANGED <<out, base>>
    BY <1>3 DEF WriteFits, Extend, TypeOK
  <2>3. Streamed(out', base', ends')
    BY <2>2, StreamedMore DEF Streaming
  <2>4. /\ Follows(vec'[curr'], EmittedEnd)
        /\ EmittedEnd + Len(vec'[curr']) = next'
    <3>1. /\ EmittedEnd \in Nat
          /\ Follows(vec[curr], EmittedEnd)
          /\ EmittedEnd + Len(vec[curr]) = next
      BY DEF Streaming
    <3>2. /\ Follows(vec[curr] \o Chunk(k), EmittedEnd)
          /\ EmittedEnd + Len(vec[curr] \o Chunk(k)) = next + k
      BY <2>1, <3>1, ExtendStreams
    <3> QED
      BY <2>2, <3>2
  <2> QED
    BY <2>2, <2>3, <2>4 DEF Streaming, EmittedEnd
<1>4. ASSUME NEW k \in Chunks, NEW w \in WriterResults,
             NEW c \in CompressedSizes, WriteSwitches(k, w, c)
      PROVE  Streaming'
  <2>1. k \in Nat
    BY EncoderAssumption
  <2>2. vec[curr] # << >>
    BY <1>4, <2>1, RegionAssumption
    DEF WriteSwitches, NeedsPass, RemainingCap
  <2>3. CASE /\ Emit(c)
             /\ curr' = Swapped(curr)
             /\ Extend(curr', k, Emptied, CompressedDict)
             /\ phase' = "open"
    <3>1. vec'[curr'] = << >> \o Chunk(k)
      <4>1. curr' \in Slot /\ curr' # curr
        BY <2>3 DEF TypeOK, Swapped, Slot
      <4>2. Emptied \in [Slot -> Seq(Nat)] /\ Emptied[curr'] = << >>
        BY <2>3, <4>1 DEF TypeOK, Emptied, Bounded, Prev
      <4> QED
        BY <2>3, <4>1, <4>2 DEF Extend
    <3>2. /\ next' = next + k
          /\ ends' = ends \cup {next + k}
          /\ UNCHANGED base
      BY <1>4, <2>3 DEF WriteSwitches, Extend
    <3>3. Streamed(out', base, ends) /\ EndOf(out', Len(out'), base) = next
      BY <2>2, <2>3, EmitStreams
    <3>4. Streamed(out', base', ends')
      BY <3>2, <3>3, StreamedMore
    <3>5. /\ Follows(vec'[curr'], next)
          /\ next + Len(vec'[curr']) = next'
      <4>1. /\ << >> \in Seq(Nat)
            /\ next \in Nat
            /\ Follows(<< >>, next)
            /\ next + Len(<< >>) = next
        BY DEF TypeOK, Follows
      <4>2. /\ Follows(<< >> \o Chunk(k), next)
            /\ next + Len(<< >> \o Chunk(k)) = next + k
        BY <2>1, <4>1, ExtendStreams
      <4> QED
        BY <3>1, <3>2, <4>2
    <3> QED
      BY <2>3, <3>2, <3>3, <3>4, <3>5 DEF TypeOK, Streaming, EmittedEnd
  <2>4. CASE PassFails(w, c) /\ UNCHANGED <<curr, next, ends>>
    BY <1>4, <2>2, <2>4, PassFailsStreams DEF WriteSwitches
  <2> QED
    BY <1>4, <2>3, <2>4 DEF WriteSwitches
<1>5. ASSUME NEW w \in WriterResults, NEW c \in CompressedSizes, Flush(w, c)
      PROVE  Streaming'
  <2>1. CASE Emit(c) /\ vec' = Emptied
    <3>1. vec'[curr'] = << >>
      BY <1>5, <2>1 DEF TypeOK, Flush, Emptied
    <3>2. Streamed(out', base, ends) /\ EndOf(out', Len(out'), base) = next
      BY <1>5, <2>1, EmitStreams DEF Flush
    <3> QED
      BY <1>5, <3>1, <3>2 DEF TypeOK, Flush, Streaming, EmittedEnd, Follows
  <2>2. CASE PassFails(w, c)
    BY <1>5, <2>2, PassFailsStreams DEF Flush
  <2> QED
    BY <1>5, <2>1, <2>2 DEF Flush
<1>6. ASSUME FlushEmpty PROVE Streaming'
  BY <1>6 DEF Streaming, EmittedEnd, FlushEmpty
<1>7. ASSUME NEW s \in Seeds, Reuse(s) PROVE Streaming'
  <2>1. vec[curr] = << >>
    BY <1>7 DEF CarefulReuse, Reuse, Streaming
  <2> QED
    BY <1>7, <2>1
    DEF TypeOK, Reuse, Streaming, Streamed, Placed, Whole, EmittedEnd,
        EndOf, Follows
<1>8. CASE UNCHANGED vars
  BY <1>8 DEF Streaming, EmittedEnd, vars
<1> QED
  BY <1>1, <1>2, <1>3, <1>4, <1>5, <1>6, <1>7, <1>8
  DEF Next, Write, FlushCall

LEMMA StreamingInvariant ==
  ASSUME CarefulReuse
  PROVE  Spec => [](TypeOK /\ Bounded /\ Streaming)
<1>1. CleanBuffers
  BY DEF CarefulReuse
<1> QED
  BY <1>1, TypeInit, TypeNext, BoundedInit, BoundedNext, StreamingInit,
     StreamingNext, PTL DEF Spec

(* The destination and the current buffer hold the stream, every byte once *)
(* and in order, whatever the Writer answers, and whether or not the       *)
(* caller flushes in between and goes on after errors.                     *)
THEOREM NothingLost == ASSUME CarefulReuse PROVE Spec => []InOrder
<1>1. Streaming => InOrder
  BY DEF Streaming, Streamed, Placed, EmittedEnd, InOrder
<1> QED
  BY <1>1, StreamingInvariant, PTL

(* Regions end where writes ended.                                         *)
THEOREM WritesWhole == ASSUME CarefulReuse PROVE Spec => []WholeWrites
<1>1. Streaming => WholeWrites
  BY DEF Streaming, Streamed, Whole, WholeWrites
<1> QED
  BY <1>1, StreamingInvariant, PTL

(* After a flush that succeeded, the Writer was given all that was         *)
(* accepted.                                                               *)
THEOREM FlushEmits == ASSUME CarefulReuse PROVE Spec => []FlushedMeansEmitted
<1>1. TypeOK /\ Streaming => FlushedMeansEmitted
  BY DEF TypeOK, Streaming, EmittedEnd, FlushedMeansEmitted
<1> QED
  BY <1>1, StreamingInvariant, PTL

-----------------------------------------------------------------------------
(* A caller that takes no liberties but to flush what it could write: no   *)
(* write after a flush or an error.                                        *)
Disciplined == CleanBuffers /\ Caller \subseteq {"flush_failed"}

LastData(regions) ==
  IF regions = << >> THEN << >> ELSE regions[Len(regions)].data

(* More may be compressed: what is written next, or what was written       *)
(* before an error.                                                        *)
Ready == phase = "open" \/ (phase = "failed" /\ vec[curr] # << >>)

(* While more may be compressed, LZ4 has the last region as dictionary, in *)
(* the buffer that is not being written to.                                *)
Window ==
  /\ WindowIntact
  /\ Ready =>
       /\ lz4.intact = TRUE
       /\ lz4.data = LastData(out)
       /\ lz4.data # << >> => lz4.at # curr
  /\ phase = "flushed" => vec[curr] = << >>

LEMMA WindowInit == ASSUME Disciplined PROVE Init => Window
  BY DEF Init, NoDict, Ready, Window, WindowIntact, LastData

LEMMA DisciplinedCalls ==
  ASSUME Disciplined
  PROVE  /\ CanWrite => phase = "open"
         /\ CanFlush => phase \in {"open", "flushed", "failed"}
  BY DEF Disciplined, CanWrite, CanFlush

(* Writing to the buffer that is not the dictionary leaves it intact.      *)
LEMMA TouchOther ==
  ASSUME NEW context \in LZ4Context, NEW slot \in Slot, context.intact = TRUE,
         context.data # << >> => context.at # slot
  PROVE  Touch(context, slot) = context
  BY DEF LZ4Context, Touch

LEMMA EmitWindow ==
  ASSUME TypeOK, Window, Ready, NEW c \in CompressedSizes, Emit(c)
  PROVE  WindowIntact' /\ LastData(out') = vec[curr]
<1>1. /\ RegionOf(c).dict.intact = lz4.intact
      /\ RegionOf(c).dict.data = lz4.data
      /\ RegionOf(c).data = vec[curr]
  BY DEF RegionOf, EncodedRegion
<1>2. /\ out' = Append(out, RegionOf(c))
      /\ RegionOf(c) \in Regions
      /\ out \in Seq(Regions)
  BY RegionType DEF Emit, TypeOK
<1>3. /\ Len(out') = Len(out) + 1
      /\ out'[Len(out) + 1] = RegionOf(c)
      /\ \A i \in 1 .. Len(out) : out'[i] = out[i]
  BY <1>2
<1>4. /\ lz4.intact = TRUE
      /\ lz4.data = IF Len(out) = 0 THEN << >> ELSE out[Len(out)].data
  BY <1>2 DEF Window, LastData
<1>5. ASSUME NEW i \in 1 .. Len(out')
      PROVE  /\ out'[i].dict.intact
             /\ out'[i].dict.data
                  = IF i = 1 THEN << >> ELSE out'[i - 1].data
  <2>1. CASE i \in 1 .. Len(out)
    <3>1. i # 1 => i - 1 \in 1 .. Len(out)
      BY <2>1
    <3> QED
      BY <1>3, <2>1, <3>1 DEF Window, WindowIntact
  <2>2. CASE i = Len(out) + 1
    BY <1>1, <1>2, <1>3, <1>4, <2>2
  <2> QED
    BY <1>3, <2>1, <2>2
<1>6. out' # << >> /\ LastData(out') = vec[curr]
  BY <1>1, <1>2, <1>3 DEF LastData
<1> QED
  BY <1>5, <1>6 DEF WindowIntact

LEMMA PassFailsWindow ==
  ASSUME TypeOK, Window, Ready, NEW w, NEW c \in CompressedSizes,
         PassFails(w, c), curr' = curr
  PROVE  Window'
<1>1. CASE PassRefused(w)
  BY <1>1 DEF PassRefused, Ready, Window, WindowIntact, TypeOK
<1>2. CASE PassUnflushed(w, c)
  <2>1. vec'[curr'] = << >>
    BY <1>2 DEF PassUnflushed, Emptied, TypeOK
  <2>2. phase' = "failed" /\ ~Ready'
    BY <1>2, <2>1 DEF PassUnflushed, Ready
  <2>3. WindowIntact'
    BY <1>2, EmitWindow DEF PassUnflushed
  <2> QED
    BY <2>2, <2>3 DEF Window
<1> QED
  BY <1>1, <1>2 DEF PassFails

LEMMA WindowNext ==
  ASSUME Disciplined
  PROVE  TypeOK /\ Bounded /\ Window /\ [Next]_vars => Window'
<1> SUFFICES ASSUME TypeOK, Bounded, Window, [Next]_vars PROVE Window'
  OBVIOUS
<1>1. ASSUME NEW k \in Chunks, WriteOversized(k) PROVE Window'
  BY <1>1, DisciplinedCalls DEF Ready, Window, WindowIntact, WriteOversized
<1>2. ASSUME NEW k \in Chunks, WritePanics(k) PROVE Window'
  BY <1>2 DEF Ready, Window, WindowIntact, WritePanics
<1>3. ASSUME NEW k \in Chunks, WriteFits(k) PROVE Window'
  <2>1. phase = "open"
    BY <1>3, DisciplinedCalls DEF WriteFits
  <2>2. lz4' = lz4
    BY <1>3, <2>1, TouchOther DEF WriteFits, Extend, Ready, Window, TypeOK
  <2> QED
    BY <1>3, <2>1, <2>2 DEF WriteFits, Ready, Window, WindowIntact
<1>4. ASSUME NEW k \in Chunks, NEW w \in WriterResults,
             NEW c \in CompressedSizes, WriteSwitches(k, w, c)
      PROVE  Window'
  <2>1. phase = "open"
    BY <1>4, DisciplinedCalls DEF WriteSwitches
  <2>2. CASE /\ Emit(c)
             /\ curr' = Swapped(curr)
             /\ Extend(curr', k, Emptied, CompressedDict)
             /\ phase' = "open"
    <3>1. /\ CompressedDict \in LZ4Context
          /\ CompressedDict.intact = TRUE
          /\ CompressedDict.at = curr
          /\ CompressedDict.data = vec[curr]
      BY <2>2, EmitType DEF CompressedDict, DictOf
    <3>2. curr' \in Slot /\ curr' # curr
      BY <2>2 DEF TypeOK, Swapped, Slot
    <3>3. lz4' = CompressedDict
      BY <2>2, <3>1, <3>2, TouchOther DEF Extend
    <3>4. WindowIntact' /\ LastData(out') = vec[curr]
      BY <2>1, <2>2, EmitWindow DEF Ready
    <3> QED
      BY <2>2, <3>1, <3>2, <3>3, <3>4 DEF Window
  <2>3. CASE PassFails(w, c) /\ curr' = curr
    BY <2>1, <2>3, PassFailsWindow DEF Ready
  <2> QED
    BY <1>4, <2>2, <2>3 DEF WriteSwitches
<1>5. ASSUME NEW w \in WriterResults, NEW c \in CompressedSizes, Flush(w, c)
      PROVE  Window'
  <2>1. Ready /\ curr' = curr
    BY <1>5, DisciplinedCalls DEF Flush, Ready, Window
  <2>2. CASE Emit(c) /\ vec' = Emptied /\ phase' = "flushed"
    <3>1. vec'[curr'] = << >>
      BY <2>1, <2>2 DEF TypeOK, Emptied
    <3> QED
      BY <2>1, <2>2, <3>1, EmitWindow DEF Ready, Window
  <2>3. CASE PassFails(w, c)
    BY <2>1, <2>3, PassFailsWindow
  <2> QED
    BY <1>5, <2>2, <2>3 DEF Flush
<1>6. ASSUME FlushEmpty PROVE Window'
  BY <1>6 DEF Ready, Window, WindowIntact, FlushEmpty
<1>7. ASSUME NEW s \in Seeds, Reuse(s) PROVE Window'
  BY <1>7 DEF Reuse, NoDict, Ready, Window, WindowIntact, LastData
<1>8. CASE UNCHANGED vars
  BY <1>8 DEF Ready, Window, WindowIntact, vars
<1> QED
  BY <1>1, <1>2, <1>3, <1>4, <1>5, <1>6, <1>7, <1>8
  DEF Next, Write, FlushCall

(* For a caller that writes nothing after a flush or an error, every       *)
(* region is compressed against the region before it, still in memory and  *)
(* unmodified: the safety requirement of CompressStream::compress.         *)
THEOREM WindowSafe == ASSUME Disciplined PROVE Spec => []WindowIntact
<1>1. CleanBuffers
  BY DEF Disciplined
<1>2. Window => WindowIntact
  BY DEF Window
<1> QED
  BY <1>1, <1>2, TypeInit, TypeNext, BoundedInit, BoundedNext, WindowInit,
     WindowNext, PTL DEF Spec

-----------------------------------------------------------------------------
(* Blocks that LZ4 did not have to store longer than a u16 can say.        *)
Compressible == \A c \in CompressedSizes : c < U16

LEMMA EmitHeader ==
  ASSUME Compressible, TypeOK, Bounded, HeaderFaithful,
         NEW c \in CompressedSizes, Emit(c)
  PROVE  HeaderFaithful'
<1>1. c \in Nat /\ AsU16(c) = c
  BY EncoderAssumption, AsU16Range DEF Compressible
<1>2. AsU16(Len(vec[curr])) = Len(vec[curr])
  <2>1. Len(vec[curr]) \in Nat /\ Len(vec[curr]) < U16
    BY RegionAssumption DEF TypeOK, Bounded, Slot
  <2> QED
    BY <2>1, AsU16Range
<1>3. /\ RegionOf(c).header.compressed_size = RegionOf(c).size
      /\ RegionOf(c).header.alloc_size = Len(RegionOf(c).data)
  BY <1>1, <1>2 DEF RegionOf, EncodedRegion, Header
<1>4. out' = Append(out, RegionOf(c)) /\ out \in Seq(Regions)
  BY DEF Emit, TypeOK
<1>5. /\ Len(out') = Len(out) + 1
      /\ out'[Len(out) + 1] = RegionOf(c)
      /\ \A i \in 1 .. Len(out) : out'[i] = out[i]
  BY <1>4, RegionType
<1>6. ASSUME NEW i \in 1 .. Len(out')
      PROVE  /\ out'[i].header.compressed_size = out'[i].size
             /\ out'[i].header.alloc_size = Len(out'[i].data)
  <2>1. CASE i \in 1 .. Len(out)
    BY <1>5, <2>1 DEF HeaderFaithful
  <2>2. CASE i = Len(out) + 1
    BY <1>3, <1>5, <2>2
  <2>3. Len(out) \in Nat
    BY <1>4
  <2>4. i \in 1 .. Len(out) \/ i = Len(out) + 1
    BY <1>5, <2>3
  <2> QED
    BY <2>1, <2>2, <2>4
<1> QED
  BY <1>6 DEF HeaderFaithful

LEMMA HeaderNext ==
  ASSUME Compressible
  PROVE  TypeOK /\ Bounded /\ HeaderFaithful /\ [Next]_vars
           => HeaderFaithful'
<1> SUFFICES ASSUME TypeOK, Bounded, HeaderFaithful, [Next]_vars
             PROVE  HeaderFaithful'
  OBVIOUS
<1>1. CASE UNCHANGED out
  BY <1>1 DEF HeaderFaithful
<1>2. CASE \E c \in CompressedSizes : Emit(c)
  BY <1>2, EmitHeader
<1>3. CASE out' = << >>
  BY <1>3 DEF HeaderFaithful
<1> QED
  BY <1>1, <1>2, <1>3
  DEF Next, Write, FlushCall, WriteOversized, WritePanics, WriteFits,
      WriteSwitches, Flush, FlushEmpty, Reuse, PassFails, PassRefused,
      PassUnflushed, vars

(* The header tells both lengths of its region, for every caller, as long  *)
(* as no block is stored longer than a u16 can say.                        *)
THEOREM HeadersFaithful ==
  ASSUME CleanBuffers, Compressible PROVE Spec => []HeaderFaithful
<1>1. Init => HeaderFaithful
  BY DEF Init, HeaderFaithful
<1> QED
  BY <1>1, TypeInit, TypeNext, BoundedInit, BoundedNext, HeaderNext, PTL
  DEF Spec

-----------------------------------------------------------------------------
(* Any caller, with any buffer that another bearer left.  A raw buffer     *)
(* holds no byte of a stream of this encoder before its first write.       *)
JunkBuffers ==
  \A raw \in RawBuffers : \A s \in Slot : \A i \in 1 .. Len(raw.vec[s]) :
    raw.vec[s][i] = Junk

Leftovers(bytes, b) == \A i \in 1 .. Len(bytes) : bytes[i] <= b

(* Leftovers up to b, and then the bytes after m up to n.                  *)
Ending(bytes, b, m, n) ==
  /\ n - m <= Len(bytes)
  /\ \A i \in 1 .. Len(bytes) :
       IF i <= Len(bytes) - (n - m) THEN bytes[i] <= b
                                    ELSE bytes[i] = n - (Len(bytes) - i)

(* A piece that ends with the bytes that come next carries the stream on.  *)
LEMMA CarryAppend ==
  ASSUME NEW pieces \in Seq(Seq(Nat)), NEW piece \in Seq(Nat),
         NEW b \in Nat, NEW m \in Nat, NEW n \in Nat, b <= m, m <= n,
         Carry(pieces, b, m), Ending(piece, b, m, n)
  PROVE  Carry(Append(pieces, piece), b, n)
<1> DEFINE L == Len(pieces)
           more == Append(pieces, piece)
<1>1. /\ L \in Nat
      /\ DOMAIN pieces = 1 .. L
      /\ DOMAIN more = 1 .. L + 1
      /\ more[L + 1] = piece
      /\ \A i \in 1 .. L : more[i] = pieces[i] /\ pieces[i] \in Seq(Nat)
  OBVIOUS
<1>2. /\ Len(piece) \in Nat
      /\ DOMAIN piece = 1 .. Len(piece)
      /\ \A j \in DOMAIN piece : piece[j] \in Nat
  OBVIOUS
<1> HIDE DEF L, more
<1>3. ASSUME NEW j \in DOMAIN piece
      PROVE  /\ piece[j] <= n
             /\ piece[j] > b => piece[j] > m
  <2>1. CASE j <= Len(piece) - (n - m)
    BY <1>2, <1>3, <2>1 DEF Ending
  <2>2. CASE ~(j <= Len(piece) - (n - m))
    <3>1. piece[j] = n - (Len(piece) - j)
      BY <1>2, <1>3, <2>2 DEF Ending
    <3> QED
      BY <1>2, <1>3, <2>2, <3>1
  <2> QED
    BY <2>1, <2>2
<1>4. ASSUME NEW j1 \in DOMAIN piece, NEW j2 \in DOMAIN piece,
             piece[j1] > b, j1 < j2
      PROVE  piece[j1] < piece[j2]
  <2>1. /\ ~(j1 <= Len(piece) - (n - m))
        /\ ~(j2 <= Len(piece) - (n - m))
    BY <1>2, <1>4 DEF Ending
  <2>2. /\ piece[j1] = n - (Len(piece) - j1)
        /\ piece[j2] = n - (Len(piece) - j2)
    BY <1>2, <2>1 DEF Ending
  <2> QED
    BY <1>2, <1>4, <2>2
<1>5. ASSUME NEW x \in b + 1 .. n
      PROVE  \E i \in DOMAIN more : \E j \in DOMAIN more[i] : more[i][j] = x
  <2>1. CASE x <= m
    <3>1. PICK i \in DOMAIN pieces : \E j \in DOMAIN pieces[i] :
            pieces[i][j] = x
      BY <2>1 DEF Carry
    <3>2. i \in DOMAIN more /\ more[i] = pieces[i]
      BY <1>1
    <3> QED
      BY <3>1, <3>2
  <2>2. CASE x > m
    <3> DEFINE j == Len(piece) - (n - x)
    <3>1. j \in DOMAIN piece /\ ~(j <= Len(piece) - (n - m))
      BY <1>2, <2>2 DEF Ending
    <3>2. piece[j] = n - (Len(piece) - j)
      BY <1>2, <3>1 DEF Ending
    <3>3. piece[j] = x
      BY <1>2, <3>2
    <3>4. L + 1 \in DOMAIN more /\ more[L + 1] = piece
      BY <1>1
    <3> HIDE DEF j
    <3> QED
      BY <3>1, <3>3, <3>4
  <2> QED
    BY <2>1, <2>2
<1>6. ASSUME NEW i1 \in DOMAIN more, NEW i2 \in DOMAIN more,
             NEW j1 \in DOMAIN more[i1], NEW j2 \in DOMAIN more[i2]
      PROVE  /\ more[i1][j1] <= n
             /\ /\ more[i1][j1] > b /\ more[i2][j2] > b
                /\ i1 < i2 \/ (i1 = i2 /\ j1 < j2)
                => more[i1][j1] < more[i2][j2]
  <2>1. ASSUME NEW i \in 1 .. L, NEW j \in DOMAIN pieces[i]
        PROVE  pieces[i][j] \in Nat /\ pieces[i][j] <= m
    <3>1. pieces[i] \in Seq(Nat) /\ i \in DOMAIN pieces
      BY <1>1
    <3>2. pieces[i][j] \in Nat
      BY <3>1
    <3>3. pieces[i][j] <= m
      BY <3>1 DEF Carry
    <3> QED
      BY <3>2, <3>3
  <2>2. CASE i1 \in 1 .. L /\ i2 \in 1 .. L
    <3>1. /\ more[i1] = pieces[i1]
          /\ more[i2] = pieces[i2]
      BY <1>1, <2>2
    <3>2. /\ pieces[i1][j1] > b /\ pieces[i2][j2] > b
          /\ i1 < i2 \/ (i1 = i2 /\ j1 < j2)
          => pieces[i1][j1] < pieces[i2][j2]
      BY <1>1, <2>2, <3>1 DEF Carry
    <3>3. pieces[i1][j1] \in Nat /\ pieces[i1][j1] <= m
      BY <2>1, <2>2, <3>1
    <3> QED
      BY <3>1, <3>2, <3>3
  <2>3. CASE i1 \in 1 .. L /\ i2 = L + 1
    <3>1. /\ more[i1] = pieces[i1]
          /\ more[i2] = piece
      BY <1>1, <2>3
    <3>2. pieces[i1][j1] \in Nat /\ pieces[i1][j1] <= m
      BY <2>1, <2>3, <3>1
    <3>3. piece[j2] \in Nat /\ (piece[j2] > b => piece[j2] > m)
      BY <1>2, <1>3, <3>1
    <3> QED
      BY <3>1, <3>2, <3>3
  <2>4. CASE i1 = L + 1
    <3>1. more[i1] = piece
      BY <1>1, <2>4
    <3>2. piece[j1] <= n
      BY <1>3, <3>1
    <3>3. ~(i1 < i2)
      BY <1>1, <2>4
    <3>4. CASE i1 = i2 /\ j1 < j2
      BY <1>4, <3>1, <3>2, <3>4
    <3> QED
      BY <3>1, <3>2, <3>3, <3>4
  <2>5. i1 \in 1 .. L + 1 /\ i2 \in 1 .. L + 1
    BY <1>1
  <2>6. /\ i1 \in 1 .. L \/ i1 = L + 1
        /\ i2 \in 1 .. L \/ i2 = L + 1
    <3>1. L \in Nat
      BY <1>1
    <3>2. \A i \in 1 .. L + 1 : i \in 1 .. L \/ i = L + 1
      BY <3>1
    <3> QED
      BY <2>5, <3>2, Zenon
  <2> QED
    BY <2>2, <2>3, <2>4, <2>6, Zenon
<1> QED
  BY <1>5, <1>6 DEF Carry, more

LEMMA EmittedType ==
  ASSUME TypeOK
  PROVE  Emitted \in Seq(Seq(Nat))
<1>1. out \in Seq(Regions)
  BY DEF TypeOK
<1>2. Len(out) \in Nat /\ \A i \in 1 .. Len(out) : out[i] \in Regions
  BY <1>1
<1>3. \A i \in 1 .. Len(out) : out[i].data \in Seq(Nat)
  BY <1>2 DEF Regions
<1> QED
  BY <1>2, <1>3 DEF Emitted

LEMMA EmitAppends ==
  ASSUME TypeOK, NEW c \in CompressedSizes, Emit(c)
  PROVE  Emitted' = Append(Emitted, vec[curr])
<1>1. out \in Seq(Regions) /\ out' = Append(out, RegionOf(c))
  BY DEF TypeOK, Emit
<1>2. RegionOf(c).data = vec[curr]
  BY DEF RegionOf, EncodedRegion
<1>3. /\ Len(out) \in Nat
      /\ Len(out') = Len(out) + 1
      /\ out'[Len(out) + 1] = RegionOf(c)
      /\ \A i \in 1 .. Len(out) : out'[i] = out[i]
  BY <1>1, RegionType
<1>4. Emitted' = [i \in 1 .. Len(out) + 1 |-> out'[i].data]
  BY <1>3 DEF Emitted
<1>5. Emitted \in Seq(Seq(Nat)) /\ Len(Emitted) = Len(out)
  <2>1. Emitted \in Seq(Seq(Nat))
    BY EmittedType
  <2>2. Len(Emitted) = Len(out)
    <3> DEFINE L == Len(out)
               e == [i \in 1 .. L |-> out[i].data]
    <3>1. L \in Nat
      BY <1>3
    <3> HIDE DEF L
    <3>2. DOMAIN e = 1 .. L
      OBVIOUS
    <3>3. Len(e) = L
      BY <3>1, <3>2
    <3> QED
      BY <3>3 DEF Emitted, L
  <2> QED
    BY <2>1, <2>2
<1>6. Append(Emitted, vec[curr])
        = [i \in 1 .. Len(out) + 1 |->
             IF i = Len(out) + 1 THEN vec[curr] ELSE Emitted[i]]
  BY <1>5
<1>7. ASSUME NEW i \in 1 .. Len(out) + 1
      PROVE  out'[i].data = IF i = Len(out) + 1 THEN vec[curr] ELSE Emitted[i]
  BY <1>2, <1>3 DEF Emitted
<1> QED
  BY <1>4, <1>6, <1>7

(* The bytes of this stream up to m were given to the Writer, and those    *)
(* after m end the current buffer; what else there is in either buffer is  *)
(* older than the stream.  A region is made only where a write ended.      *)
KeptUpTo(m) ==
  /\ m \in base .. next
  /\ m \in ends
  /\ next \in ends
  /\ Carry(Emitted, base, m)
  /\ Ending(vec[curr], base, m, next)
  /\ Leftovers(vec[Prev], base)
  /\ phase = "flushed" => m = next
Keeping == NoWriteSplit /\ \E m \in base .. next : KeptUpTo(m)

LEMMA KeepingInit == ASSUME JunkBuffers PROVE Init => TypeOK /\ Keeping
<1> SUFFICES ASSUME Init PROVE TypeOK /\ Keeping
  OBVIOUS
<1>1. TypeOK
  BY TypeInit
<1>2. \A s \in Slot : Leftovers(vec[s], 0)
  <2>1. PICK raw \in RawBuffers \cup {FreshBuffer} : vec = raw.vec
    BY DEF Init
  <2>2. CASE raw \in RawBuffers
    BY <2>1, <2>2 DEF JunkBuffers, Junk, Leftovers
  <2>3. CASE raw = FreshBuffer
    BY <2>1, <2>3 DEF FreshBuffer, Leftovers
  <2> QED
    BY <2>1, <2>2, <2>3
<1>3. /\ base = 0 /\ next = 0 /\ ends = {0}
      /\ out = << >> /\ phase = "open"
  BY DEF Init
<1>4. curr \in Slot /\ Prev \in Slot /\ vec[curr] \in Seq(Nat)
  BY <1>1 DEF TypeOK, Prev, Swapped, Slot
<1>5. Ending(vec[curr], 0, 0, 0)
  BY <1>2, <1>4 DEF Ending, Leftovers
<1>6. Carry(Emitted, 0, 0)
  BY <1>3 DEF Emitted, Carry
<1>7. KeptUpTo(0)
  BY <1>2, <1>3, <1>4, <1>5, <1>6 DEF KeptUpTo
<1>8. NoWriteSplit
  BY <1>3 DEF NoWriteSplit
<1> QED
  BY <1>1, <1>3, <1>7, <1>8 DEF Keeping

LEMMA EndingLast ==
  ASSUME NEW piece \in Seq(Nat), NEW b \in Nat, NEW m \in Nat, NEW n \in Nat,
         b <= m, m <= n, Ending(piece, b, m, n),
         NEW j \in 1 .. Len(piece), LastOwn(piece, j, b)
  PROVE  piece[j] = n
<1>1. Len(piece) \in Nat /\ piece[j] \in Nat /\ piece[j] > b
  BY DEF LastOwn
<1>2. ~(j <= Len(piece) - (n - m))
  BY <1>1 DEF Ending
<1>3. piece[j] = n - (Len(piece) - j)
  BY <1>2 DEF Ending
<1>4. CASE j # Len(piece)
  <2>1. j + 1 \in j + 1 .. Len(piece) /\ j + 1 \in 1 .. Len(piece)
    BY <1>1, <1>4
  <2>2. piece[j + 1] <= b
    BY <2>1 DEF LastOwn
  <2>3. ~(j + 1 <= Len(piece) - (n - m))
    BY <1>1, <1>2
  <2>4. piece[j + 1] = n - (Len(piece) - (j + 1))
    BY <2>1, <2>3 DEF Ending
  <2> QED
    BY <1>1, <1>2, <2>2, <2>4
<1> QED
  BY <1>1, <1>3, <1>4

(* A region made of the current buffer ends with the last byte accepted.   *)
LEMMA EmitKeeps ==
  ASSUME TypeOK, NoWriteSplit, NEW m \in base .. next, KeptUpTo(m),
         NEW c \in CompressedSizes, Emit(c), base' = base, ends \subseteq ends'
  PROVE  /\ NoWriteSplit'
         /\ Carry(Emitted', base, next)
<1>1. Carry(Emitted', base, next)
  <2>1. Emitted' = Append(Emitted, vec[curr])
    BY EmitAppends
  <2>2. /\ Emitted \in Seq(Seq(Nat))
        /\ vec[curr] \in Seq(Nat)
        /\ base \in Nat /\ m \in Nat /\ next \in Nat
        /\ base <= m /\ m <= next
    BY EmittedType DEF TypeOK
  <2>3. Carry(Emitted, base, m) /\ Ending(vec[curr], base, m, next)
    BY DEF KeptUpTo
  <2> QED
    BY <2>1, <2>2, <2>3, CarryAppend
<1>2. /\ Len(out) \in Nat
      /\ Len(out') = Len(out) + 1
      /\ out'[Len(out) + 1] = RegionOf(c)
      /\ \A i \in 1 .. Len(out) : out'[i] = out[i]
  BY RegionType DEF TypeOK, Emit
<1>3. ASSUME NEW i \in 1 .. Len(out'), NEW j \in 1 .. Len(out'[i].data),
             LastOwn(out'[i].data, j, base)
      PROVE  out'[i].data[j] \in ends
  <2>1. CASE i \in 1 .. Len(out)
    BY <1>2, <1>3, <2>1 DEF NoWriteSplit, LastOwn
  <2>2. CASE i = Len(out) + 1
    <3>1. out'[i].data = vec[curr]
      BY <1>2, <2>2 DEF RegionOf, EncodedRegion
    <3>2. /\ vec[curr] \in Seq(Nat) /\ next \in Nat /\ base \in Nat
          /\ m \in Nat /\ base <= m /\ m <= next
      BY DEF TypeOK
    <3>3. Ending(vec[curr], base, m, next) /\ next \in ends
      BY DEF KeptUpTo
    <3>4. j \in 1 .. Len(vec[curr]) /\ LastOwn(vec[curr], j, base)
      BY <1>3, <3>1
    <3> QED
      BY <3>1, <3>2, <3>3, <3>4, EndingLast
  <2> QED
    BY <1>2, <2>1, <2>2
<1>4. NoWriteSplit'
  BY <1>3 DEF NoWriteSplit
<1> QED
  BY <1>1, <1>4

(* A chunk after leftovers, or after the bytes before it, ends the buffer. *)
LEMMA ChunkEnds ==
  ASSUME TypeOK, NEW k \in Nat, NEW bytes \in Seq(Nat),
         NEW m \in base .. next, Ending(bytes, base, m, next)
  PROVE  Ending(bytes \o Chunk(k), base, m, next + k)
<1>1. /\ Chunk(k) \in Seq(Nat)
      /\ Len(Chunk(k)) = k
      /\ \A i \in 1 .. k : Chunk(k)[i] = next + i
  BY ChunkFollows DEF TypeOK, Follows, Chunk
<1>2. /\ Len(bytes \o Chunk(k)) = Len(bytes) + k
      /\ \A i \in 1 .. Len(bytes) + k :
           (bytes \o Chunk(k))[i]
             = IF i <= Len(bytes) THEN bytes[i] ELSE Chunk(k)[i - Len(bytes)]
  BY <1>1
<1>3. base \in Nat /\ next \in Nat /\ Len(bytes) \in Nat
  BY DEF TypeOK
<1>4. ASSUME NEW i \in 1 .. Len(bytes) + k
      PROVE  IF i <= Len(bytes) + k - (next + k - m)
             THEN (bytes \o Chunk(k))[i] <= base
             ELSE (bytes \o Chunk(k))[i] = next + k - (Len(bytes) + k - i)
  <2>1. CASE i <= Len(bytes)
    BY <1>2, <1>3, <1>4, <2>1 DEF Ending
  <2>2. CASE ~(i <= Len(bytes))
    <3>1. i - Len(bytes) \in 1 .. k
      BY <1>3, <1>4, <2>2
    <3>2. (bytes \o Chunk(k))[i] = next + (i - Len(bytes))
      BY <1>1, <1>2, <1>4, <2>2, <3>1
    <3> QED
      BY <1>3, <2>2, <3>2
  <2> QED
    BY <2>1, <2>2
<1> QED
  BY <1>2, <1>3, <1>4 DEF Ending

LEMMA LeftoversEnd ==
  ASSUME NEW bytes \in Seq(Nat), NEW b \in Nat, NEW n \in Nat,
         Leftovers(bytes, b)
  PROVE  Ending(bytes, b, n, n)
  BY DEF Leftovers, Ending

(* An emptied buffer holds nothing of the stream, nor older than it.       *)
LEMMA EmptiedKeeps ==
  ASSUME TypeOK
  PROVE  /\ Emptied \in [Slot -> Seq(Nat)]
         /\ curr \in Slot /\ Prev \in Slot /\ Prev # curr
         /\ Emptied[curr] = << >>
         /\ Emptied[Prev] = vec[Prev]
         /\ \A b, n \in Nat : Leftovers(<< >>, b) /\ Ending(<< >>, b, n, n)
<1>1. curr \in Slot /\ Prev \in Slot /\ Prev # curr
  BY DEF TypeOK, Prev, Swapped, Slot
<1>2. /\ Emptied \in [Slot -> Seq(Nat)]
      /\ Emptied[curr] = << >>
      /\ Emptied[Prev] = vec[Prev]
  BY <1>1 DEF TypeOK, Emptied
<1>3. \A b, n \in Nat : Leftovers(<< >>, b) /\ Ending(<< >>, b, n, n)
  BY DEF Leftovers, Ending
<1> QED
  BY <1>1, <1>2, <1>3

(* What the Writer was given is kept by a step that adds nothing to it.    *)
LEMMA SameOutKeeps ==
  ASSUME NoWriteSplit, out' = out, base' = base, ends \subseteq ends'
  PROVE  NoWriteSplit' /\ Emitted' = Emitted
  BY DEF NoWriteSplit, Emitted, LastOwn

LEMMA PassFailsKeeps ==
  ASSUME TypeOK, Keeping, NEW w, NEW c \in CompressedSizes, PassFails(w, c),
         UNCHANGED <<curr, next, ends, base>>
  PROVE  Keeping'
<1>1. NoWriteSplit
  BY DEF Keeping
<1>2. PICK m \in base .. next : KeptUpTo(m)
  BY DEF Keeping
<1>3. CASE PassRefused(w)
  <2>1. UNCHANGED <<vec, out>> /\ phase' # "flushed"
    BY <1>3 DEF PassRefused
  <2>2. NoWriteSplit' /\ Emitted' = Emitted
    BY <1>1, <2>1, SameOutKeeps
  <2>3. Prev' = Prev
    BY DEF Prev
  <2>4. KeptUpTo(m)'
    BY <1>2, <2>1, <2>2, <2>3 DEF KeptUpTo
  <2> QED
    BY <1>2, <2>2, <2>4 DEF Keeping
<1>4. CASE PassUnflushed(w, c)
  <2>1. Emit(c) /\ vec' = Emptied /\ phase' # "flushed"
    BY <1>4 DEF PassUnflushed
  <2>2. NoWriteSplit' /\ Carry(Emitted', base, next)
    BY <1>1, <1>2, <2>1, EmitKeeps
  <2>3. next \in Nat /\ base \in Nat /\ next \in base .. next
    BY DEF TypeOK
  <2>4. /\ Ending(vec'[curr], base, next, next)
        /\ Leftovers(vec'[Prev], base)
    BY <1>2, <2>1, <2>3, EmptiedKeeps DEF KeptUpTo
  <2>5. Prev' = Prev
    BY DEF Prev
  <2>6. PICK n \in base .. next : n = next
    BY <2>3
  <2>7. KeptUpTo(n)'
    BY <1>2, <2>1, <2>2, <2>3, <2>4, <2>5, <2>6 DEF KeptUpTo
  <2> QED
    BY <2>2, <2>6, <2>7 DEF Keeping
<1> QED
  BY <1>3, <1>4 DEF PassFails

LEMMA KeepingNext == TypeOK /\ Keeping /\ [Next]_vars => Keeping'
<1> SUFFICES ASSUME TypeOK, Keeping, [Next]_vars PROVE Keeping'
  OBVIOUS
<1>0. PICK m \in base .. next : KeptUpTo(m)
  BY DEF Keeping
<1>1. /\ base \in Nat /\ next \in Nat /\ m \in Nat
      /\ base <= m /\ m <= next
      /\ NoWriteSplit
  BY DEF TypeOK, Keeping
<1>2. ASSUME UNCHANGED <<vec, curr, out, next, base, ends>>,
             phase' = "flushed" => m = next
      PROVE  Keeping'
  <2>1. NoWriteSplit' /\ Emitted' = Emitted /\ Prev' = Prev
    BY <1>1, <1>2, SameOutKeeps DEF Prev
  <2>2. KeptUpTo(m)'
    BY <1>0, <1>2, <2>1 DEF KeptUpTo
  <2> QED
    BY <1>2, <2>1, <2>2 DEF Keeping
<1>3. ASSUME NEW k \in Chunks, WriteFits(k) PROVE Keeping'
  <2>1. k \in Nat /\ curr \in Slot /\ vec[curr] \in Seq(Nat)
    BY EncoderAssumption DEF TypeOK
  <2>2. /\ vec' = [vec EXCEPT ![curr] = @ \o Chunk(k)]
        /\ next' = next + k
        /\ ends' = ends \cup {next + k}
        /\ phase' = "open"
        /\ UNCHANGED <<curr, out, base>>
    BY <1>3 DEF WriteFits, Extend
  <2>3. NoWriteSplit' /\ Emitted' = Emitted /\ Prev' = Prev
    BY <1>1, <2>2, SameOutKeeps DEF Prev
  <2>4. Ending(vec[curr] \o Chunk(k), base, m, next + k)
    BY <1>0, <2>1, ChunkEnds DEF KeptUpTo
  <2>5. vec'[curr] = vec[curr] \o Chunk(k) /\ vec'[Prev] = vec[Prev]
    BY <2>2, EmptiedKeeps DEF TypeOK
  <2>6. m \in base .. next'
    BY <1>1, <2>1, <2>2
  <2>7. Ending(vec'[curr'], base', m, next')
    BY <2>2, <2>4, <2>5
  <2>8. Carry(Emitted', base', m) /\ Leftovers(vec'[Prev'], base')
    BY <1>0, <2>2, <2>3, <2>5 DEF KeptUpTo
  <2>9. KeptUpTo(m)'
    BY <1>0, <2>2, <2>6, <2>7, <2>8 DEF KeptUpTo
  <2> QED
    BY <2>2, <2>3, <2>6, <2>9 DEF Keeping
<1>4. ASSUME NEW k \in Chunks, NEW w \in WriterResults,
             NEW c \in CompressedSizes, WriteSwitches(k, w, c)
      PROVE  Keeping'
  <2>1. CASE /\ Emit(c)
             /\ curr' = Swapped(curr)
             /\ Extend(curr', k, Emptied, CompressedDict)
             /\ phase' = "open"
    <3>1. k \in Nat
      BY EncoderAssumption
    <3>2. /\ vec' = [Emptied EXCEPT ![Prev] = @ \o Chunk(k)]
          /\ next' = next + k
          /\ ends' = ends \cup {next + k}
          /\ curr' = Prev
          /\ base' = base
      BY <1>4, <2>1 DEF WriteSwitches, Extend, Prev
    <3>3. NoWriteSplit' /\ Carry(Emitted', base, next)
      BY <1>0, <1>1, <2>1, <3>2, EmitKeeps
    <3>4. /\ vec'[curr'] = vec[Prev] \o Chunk(k)
          /\ Prev' = curr
          /\ vec'[Prev'] = << >>
      <4>1. Prev' = curr
        BY <3>2 DEF Prev, Swapped, TypeOK, Slot
      <4> QED
        BY <3>2, <4>1, EmptiedKeeps
    <3>5. Ending(vec'[curr'], base, next, next + k)
      <4>1. vec[Prev] \in Seq(Nat) /\ Leftovers(vec[Prev], base)
        BY <1>0, EmptiedKeeps DEF TypeOK, KeptUpTo
      <4>2. Ending(vec[Prev], base, next, next)
        BY <1>1, <4>1, LeftoversEnd
      <4>3. next \in base .. next
        BY <1>1
      <4> QED
        BY <3>1, <3>4, <4>1, <4>2, <4>3, ChunkEnds
    <3>6. Leftovers(vec'[Prev'], base)
      BY <1>1, <3>4, EmptiedKeeps
    <3>7. PICK n \in base .. next' : n = next
      BY <1>1, <3>1, <3>2
    <3>8. KeptUpTo(n)'
      BY <1>0, <2>1, <3>2, <3>3, <3>5, <3>6, <3>7 DEF KeptUpTo
    <3> QED
      BY <3>2, <3>3, <3>7, <3>8 DEF Keeping
  <2>2. CASE PassFails(w, c) /\ UNCHANGED <<curr, next, ends>>
    <3>1. base' = base
      BY <1>4 DEF WriteSwitches
    <3> QED
      BY <2>2, <3>1, PassFailsKeeps
  <2> QED
    BY <1>4, <2>1, <2>2 DEF WriteSwitches
<1>5. ASSUME NEW w \in WriterResults, NEW c \in CompressedSizes, Flush(w, c)
      PROVE  Keeping'
  <2>1. UNCHANGED <<curr, next, base, ends>> /\ Prev' = Prev
    BY <1>5 DEF Flush, Prev
  <2>2. CASE Emit(c) /\ vec' = Emptied
    <3>1. NoWriteSplit' /\ Carry(Emitted', base, next)
      BY <1>0, <1>1, <2>1, <2>2, EmitKeeps
    <3>2. /\ Ending(vec'[curr], base, next, next)
          /\ Leftovers(vec'[Prev], base)
      BY <1>0, <1>1, <2>2, EmptiedKeeps DEF KeptUpTo
    <3>3. PICK n \in base .. next : n = next
      BY <1>1
    <3>4. KeptUpTo(n)'
      BY <1>0, <2>1, <3>1, <3>2, <3>3 DEF KeptUpTo
    <3> QED
      BY <2>1, <3>1, <3>3, <3>4 DEF Keeping
  <2>3. CASE PassFails(w, c)
    BY <2>1, <2>3, PassFailsKeeps
  <2> QED
    BY <1>5, <2>2, <2>3 DEF Flush
<1>6. CASE FlushEmpty
  <2>1. vec[curr] = << >> /\ UNCHANGED <<vec, curr, out, next, base, ends>>
    BY <1>6 DEF FlushEmpty
  <2>2. Ending(<< >>, base, m, next)
    BY <1>0, <2>1 DEF KeptUpTo
  <2>3. m = next
    BY <1>1, <2>2 DEF Ending
  <2> QED
    BY <1>2, <2>1, <2>3
<1>7. ASSUME NEW s \in Seeds, Reuse(s) PROVE Keeping'
  <2>1. /\ UNCHANGED <<vec, curr, next>>
        /\ out' = << >> /\ base' = next /\ ends' = {next}
        /\ Prev' = Prev
    BY <1>7 DEF Reuse, Prev
  <2>2. NoWriteSplit'
    BY <2>1 DEF NoWriteSplit
  <2>3. Carry(Emitted', next, next)
    <3>1. DOMAIN Emitted' = {} /\ next + 1 .. next = {}
      BY <1>1, <2>1 DEF Emitted
    <3> QED
      BY <3>1 DEF Carry
  <2>4. Leftovers(vec[Prev], next) /\ Leftovers(vec[curr], next)
    <3>1. vec[Prev] \in Seq(Nat) /\ vec[curr] \in Seq(Nat)
      BY EmptiedKeeps DEF TypeOK
    <3>2. Leftovers(vec[Prev], next)
      BY <1>0, <1>1, <3>1 DEF KeptUpTo, Leftovers
    <3>3. ASSUME NEW i \in 1 .. Len(vec[curr]) PROVE vec[curr][i] <= next
      <4>1. Len(vec[curr]) \in Nat /\ vec[curr][i] \in Nat
        BY <3>1
      <4>2. CASE i <= Len(vec[curr]) - (next - m)
        BY <1>0, <1>1, <4>1, <4>2 DEF KeptUpTo, Ending
      <4>3. CASE ~(i <= Len(vec[curr]) - (next - m))
        <5>1. vec[curr][i] = next - (Len(vec[curr]) - i)
          BY <1>0, <4>3 DEF KeptUpTo, Ending
        <5> QED
          BY <1>1, <4>1, <5>1
      <4> QED
        BY <4>2, <4>3
    <3> QED
      BY <3>2, <3>3 DEF Leftovers
  <2>5. Ending(vec[curr], next, next, next)
    BY <1>1, <2>4, LeftoversEnd DEF TypeOK
  <2>6. PICK n \in base' .. next' : n = next
    BY <1>1, <2>1
  <2>7. KeptUpTo(n)'
    BY <2>1, <2>3, <2>4, <2>5, <2>6 DEF KeptUpTo
  <2> QED
    BY <2>2, <2>6, <2>7 DEF Keeping
<1>8. ASSUME NEW k \in Chunks, WriteOversized(k) \/ WritePanics(k)
      PROVE  Keeping'
  BY <1>2, <1>8 DEF WriteOversized, WritePanics
<1>9. CASE UNCHANGED vars
  <2>1. phase' = "flushed" => m = next
    BY <1>0, <1>9 DEF KeptUpTo, vars
  <2> QED
    BY <1>2, <1>9, <2>1 DEF vars
<1> QED
  BY <1>3, <1>4, <1>5, <1>6, <1>7, <1>8, <1>9 DEF Next, Write, FlushCall

LEMMA KeepingInvariant ==
  ASSUME JunkBuffers
  PROVE  Spec => [](TypeOK /\ Keeping)
<1> QED
  BY KeepingInit, TypeNext, KeepingNext, PTL DEF Spec

(* Whatever buffer the encoder was given, whatever the Writer answered and *)
(* whatever the caller did, retries, buffers given up unflushed and writes *)
(* after a flush among it: destination and buffer hold every byte of the   *)
(* stream, once and in order.                                              *)
THEOREM NothingLostAnyCaller ==
  ASSUME JunkBuffers PROVE Spec => []StreamBytesKept
<1>1. TypeOK /\ Keeping => StreamBytesKept
  <2> SUFFICES ASSUME TypeOK, Keeping PROVE StreamBytesKept
    OBVIOUS
  <2>1. PICK m \in base .. next : KeptUpTo(m)
    BY DEF Keeping
  <2>2. /\ Emitted \in Seq(Seq(Nat)) /\ vec[curr] \in Seq(Nat)
        /\ base \in Nat /\ m \in Nat /\ next \in Nat
        /\ base <= m /\ m <= next
    BY EmittedType DEF TypeOK
  <2>3. Carry(Emitted, base, m) /\ Ending(vec[curr], base, m, next)
    BY <2>1 DEF KeptUpTo
  <2> QED
    BY <2>2, <2>3, CarryAppend DEF StreamBytesKept
<1> QED
  BY <1>1, KeepingInvariant, PTL

(* And the Writer was given all of them after a flush that succeeded.      *)
THEOREM FlushEmitsAnyCaller ==
  ASSUME JunkBuffers PROVE Spec => []FlushedBytesOut
<1>1. Keeping => FlushedBytesOut
  BY DEF Keeping, KeptUpTo, FlushedBytesOut
<1> QED
  BY <1>1, KeepingInvariant, PTL

(* And no write of the stream is split between two regions.                *)
THEOREM WritesWholeAnyCaller ==
  ASSUME JunkBuffers PROVE Spec => []NoWriteSplit
<1>1. Keeping => NoWriteSplit
  BY DEF Keeping
<1> QED
  BY <1>1, KeepingInvariant, PTL

-----------------------------------------------------------------------------
(* As long as all regions but the last are full, they take no more than    *)
(* full regions may, and the last one no more than its length allows.      *)
LastLen == Len(out[Len(out)].data)
Before == Len(out) - 1
FullSize == compress_bound(REGION_SIZE) + HEADER_SIZE

Sized ==
  out # << >> /\ Packed =>
    /\ EmittedEnd - base = Before * REGION_SIZE + LastLen
    /\ LastLen \in 1 .. REGION_SIZE
    /\ EncodedSize(out)
         <= Before * FullSize + compress_bound(LastLen) + HEADER_SIZE

LEMMA BoundNat ==
  /\ \A n \in Nat : compress_bound(n) \in Nat
  /\ HEADER_SIZE \in Nat /\ FullSize \in Nat
<1>1. ASSUME NEW n \in Nat PROVE compress_bound(n) \in Nat
  <2>1. n \div BoundEvery \in Nat /\ BoundBase \in Nat
    BY RegionAssumption
  <2> QED
    BY <2>1 DEF compress_bound
<1>2. HEADER_SIZE \in Nat
  BY DEF HEADER_SIZE
<1>3. REGION_SIZE \in Nat
  BY RegionAssumption
<1> QED
  BY <1>1, <1>2, <1>3 DEF FullSize

LEMMA OutSize ==
  ASSUME TypeOK, NEW c \in CompressedSizes, Emit(c)
  PROVE  /\ EncodedSize(out) \in Nat
         /\ EncodedSize(out') = EncodedSize(out) + HEADER_SIZE + c
<1>1. \A t \in Regions : t.size \in Nat
  BY DEF Regions
<1>2. out \in Seq(Regions) /\ RegionOf(c) \in Regions
  BY RegionType DEF TypeOK
<1>3. out' = Append(out, RegionOf(c)) /\ RegionOf(c).size = c
  BY DEF Emit, RegionOf, EncodedRegion
<1> QED
  BY <1>1, <1>2, <1>3, SizeOfAppend

LEMMA EmitSized ==
  ASSUME TypeOK, Bounded, Streaming, Sized, vec[curr] # << >>,
         NEW c \in CompressedSizes, Emit(c), base' = base
  PROVE  Sized'
<1> SUFFICES ASSUME Packed' PROVE
       /\ EmittedEnd' - base = Before' * REGION_SIZE + LastLen'
       /\ LastLen' \in 1 .. REGION_SIZE
       /\ EncodedSize(out')
            <= Before' * FullSize + compress_bound(LastLen') + HEADER_SIZE
  BY DEF Sized
<1>1. /\ Len(out) \in Nat
      /\ Len(out') = Len(out) + 1
      /\ out'[Len(out) + 1] = RegionOf(c)
      /\ \A i \in 1 .. Len(out) : out'[i] = out[i]
      /\ out # << >> => Len(out) >= 1
  BY RegionType DEF TypeOK, Emit
<1> DEFINE r == Len(vec[curr])
<1>2. r \in 1 .. REGION_SIZE /\ r \in Nat
  BY RegionAssumption DEF TypeOK, Bounded, Slot
<1>3. LastLen' = r /\ Before' = Len(out)
  BY <1>1 DEF LastLen, Before, RegionOf, EncodedRegion
<1>4. EmittedEnd' = EmittedEnd + r /\ EmittedEnd \in Nat /\ base \in Nat
  BY EmitStreams DEF Streaming, TypeOK, EmittedEnd
<1>5. /\ EncodedSize(out) \in Nat
      /\ EncodedSize(out') = EncodedSize(out) + HEADER_SIZE + c
      /\ c \in Nat
      /\ c <= compress_bound(r)
  BY OutSize, EncoderAssumption DEF Emit
<1> HIDE DEF r
<1>6. CASE out = << >>
  <2>1. EmittedEnd = base /\ EncodedSize(out) = 0
    BY <1>6, SizeOfNone DEF EmittedEnd, EndOf
  <2>2. Before' = 0 /\ 0 * REGION_SIZE = 0 /\ 0 * FullSize = 0
    BY <1>1, <1>3, <1>6, RegionAssumption, BoundNat
  <2> QED
    BY <1>2, <1>3, <1>4, <1>5, <2>1, <2>2, BoundNat
<1>7. CASE out # << >>
  <2> DEFINE L == Len(out)
  <2>0. L \in Nat /\ L >= 1
    BY <1>1, <1>7
  <2>1. Packed /\ LastLen = REGION_SIZE
    <3>1. Len(out') - 1 = Len(out)
      <4> DEFINE m == Len(out')
      <4>1. Len(out) \in Nat /\ m = Len(out) + 1
        BY <1>1
      <4> HIDE DEF m
      <4>2. m - 1 = Len(out)
        BY <4>1
      <4> QED
        BY <4>2 DEF m
    <3>2. \A i \in 1 .. Len(out) : out'[i] = out[i]
      BY <1>1
    <3>3. \A i \in 1 .. Len(out') - 1 : Len(out'[i].data) = REGION_SIZE
      BY DEF Packed
    <3>4. \A i \in 1 .. Len(out) : Len(out[i].data) = REGION_SIZE
      BY <3>1, <3>2, <3>3
    <3> HIDE DEF L
    <3>5. L \in 1 .. L /\ \A i \in 1 .. L - 1 : i \in 1 .. L
      BY <2>0
    <3> QED
      BY <3>4, <3>5 DEF Packed, LastLen, L
  <2>2. /\ EmittedEnd - base = Before * REGION_SIZE + REGION_SIZE
        /\ EncodedSize(out) <= Before * FullSize + FullSize
    <3>1. compress_bound(REGION_SIZE) \in Nat
      BY BoundNat, RegionAssumption
    <3>2. Before \in Nat
      <4> HIDE DEF L
      <4>1. L - 1 \in Nat
        BY <2>0
      <4> QED
        BY <4>1 DEF Before, L
    <3>3. Before * FullSize \in Nat
      BY <3>2, BoundNat
    <3> QED
      BY <1>7, <2>1, <3>1, <3>3, BoundNat DEF Sized, FullSize
  <2>3. /\ Before \in Nat /\ Before' = Before + 1
        /\ (Before + 1) * REGION_SIZE = Before * REGION_SIZE + REGION_SIZE
        /\ (Before + 1) * FullSize = Before * FullSize + FullSize
        /\ Before * REGION_SIZE \in Nat
        /\ Before * FullSize \in Nat
    <3>1. Before \in Nat /\ Before' = Before + 1
      <4> HIDE DEF L
      <4>1. L - 1 \in Nat /\ (L - 1) + 1 = L
        BY <2>0
      <4>2. Before = L - 1 /\ Before' = L
        BY <1>3 DEF Before, L
      <4> QED
        BY <4>1, <4>2
    <3> HIDE DEF Before
    <3> QED
      BY <3>1, BoundNat, RegionAssumption
  <2> QED
    BY <1>2, <1>3, <1>4, <1>5, <2>2, <2>3, BoundNat, RegionAssumption
<1> QED
  BY <1>6, <1>7

LEMMA SizedNext ==
  TypeOK /\ Bounded /\ Streaming /\ Sized /\ [Next]_vars => Sized'
<1> SUFFICES ASSUME TypeOK, Bounded, Streaming, Sized, [Next]_vars
             PROVE  Sized'
  OBVIOUS
<1>1. CASE UNCHANGED <<out, base>>
  BY <1>1 DEF Sized, Packed, LastLen, Before, EmittedEnd
<1>2. ASSUME NEW c \in CompressedSizes, Emit(c), base' = base,
             vec[curr] # << >>
      PROVE  Sized'
  BY <1>2, EmitSized
<1>3. CASE out' = << >>
  BY <1>3 DEF Sized
<1>4. ASSUME NEW k \in Chunks, NEW w \in WriterResults,
             NEW c \in CompressedSizes, WriteSwitches(k, w, c)
      PROVE  Sized'
  <2>1. k \in Nat
    BY EncoderAssumption
  <2>2. vec[curr] # << >> /\ base' = base
    BY <1>4, <2>1, RegionAssumption
    DEF WriteSwitches, NeedsPass, RemainingCap
  <2> QED
    BY <1>1, <1>2, <1>4, <2>2
    DEF WriteSwitches, PassFails, PassRefused, PassUnflushed
<1>5. ASSUME NEW w \in WriterResults, NEW c \in CompressedSizes, Flush(w, c)
      PROVE  Sized'
  BY <1>1, <1>2, <1>5 DEF Flush, PassFails, PassRefused, PassUnflushed
<1> QED
  BY <1>1, <1>3, <1>4, <1>5
  DEF Next, Write, FlushCall, WriteOversized, WritePanics, WriteFits,
      FlushEmpty, Reuse, vars

(* n bytes in regions of which all but the last are full, the last of r    *)
(* bytes: what max_encoded_size reserves is what the regions may take.     *)
LEMMA SizeReserved ==
  ASSUME NEW q \in Nat, NEW r \in 1 .. REGION_SIZE, NEW n,
         n = q * REGION_SIZE + r
  PROVE  /\ max_encoded_size(n) \in Nat
         /\ q * FullSize + compress_bound(r) + HEADER_SIZE
              <= max_encoded_size(n)
<1> DEFINE C == compress_bound(REGION_SIZE)
           H == HEADER_SIZE
           R == REGION_SIZE
<1>1. /\ R \in Nat \ {0} /\ C \in Nat /\ H \in Nat
      /\ compress_bound(r) \in Nat /\ compress_bound(0) \in Nat
      /\ FullSize = C + H
      /\ r \in Nat
  BY BoundNat, RegionAssumption DEF FullSize
<1> HIDE DEF C, H, R
<1>2. CeilDiv(n, R) = q + 1
  <2>1. n + R - 1 = (q + 1) * R + (r - 1)
    BY <1>1 DEF R
  <2>2. r - 1 \in 0 .. R - 1 /\ q + 1 \in Nat
    BY <1>1 DEF R
  <2>3. ((q + 1) * R + (r - 1)) \div R = q + 1
    BY <1>1, <2>2, DivIs
  <2> QED
    BY <2>1, <2>3 DEF CeilDiv
<1>3. q * FullSize = q * C + q * H /\ (q + 1) * H = q * H + H
  BY <1>1
<1>4. max_encoded_size(n)
        = (n \div R) * C + compress_bound(n % R) + CeilDiv(n, R) * H
  BY DEF max_encoded_size, C, H, R
<1>5. CASE r < R
  <2>1. n \div R = q /\ n % R = r
    <3>1. r \in 0 .. R - 1 /\ n = q * R + r
      BY <1>1, <1>5 DEF R
    <3> QED
      BY <1>1, <3>1, DivIs
  <2>2. max_encoded_size(n) = q * C + compress_bound(r) + (q + 1) * H
    BY <1>2, <1>4, <2>1
  <2>3. q * C \in Nat /\ q * H \in Nat
    BY <1>1
  <2> QED
    BY <1>1, <1>3, <2>2, <2>3 DEF H
<1>6. CASE r = R
  <2>1. n \div R = q + 1 /\ n % R = 0
    <3>1. 0 \in 0 .. R - 1 /\ q + 1 \in Nat
      BY <1>1
    <3>2. n = (q + 1) * R + 0
      BY <1>1, <1>6 DEF R
    <3> QED
      BY <1>1, <3>1, <3>2, DivIs
  <2>2. max_encoded_size(n) = (q + 1) * C + compress_bound(0) + (q + 1) * H
    BY <1>2, <1>4, <2>1
  <2>3. /\ q * C \in Nat /\ q * H \in Nat
        /\ (q + 1) * C = q * C + C
        /\ compress_bound(r) = C
    BY <1>1, <1>6 DEF C, R
  <2> QED
    BY <1>1, <1>3, <2>2, <2>3 DEF H
<1>7. r \in 1 .. R
  BY DEF R
<1> QED
  BY <1>1, <1>5, <1>6, <1>7

(* What max_encoded_size reserves for the bytes written is enough for the  *)
(* regions they became, for a caller that gives up no unflushed buffer.    *)
THEOREM ReservedSuffices == ASSUME CarefulReuse PROVE Spec => []MaxEncodedSize
<1>1. TypeOK /\ Streaming /\ Sized => MaxEncodedSize
  <2> SUFFICES ASSUME TypeOK, Streaming, Sized, phase = "flushed", Packed
               PROVE  EncodedSize(out) <= max_encoded_size(next - base)
    BY DEF MaxEncodedSize
  <2>1. /\ EmittedEnd = next
        /\ next \in Nat /\ base \in Nat /\ next - base \in Nat
        /\ out \in Seq(Regions)
    BY DEF Streaming, TypeOK
  <2>2. CASE out = << >>
    <3>1. next - base = 0 /\ EncodedSize(out) = 0
      BY <2>1, <2>2, SizeOfNone DEF EmittedEnd, EndOf
    <3>2. 0 <= max_encoded_size(0)
      <4>1. /\ 0 \div REGION_SIZE = 0 /\ 0 % REGION_SIZE = 0
            /\ CeilDiv(0, REGION_SIZE) = 0
        BY RegionAssumption DEF CeilDiv
      <4>2. /\ compress_bound(0) \in Nat
            /\ 0 * compress_bound(REGION_SIZE) = 0
            /\ 0 * HEADER_SIZE = 0
        BY BoundNat, RegionAssumption
      <4> QED
        BY <4>1, <4>2 DEF max_encoded_size
    <3> QED
      BY <3>1, <3>2
  <2>3. CASE out # << >>
    <3>1. Before \in Nat
      BY <2>1, <2>3 DEF Before
    <3>2. /\ next - base = Before * REGION_SIZE + LastLen
          /\ LastLen \in 1 .. REGION_SIZE
          /\ EncodedSize(out)
               <= Before * FullSize + compress_bound(LastLen) + HEADER_SIZE
      BY <2>1, <2>3 DEF Sized
    <3>3. PICK q \in Nat, r \in 1 .. REGION_SIZE, n \in Nat :
            q = Before /\ r = LastLen /\ n = next - base
      BY <2>1, <3>1, <3>2
    <3>4. /\ n = q * REGION_SIZE + r
          /\ EncodedSize(out) <= q * FullSize + compress_bound(r) + HEADER_SIZE
      BY <3>2, <3>3
    <3>5. q * FullSize + compress_bound(r) + HEADER_SIZE <= max_encoded_size(n)
      BY <3>4, SizeReserved
    <3>6. /\ EncodedSize(out) \in Int /\ max_encoded_size(n) \in Int
          /\ q * FullSize + compress_bound(r) + HEADER_SIZE \in Int
      <4>1. \A t \in Regions : t.size \in Nat
        BY DEF Regions
      <4>2. EncodedSize(out) \in Nat
        BY <2>1, <4>1, SizeOfType
      <4>3. compress_bound(r) \in Nat /\ q * FullSize \in Nat
        BY BoundNat, RegionAssumption
      <4> QED
        BY <3>4, <4>2, <4>3, SizeReserved, BoundNat
    <3> QED
      BY <3>3, <3>4, <3>5, <3>6
  <2> QED
    BY <2>2, <2>3
<1>2. Init => Sized
  BY DEF Init, Sized
<1>3. CleanBuffers
  BY DEF CarefulReuse
<1> QED
  BY <1>1, <1>2, <1>3, TypeInit, TypeNext, BoundedInit, BoundedNext,
     StreamingInit, StreamingNext, SizedNext, PTL DEF Spec
=============================================================================
