------------------------- MODULE StreamDecoderProofs -------------------------
(***************************************************************************)
(* Proofs about StreamDecoder for every source that an encoder made, with  *)
(* or without damage, every Reader, every read, and a caller that goes on  *)
(* after errors.                                                           *)
(***************************************************************************)
EXTENDS StreamDecoder, TLAPS

(* A piece of a sequence.                                                  *)
LEMMA PieceOf ==
  ASSUME NEW s \in Seq(Nat), NEW from \in Nat, NEW n \in Nat,
         from + n <= Len(s)
  PROVE  /\ SubSeq(s, from + 1, from + n) \in Seq(Nat)
         /\ Len(SubSeq(s, from + 1, from + n)) = n
         /\ \A j \in 1 .. n : SubSeq(s, from + 1, from + n)[j] = s[from + j]
  OBVIOUS

LEMMA SourceType ==
  ASSUME TypeOK
  PROVE  /\ IsSource(src)
         /\ Len(src) \in Nat /\ DOMAIN src = 1 .. Len(src)
         /\ pos \in 0 .. Len(src)
  BY DecoderAssumption DEF TypeOK, IsSource

(* The first bytes of a region, or all of them.                            *)
Begins(bytes, data) ==
  /\ Len(bytes) <= Len(data)
  /\ \A k \in 1 .. Len(bytes) : bytes[k] = data[k]

LEMMA Prefixed ==
  ASSUME NEW bytes \in Seq(Nat), NEW data \in Seq(Nat),
         Len(bytes) <= Len(data), NEW k \in 1 .. Len(bytes)
  PROVE  k \in 1 .. Len(data)
  OBVIOUS

LEMMA UndoneType ==
  ASSUME TypeOK, pos < Len(src), NEW bytes \in Undone
  PROVE  /\ pos + 1 \in 1 .. Len(src)
         /\ Incoming = src[pos + 1]
         /\ src[pos + 1].data \in Seq(Nat)
         /\ bytes \in Seq(Nat)
         /\ Begins(bytes, src[pos + 1].data)
         /\ ~CutOff(src[pos + 1]) => bytes = src[pos + 1].data
<1>1. pos + 1 \in 1 .. Len(src) /\ Incoming = src[pos + 1]
  BY SourceType DEF Incoming
<1> DEFINE data == src[pos + 1].data
<1>2. data \in Seq(Nat)
  BY <1>1, SourceType DEF IsSource
<1>3. CASE bytes = data
  BY <1>1, <1>2, <1>3 DEF Begins
<1>4. ASSUME NEW n \in 1 .. Len(data) - 1, bytes = SubSeq(data, 1, n)
      PROVE  bytes \in Seq(Nat) /\ Begins(bytes, data)
  <2> HIDE DEF data
  <2>1. /\ bytes \in Seq(Nat) /\ Len(bytes) = n
        /\ \A k \in 1 .. n : bytes[k] = data[0 + k]
    <3>1. n \in Nat /\ 0 \in Nat /\ 0 + n <= Len(data)
      BY <1>2
    <3>2. bytes = SubSeq(data, 0 + 1, 0 + n)
      BY <1>4
    <3> QED
      BY <1>2, <3>1, <3>2, PieceOf
  <2>2. n <= Len(data) /\ \A k \in 1 .. n : 0 + k = k
    BY <1>2
  <2>3. \A k \in 1 .. n : bytes[k] = data[k]
    BY <2>1, <2>2
  <2> QED
    BY <2>1, <2>2, <2>3 DEF Begins
<1> QED
  BY <1>1, <1>2, <1>3, <1>4 DEF Undone

(* What a pass may make of a region is no longer than it, and is junk or   *)
(* what the region begins with: all of it unless the block is cut off.     *)
LEMMA DecompressedType ==
  ASSUME TypeOK, pos < Len(src), NEW slot, NEW bytes \in Decompressed(slot)
  PROVE  /\ pos + 1 \in 1 .. Len(src)
         /\ Incoming = src[pos + 1]
         /\ src[pos + 1].data \in Seq(Nat)
         /\ bytes \in Seq(Nat)
         /\ Len(bytes) <= Len(src[pos + 1].data)
         /\ \/ bytes \in Undone
            \/ ~DictMatches(slot) /\ \A k \in 1 .. Len(bytes) : bytes[k] = Junk
<1>1. pos + 1 \in 1 .. Len(src) /\ Incoming = src[pos + 1]
  BY SourceType DEF Incoming
<1>2. src[pos + 1].data \in Seq(Nat)
  BY <1>1, SourceType DEF IsSource
<1>3. CASE bytes \in Undone
  BY <1>1, <1>2, <1>3, UndoneType DEF Begins
<1>4. ASSUME NEW whole \in Undone, bytes = JunkFor(whole)
      PROVE  /\ bytes \in Seq(Nat)
             /\ Len(bytes) <= Len(src[pos + 1].data)
             /\ \A k \in 1 .. Len(bytes) : bytes[k] = Junk
  <2>1. whole \in Seq(Nat) /\ Len(whole) <= Len(src[pos + 1].data)
    BY UndoneType DEF Begins
  <2>2. bytes \in Seq(Nat) /\ Len(bytes) = Len(whole)
    BY <1>4, <2>1 DEF JunkFor, Junk
  <2> QED
    BY <1>4, <2>1, <2>2 DEF JunkFor
<1>5. bytes \in Undone
        \/ (~DictMatches(slot) /\ \E whole \in Undone : bytes = JunkFor(whole))
  BY DEF Decompressed
<1> QED
  BY <1>1, <1>2, <1>3, <1>4, <1>5

LEMMA AcceptedIs ==
  ASSUME TypeOK, NEW slot, NEW bytes \in Accepted(slot)
  PROVE  pos < Len(src) /\ bytes \in Decompressed(slot) /\ HashMatches(bytes)
<1> DEFINE len == Len(src)
<1>1. /\ pos # len
      /\ bytes \in Decompressed(slot) /\ HashMatches(bytes)
  BY DEF Accepted
<1>2. pos \in 0 .. len /\ len \in Nat
  BY SourceType
<1> HIDE DEF len
<1>3. pos < len
  BY <1>1, <1>2
<1> QED
  BY <1>1, <1>3 DEF len

-----------------------------------------------------------------------------
(* What a pass does to the buffers, whatever comes of it.                  *)
LEMMA PassType ==
  ASSUME TypeOK, NEW slot \in Slot,
         PullFails(slot) \/ \E bytes \in Accepted(slot) : PullOk(slot, bytes)
  PROVE  /\ vec' \in [Slot -> Seq(Nat)]
         /\ lz4' \in LZ4Context
         /\ pos' \in 0 .. Len(src)
<1>1. ASSUME NEW bytes \in Decompressed(slot), pos < Len(src),
             Decompress(slot, bytes)
      PROVE  vec' \in [Slot -> Seq(Nat)] /\ lz4' \in LZ4Context
  BY <1>1, DecompressedType DEF TypeOK, Decompress, DictOf, LZ4Context
<1>2. CASE PullUnavailable
  BY <1>2 DEF TypeOK, PullUnavailable
<1>3. CASE PullMalformed(slot)
  <2>1. vec' \in [Slot -> Seq(Nat)] /\ UNCHANGED pos
    BY <1>3 DEF TypeOK, PullMalformed
  <2>2. lz4' \in LZ4Context
    BY <1>3 DEF TypeOK, PullMalformed, Touch, LZ4Context
  <2> QED
    BY <2>1, <2>2 DEF TypeOK
<1>4. CASE PullInvalidHash(slot)
  BY <1>1, <1>4 DEF TypeOK, PullInvalidHash
<1>5. ASSUME NEW bytes \in Accepted(slot), PullOk(slot, bytes)
      PROVE  /\ vec' \in [Slot -> Seq(Nat)] /\ lz4' \in LZ4Context
             /\ pos' \in 0 .. Len(src)
  BY <1>1, <1>5, AcceptedIs, SourceType DEF PullOk
<1> QED
  BY <1>2, <1>3, <1>4, <1>5 DEF PullFails, TypeOK

LEMMA ServeType ==
  ASSUME got \in Seq(Nat), NEW bytes \in Seq(Nat), NEW from \in Nat,
         NEW n \in Nat, from + n <= Len(bytes), Serve(bytes, from, n)
  PROVE  got' \in Seq(Nat) /\ cursor' \in Nat
  BY PieceOf DEF Serve

LEMMA DecoderTypeInit == Init => TypeOK
<1> SUFFICES ASSUME Init PROVE TypeOK
  OBVIOUS
<1>1. RawBuffers \cup {FreshBuffer} \subseteq
        [vec : [Slot -> Seq(Nat)], curr : Slot, cursor : Nat]
  <2>1. FreshBuffer \in [vec : [Slot -> Seq(Nat)], curr : Slot, cursor : Nat]
    BY DEF FreshBuffer, Slot
  <2> QED
    BY <2>1, DecoderAssumption
<1>2. vec \in [Slot -> Seq(Nat)] /\ curr \in Slot /\ cursor \in Nat
  BY <1>1 DEF Init, InitDecoder
<1>3. lz4 \in LZ4Context
  BY DEF Init, InitDecoder, NoDict, LZ4Context, Slot
<1>4. src \in Streams /\ pos \in 0 .. Len(src)
  BY DecoderAssumption DEF Init, InitDecoder, IsSource
<1>5. erred \in BOOLEAN
  BY DEF Init, InitDecoder
<1> QED
  BY <1>2, <1>3, <1>4, <1>5 DEF Init, InitDecoder, TypeOK, Phases

LEMMA DecoderTypeNext == TypeOK /\ [Next]_vars => TypeOK'
<1> SUFFICES ASSUME TypeOK, [Next]_vars PROVE TypeOK'
  OBVIOUS
<1>1. CASE Build
  <2>1. vec' \in [Slot -> Seq(Nat)] /\ lz4' \in LZ4Context
          /\ pos' \in 0 .. Len(src)
    BY <1>1, PassType DEF Build, TypeOK
  <2>2. /\ phase' \in Phases
        /\ cursor' \in Nat
        /\ UNCHANGED <<curr, seed, src, got, streams>>
    BY <1>1 DEF Build, Opened, Errs, TypeOK, Phases
  <2>3. erred' \in BOOLEAN
    BY <1>1 DEF Build, Opened, Errs, TypeOK
  <2> QED
    BY <2>1, <2>2, <2>3 DEF TypeOK
<1>2. ASSUME NEW n \in ReadSizes, ReadPanics \/ ReadPastEnd PROVE TypeOK'
  BY <1>2 DEF ReadPanics, ReadPastEnd, Errs, TypeOK, Phases
<1>2a. ASSUME NEW n \in ReadSizes, ReadAstray(n) PROVE TypeOK'
  BY <1>2a DEF ReadAstray, TypeOK, Phases
<1>3. ASSUME NEW n \in ReadSizes, ReadServed(n) PROVE TypeOK'
  <2>1. vec[curr] \in Seq(Nat) /\ n \in Nat /\ cursor \in Nat
    BY DecoderAssumption DEF TypeOK
  <2>2. cursor + n <= Len(vec[curr])
    BY <1>3, <2>1 DEF ReadServed, NeedsPull, LenOverflows, RemainingLen
  <2>3. got' \in Seq(Nat) /\ cursor' \in Nat
    BY <1>3, <2>1, <2>2, ServeType DEF ReadServed, TypeOK
  <2> QED
    BY <1>3, <2>3 DEF ReadServed, Serve, TypeOK, Phases
<1>4. ASSUME NEW n \in ReadSizes, ReadPulls(n) PROVE TypeOK'
  <2>1. curr' \in Slot /\ n \in Nat
    BY <1>4, DecoderAssumption DEF ReadPulls, Swapped, TypeOK, Slot
  <2>2. vec' \in [Slot -> Seq(Nat)] /\ lz4' \in LZ4Context
          /\ pos' \in 0 .. Len(src)
    BY <1>4, <2>1, PassType DEF ReadPulls
  <2>3. CASE Errs("failed") /\ UNCHANGED got /\ cursor' \in Nat
    BY <1>4, <2>1, <2>2, <2>3 DEF ReadPulls, Errs, TypeOK, Phases
  <2>4. ASSUME NEW bytes \in Accepted(curr'), n <= Len(bytes),
               Serve(bytes, 0, n)
        PROVE  TypeOK'
    <3>1. bytes \in Seq(Nat)
      BY <2>4, AcceptedIs, DecompressedType
    <3>2. got' \in Seq(Nat) /\ cursor' \in Nat
      BY <2>1, <2>4, <3>1, ServeType DEF TypeOK
    <3> QED
      BY <1>4, <2>1, <2>2, <2>4, <3>2 DEF ReadPulls, Serve, TypeOK, Phases
  <2> QED
    BY <1>4, <2>3, <2>4 DEF ReadPulls, TypeOK
<1>5. ASSUME NEW s \in Seeds, NEW regions \in Streams, Reuse(s, regions)
      PROVE  TypeOK'
  <2>1. lz4' \in LZ4Context
    BY <1>5 DEF Reuse, NoDict, LZ4Context, Slot
  <2>2. src' \in Streams /\ pos' \in 0 .. Len(src')
    BY <1>5, DecoderAssumption DEF Reuse, IsSource
  <2>3. erred' \in BOOLEAN
    BY <1>5 DEF Reuse
  <2> QED
    BY <1>5, <2>1, <2>2, <2>3 DEF Reuse, TypeOK, Phases
<1>6. CASE UNCHANGED vars
  BY <1>6 DEF TypeOK, vars
<1> QED
  BY <1>1, <1>2, <1>2a, <1>3, <1>4, <1>5, <1>6 DEF Next, Read

(* The state of a decoder keeps its type, for a caller that reads on after *)
(* every error and for buffers of any origin.                              *)
THEOREM DecoderTyping == Spec => []TypeOK
<1> QED
  BY DecoderTypeInit, DecoderTypeNext, PTL DEF Spec

-----------------------------------------------------------------------------
(* Before the first region, and from then on until a call fails, the state *)
(* is as the calls document it.                                            *)
Settled ==
  /\ phase = "new" => pos = 0 /\ lz4 = NoDict /\ got = << >> /\ ~erred
  /\ phase \in {"failed", "dead", "panicked"} => erred
  /\ WindowReady

LEMMA SettledInit == Init => Settled
  BY DEF Init, InitDecoder, Settled, WindowReady

(* A pass that succeeds.                                                   *)
LEMMA PassReady ==
  ASSUME TypeOK, NEW slot \in Slot, NEW bytes \in Accepted(slot),
         PullOk(slot, bytes)
  PROVE  /\ bytes \in Seq(Nat)
         /\ vec' = [vec EXCEPT ![slot] = bytes]
         /\ vec'[slot] = bytes
         /\ lz4' = DictOf(slot, bytes)
         /\ pos' = pos + 1
         /\ pos' \in 1 .. Len(src)
<1>1. bytes \in Seq(Nat) /\ pos + 1 \in 1 .. Len(src)
  BY AcceptedIs, DecompressedType
<1> QED
  BY <1>1 DEF PullOk, Decompress, TypeOK

(* The members of two sequences in one.                                    *)
LEMMA Concatenated ==
  ASSUME NEW s \in Seq(Nat), NEW t \in Seq(Nat)
  PROVE  /\ Len(s) \in Nat
         /\ Len(s \o t) = Len(s) + Len(t)
         /\ \A i \in 1 .. Len(s) : (s \o t)[i] = s[i]
         /\ \A i \in 1 .. Len(s \o t) : i > Len(s) =>
              i - Len(s) \in 1 .. Len(t) /\ (s \o t)[i] = t[i - Len(s)]
  OBVIOUS

(* Bytes that are served, behind those that were.                          *)
LEMMA ServedBytes ==
  ASSUME got \in Seq(Nat), NEW bytes \in Seq(Nat), NEW from \in Nat,
         NEW n \in Nat, from + n <= Len(bytes), Serve(bytes, from, n)
  PROVE  /\ Len(got) \in Nat
         /\ Len(got') = Len(got) + n
         /\ \A i \in 1 .. Len(got) : got'[i] = got[i]
         /\ \A i \in 1 .. Len(got') : i > Len(got) =>
              /\ i - Len(got) \in 1 .. n
              /\ got'[i] = bytes[from + (i - Len(got))]
         /\ phase' = "open" /\ cursor' = from + n /\ erred' = erred
<1> DEFINE piece == SubSeq(bytes, from + 1, from + n)
<1>1. /\ piece \in Seq(Nat)
      /\ Len(piece) = n
      /\ \A j \in 1 .. n : piece[j] = bytes[from + j]
  BY PieceOf
<1>2. got' = got \o piece
  BY DEF Serve
<1> HIDE DEF piece
<1>3. /\ Len(got') = Len(got) + n
      /\ \A i \in 1 .. Len(got) : got'[i] = got[i]
      /\ \A i \in 1 .. Len(got') : i > Len(got) =>
           i - Len(got) \in 1 .. n /\ got'[i] = piece[i - Len(got)]
  BY <1>1, <1>2, Concatenated
<1>4. phase' = "open" /\ cursor' = from + n /\ erred' = erred
  BY DEF Serve
<1>5. Len(got) \in Nat
  OBVIOUS
<1>6. ASSUME NEW i \in 1 .. Len(got'), i > Len(got)
      PROVE  /\ i - Len(got) \in 1 .. n
             /\ got'[i] = bytes[from + (i - Len(got))]
  BY <1>1, <1>3, <1>6
<1> QED
  BY <1>3, <1>4, <1>5, <1>6

(* A read of an open decoder that has not failed.                          *)
LEMMA ReadFits ==
  ASSUME TypeOK, Settled, ~erred, NEW n \in ReadSizes,
         ReadServed(n) \/ ReadPulls(n)
  PROVE  /\ phase = "open" /\ n \in Nat
         /\ vec[curr] \in Seq(Nat)
         /\ cursor \in 0 .. Len(vec[curr])
         /\ ReadServed(n) => cursor + n <= Len(vec[curr])
         /\ lz4 = DictOf(curr, vec[curr])
         /\ pos > 0
<1>1. phase = "open"
  BY DEF ReadServed, ReadPulls, CanRead, Settled
<1>2. n \in Nat /\ vec[curr] \in Seq(Nat)
  BY DecoderAssumption DEF TypeOK
<1>3. /\ cursor \in 0 .. Len(vec[curr])
      /\ lz4 = DictOf(curr, vec[curr])
      /\ pos > 0
  BY <1>1 DEF Settled, WindowReady
<1>4. ReadServed(n) => cursor + n <= Len(vec[curr])
  BY <1>2, <1>3 DEF ReadServed, NeedsPull, LenOverflows, RemainingLen
<1> QED
  BY <1>1, <1>2, <1>3, <1>4

(* What a call that is not Reuse may do to a decoder that has not failed:  *)
(* it fails; it does nothing; it goes astray; it opens the decoder with    *)
(* the first region; it serves from the current region, or from the next.  *)
FailsNow == erred' /\ phase' # "open" /\ phase' # "new"
GoesAstray ==
  phase' = "astray" /\ UNCHANGED <<lz4, seed, src, pos, got, erred, streams>>
Opens ==
  /\ phase = "new"
  /\ \E bytes \in Accepted(curr) : PullOk(curr, bytes)
  /\ Opened
  /\ UNCHANGED <<curr, seed, src, got, streams>>
ServesHere(n) ==
  /\ phase = "open"
  /\ cursor + n <= Len(vec[curr])
  /\ Serve(vec[curr], cursor, n)
  /\ UNCHANGED <<vec, curr, lz4, seed, src, pos, streams>>
ServesNext(n) ==
  /\ phase = "open"
  /\ ~Astray
  /\ curr' = Swapped(curr)
  /\ \E bytes \in Accepted(curr') :
       /\ PullOk(curr', bytes)
       /\ n <= Len(bytes)
       /\ Serve(bytes, 0, n)
  /\ UNCHANGED <<seed, src, streams>>

LEMMA CallOutcomes ==
  ASSUME TypeOK, Settled, ~erred, [Next]_vars
  PROVE  \/ FailsNow
         \/ UNCHANGED vars
         \/ GoesAstray
         \/ Opens
         \/ \E n \in ReadSizes : ServesHere(n) \/ ServesNext(n)
         \/ \E s \in Seeds, regions \in Streams : Reuse(s, regions)
<1>1. CASE Build
  BY <1>1 DEF Build, Errs, FailsNow, Opens
<1>2. CASE ReadPanics \/ ReadPastEnd
  BY <1>2 DEF ReadPanics, ReadPastEnd, Errs, FailsNow
<1>3. ASSUME NEW n \in ReadSizes, ReadServed(n) PROVE ServesHere(n)
  BY <1>3, ReadFits DEF ReadServed, ServesHere
<1>4. ASSUME NEW n \in ReadSizes, ReadPulls(n)
      PROVE  FailsNow \/ ServesNext(n)
  BY <1>4, ReadFits DEF ReadPulls, Errs, FailsNow, ServesNext
<1>5. ASSUME NEW n \in ReadSizes, ReadAstray(n) PROVE GoesAstray
  BY <1>5 DEF ReadAstray, GoesAstray
<1> QED
  BY <1>1, <1>2, <1>3, <1>4, <1>5 DEF Next, Read

(* After a failure a decoder that goes on is still one that has failed.    *)
LEMMA FailureLasts ==
  ASSUME TypeOK, Settled, erred, [Next]_vars
  PROVE  \/ erred' /\ phase' # "new"
         \/ \E s \in Seeds, regions \in Streams : Reuse(s, regions)
<1>1. phase # "new"
  BY DEF Settled
<1>2. CASE Build
  BY <1>1, <1>2 DEF Build
<1>3. ASSUME NEW n \in ReadSizes, Read(n) PROVE erred' /\ phase' # "new"
  BY <1>3 DEF Read, ReadPanics, ReadPastEnd, ReadServed, ReadPulls, ReadAstray,
              Serve, Errs
<1>4. CASE UNCHANGED vars
  BY <1>1, <1>4 DEF vars
<1> QED
  BY <1>2, <1>3, <1>4 DEF Next

LEMMA SettledNext == TypeOK /\ Settled /\ [Next]_vars => Settled'
<1> SUFFICES ASSUME TypeOK, Settled, [Next]_vars PROVE Settled'
  OBVIOUS
<1>1. CASE erred' /\ phase' # "new"
  BY <1>1 DEF Settled, WindowReady
<1>2. ASSUME NEW s \in Seeds, NEW regions \in Streams, Reuse(s, regions)
      PROVE  Settled'
  BY <1>2 DEF Reuse, Settled, WindowReady
<1>3. CASE UNCHANGED vars
  BY <1>3 DEF Settled, WindowReady, vars
<1>3a. CASE GoesAstray
  BY <1>3a DEF GoesAstray, Settled, WindowReady
<1>4. CASE ~erred /\ Opens
  <2>1. PICK bytes \in Accepted(curr) : PullOk(curr, bytes)
    BY <1>4 DEF Opens
  <2>2. /\ bytes \in Seq(Nat) /\ vec'[curr] = bytes
        /\ lz4' = DictOf(curr, bytes) /\ pos' \in 1 .. Len(src)
    BY <2>1, PassReady DEF TypeOK
  <2>3. /\ cursor' \in 0 .. Len(vec'[curr'])
        /\ lz4' = DictOf(curr', vec'[curr'])
        /\ pos' > 0
    BY <1>4, <2>2 DEF Opens, Opened
  <2> QED
    BY <1>4, <2>3 DEF Opens, Opened, Settled, WindowReady
<1>5. ASSUME ~erred, NEW n \in ReadSizes, ServesHere(n) PROVE Settled'
  <2>1. /\ vec[curr] \in Seq(Nat) /\ n \in Nat /\ cursor \in Nat
        /\ got \in Seq(Nat)
    BY DecoderAssumption DEF TypeOK
  <2>2. phase' = "open" /\ cursor' = cursor + n /\ erred' = erred
    BY <1>5, <2>1, ServedBytes DEF ServesHere
  <2>3. /\ cursor' \in 0 .. Len(vec'[curr'])
        /\ lz4' = DictOf(curr', vec'[curr'])
        /\ pos' > 0
    BY <1>5, <2>1, <2>2 DEF ServesHere, Settled, WindowReady
  <2> QED
    BY <2>2, <2>3, <1>5 DEF Settled, WindowReady
<1>6. ASSUME ~erred, NEW n \in ReadSizes, ServesNext(n) PROVE Settled'
  <2>1. PICK bytes \in Accepted(curr') :
          PullOk(curr', bytes) /\ n <= Len(bytes) /\ Serve(bytes, 0, n)
    BY <1>6 DEF ServesNext
  <2>2. curr' \in Slot /\ n \in Nat /\ got \in Seq(Nat)
    BY <1>6, DecoderAssumption DEF ServesNext, Swapped, TypeOK, Slot
  <2>3. /\ bytes \in Seq(Nat) /\ vec'[curr'] = bytes
        /\ lz4' = DictOf(curr', bytes) /\ pos' \in 1 .. Len(src)
    BY <2>1, <2>2, PassReady
  <2>4. phase' = "open" /\ cursor' = 0 + n /\ erred' = erred
    BY <2>1, <2>2, <2>3, ServedBytes
  <2>5. /\ cursor' \in 0 .. Len(vec'[curr'])
        /\ lz4' = DictOf(curr', vec'[curr'])
        /\ pos' > 0
    BY <2>1, <2>2, <2>3, <2>4
  <2> QED
    BY <1>6, <2>4, <2>5 DEF Settled, WindowReady
<1> QED
  BY <1>1, <1>2, <1>3, <1>3a, <1>4, <1>5, <1>6, CallOutcomes, FailureLasts
  DEF FailsNow

LEMMA SettledInvariant == Spec => [](TypeOK /\ Settled)
  BY DecoderTypeInit, DecoderTypeNext, SettledInit, SettledNext, PTL DEF Spec

(* Until a read fails, the cursor is inside the current region, and that   *)
(* region is the dictionary for the next, in the other buffer.             *)
THEOREM WindowAlwaysReady == Spec => []WindowReady
<1>1. Settled => WindowReady
  BY DEF Settled
<1> QED
  BY <1>1, SettledInvariant, PTL

(* No call before the first error, nor the failing one, writes to the      *)
(* memory that LZ4 has as dictionary.                                      *)
THEOREM WindowAlwaysKept == Spec => WindowKept
<1> DEFINE Kept == ~erred /\ streams' = streams /\ lz4.data # << >> /\ lz4.intact
                     => vec'[lz4.at] = lz4.data
<1>1. TypeOK /\ Settled /\ [Next]_vars => [Kept]_vars
  <2> SUFFICES ASSUME TypeOK, Settled, Next, ~erred, streams' = streams,
                      lz4.data # << >>
               PROVE  vec'[lz4.at] = lz4.data
    OBVIOUS
  <2>0. phase # "astray"
    BY DEF Next, Build, Read, ReadPanics, ReadPastEnd, ReadServed, ReadPulls,
           ReadAstray, CanRead, Reuse
  <2>1. phase = "open" /\ lz4 = DictOf(curr, vec[curr])
    BY <2>0 DEF Settled, WindowReady, NoDict, TypeOK, Phases
  <2>2. /\ lz4.at = curr /\ lz4.data = vec[curr]
        /\ curr \in Slot /\ Swapped(curr) \in Slot /\ Swapped(curr) # curr
    BY <2>1 DEF DictOf, TypeOK, Slot, Swapped
  <2>3. CASE UNCHANGED vec
    BY <2>2, <2>3
  <2>4. ASSUME NEW v, vec' = [vec EXCEPT ![Swapped(curr)] = v]
        PROVE  vec'[curr] = vec[curr]
    BY <2>2, <2>4 DEF TypeOK
  <2>5. ASSUME NEW n \in ReadSizes, ReadPulls(n) PROVE vec'[curr] = vec[curr]
    <3>1. PullFails(Swapped(curr))
            \/ \E bytes \in Accepted(Swapped(curr)) : PullOk(Swapped(curr), bytes)
      BY <2>5 DEF ReadPulls
    <3> QED
      BY <2>2, <2>4, <3>1
      DEF PullFails, PullUnavailable, PullMalformed, PullInvalidHash, PullOk,
          Decompress
  <2>6. CASE Build
    BY <2>1, <2>6 DEF Build
  <2>7. ASSUME NEW s \in Seeds, NEW regions \in Streams, Reuse(s, regions)
        PROVE  FALSE
    BY <2>7 DEF Reuse, TypeOK
  <2> QED
    BY <2>2, <2>3, <2>5, <2>6, <2>7
    DEF Next, Read, ReadPanics, ReadPastEnd, ReadServed, ReadAstray
<1> QED
  BY <1>1, SettledInvariant, PTL DEF Spec, WindowKept

-----------------------------------------------------------------------------
(* What the current buffer holds, in terms of the source: what the region  *)
(* that the source was advanced over last begins with, or as much junk;    *)
(* with a hash to check, or without damage, it is not junk, and all of the *)
(* region unless its block is cut off.                                     *)
IsRegion(bytes, r) ==
  /\ Len(bytes) <= Len(src[r].data)
  /\ \/ Begins(bytes, src[r].data)
     \/ \A k \in 1 .. Len(bytes) : bytes[k] = Junk
  /\ (seed # NoSeed \/ Undamaged) =>
       /\ Begins(bytes, src[r].data)
       /\ src[r].header.hash = HashOf(seed, src[r].data)
       /\ ~CutOff(src[r]) => bytes = src[r].data

(* All that was served comes before what has not been served.              *)
Precedes(served, from, r) ==
  \A i \in 1 .. Len(served) : served[i] # Junk =>
    /\ \A j \in 1 .. Len(src[r].data) : j > from => served[i] < src[r].data[j]
    /\ \A q \in 1 .. Len(src) : q > r =>
         \A j \in 1 .. Len(src[q].data) : served[i] < src[q].data[j]

Tracked ==
  ~erred =>
    /\ NeverRewinds
    /\ Verified
    /\ phase = "open" => IsRegion(vec[curr], pos) /\ Precedes(got, cursor, pos)

(* What a pass accepts is the region that comes next.                      *)
LEMMA AcceptedIsRegion ==
  ASSUME TypeOK, NEW slot \in Slot, NEW bytes \in Accepted(slot),
         \/ pos = 0 /\ lz4 = NoDict
         \/ /\ pos > 0 /\ ~Astray /\ slot = Swapped(curr) /\ curr \in Slot
            /\ lz4 = DictOf(curr, vec[curr])
            /\ IsRegion(vec[curr], pos)
  PROVE  pos + 1 \in 1 .. Len(src) /\ IsRegion(bytes, pos + 1)
<1> DEFINE r == pos + 1
<1>1. /\ pos < Len(src) /\ bytes \in Decompressed(slot) /\ HashMatches(bytes)
      /\ r \in 1 .. Len(src) /\ Incoming = src[r]
      /\ bytes \in Seq(Nat)
      /\ Len(bytes) <= Len(src[r].data)
      /\ \/ bytes \in Undone
         \/ ~DictMatches(slot) /\ \A k \in 1 .. Len(bytes) : bytes[k] = Junk
  BY AcceptedIs, DecompressedType
<1>1a. ASSUME bytes \in Undone
       PROVE  /\ Begins(bytes, src[r].data)
              /\ ~CutOff(src[r]) => bytes = src[r].data
  BY <1>1, <1>1a, UndoneType
<1>2. /\ src[r].dict.data = IF r = 1 THEN << >> ELSE src[r - 1].data
      /\ src[r].header.hash = ZeroHash \/ src[r].header.hash.data = src[r].data
  BY <1>1, SourceType DEF IsSource
<1>3. src[r].header.hash = HashOf(seed, bytes)
  BY <1>1 DEF HashMatches
<1>4. ASSUME seed # NoSeed PROVE bytes = src[r].data
  <2>1. HashOf(seed, bytes) = [seed |-> seed, data |-> bytes]
    BY <1>4 DEF HashOf
  <2>2. HashOf(seed, bytes) # ZeroHash
    BY <1>4, <2>1 DEF ZeroHash
  <2> QED
    BY <1>2, <1>3, <2>1, <2>2
<1>5. ASSUME Undamaged PROVE bytes \in Undone
  <2>1. src[r].dict.intact
    BY <1>1, <1>5 DEF Undamaged
  <2>2. CASE pos = 0 /\ lz4 = NoDict
    <3>1. DictMatches(slot)
      BY <1>1, <1>2, <2>1, <2>2 DEF DictMatches, NoDict
    <3> QED
      BY <1>1, <3>1
  <2>3. CASE /\ pos > 0 /\ ~Astray /\ slot = Swapped(curr) /\ curr \in Slot
             /\ lz4 = DictOf(curr, vec[curr])
             /\ IsRegion(vec[curr], pos)
    <3>1. vec[curr] = src[pos].data
      BY <1>5, <2>3 DEF IsRegion, Astray
    <3>2. src[r].dict.data = src[pos].data
      BY <1>2, <2>3, SourceType
    <3>3. slot # curr
      BY <2>3 DEF Swapped, Slot
    <3>4. DictMatches(slot)
      BY <1>1, <2>1, <2>3, <3>1, <3>2, <3>3 DEF DictMatches, DictOf
    <3> QED
      BY <1>1, <3>4
  <2> QED
    BY <2>2, <2>3
<1> HIDE DEF r
<1>6. seed # NoSeed \/ Undamaged =>
        /\ Begins(bytes, src[r].data)
        /\ src[r].header.hash = HashOf(seed, src[r].data)
        /\ ~CutOff(src[r]) => bytes = src[r].data
  <2>1. CASE seed # NoSeed
    BY <1>1, <1>3, <1>4, <2>1 DEF Begins
  <2>2. CASE seed = NoSeed /\ Undamaged
    <3>1. src[r].header.hash = HashOf(seed, src[r].data)
      BY <1>3, <2>2 DEF HashOf
    <3> QED
      BY <1>1a, <1>5, <2>2, <3>1
  <2> QED
    BY <2>1, <2>2
<1>7. IsRegion(bytes, r)
  BY <1>1, <1>1a, <1>6 DEF IsRegion
<1> QED
  BY <1>1, <1>7 DEF r

(* Serving bytes of a region that what was served precedes keeps the order *)
(* and the promise of verification.                                        *)
LEMMA ServeTracked ==
  ASSUME TypeOK, ~erred, NeverRewinds, Verified,
         NEW r \in 1 .. Len(src), r >= pos,
         NEW bytes \in Seq(Nat), IsRegion(bytes, r),
         NEW from \in Nat, NEW n \in Nat, from + n <= Len(bytes),
         Precedes(got, from, r), Serve(bytes, from, n),
         UNCHANGED <<seed, src>>, pos' = r, vec'[curr'] = bytes
  PROVE  Tracked'
<1> DEFINE at(i) == from + (i - Len(got))
<1>1. /\ Len(got) \in Nat
      /\ Len(got') = Len(got) + n
      /\ \A i \in 1 .. Len(got) : got'[i] = got[i]
      /\ phase' = "open" /\ cursor' = from + n /\ erred' = erred
  BY ServedBytes DEF TypeOK
<1>2. \A k \in 1 .. Len(bytes) : bytes[k] # Junk => bytes[k] = src[r].data[k]
  BY DEF IsRegion, Begins
<1>3. src[r].data \in Seq(Nat) /\ Len(bytes) <= Len(src[r].data)
  BY SourceType DEF IsSource, IsRegion
<1>4. \A q \in 1 .. Len(src) :
        \A k \in 1 .. Len(src[r].data), l \in 1 .. Len(src[q].data) :
          r < q \/ (r = q /\ k < l) => src[r].data[k] < src[q].data[l]
  BY SourceType DEF IsSource
(* A byte of got' was served before, or is a byte of the region.           *)
<1>5. ASSUME NEW i \in 1 .. Len(got')
      PROVE  \/ i \in 1 .. Len(got) /\ got'[i] = got[i]
             \/ /\ i > Len(got)
                /\ at(i) \in 1 .. Len(bytes)
                /\ at(i) \in 1 .. Len(src[r].data)
                /\ at(i) > from /\ at(i) <= from + n
                /\ got'[i] = bytes[at(i)]
                /\ got'[i] # Junk => got'[i] = src[r].data[at(i)]
  <2>1. CASE i <= Len(got)
    <3>1. i \in 1 .. Len(got)
      BY <1>1, <2>1
    <3> QED
      BY <1>1, <3>1
  <2>2. CASE i > Len(got)
    <3>1. i - Len(got) \in 1 .. n /\ got'[i] = bytes[at(i)]
      BY <2>2, ServedBytes DEF TypeOK
    <3>2. /\ at(i) \in 1 .. Len(bytes)
          /\ at(i) > from /\ at(i) <= from + n
      <4>1. Len(bytes) \in Nat /\ from + n <= Len(bytes)
        OBVIOUS
      <4>2. \A k \in 1 .. n : /\ from + k \in 1 .. Len(bytes)
                             /\ from + k > from /\ from + k <= from + n
        BY <4>1
      <4> QED
        BY <3>1, <4>2
    <3>3. at(i) \in 1 .. Len(src[r].data)
      BY <1>3, <3>2, Prefixed
    <3>4. got'[i] # Junk => got'[i] = src[r].data[at(i)]
      BY <1>2, <3>1, <3>2
    <3> QED
      BY <2>2, <3>1, <3>2, <3>3, <3>4
  <2> QED
    BY <1>1, <2>1, <2>2
<1>6. \A i, j \in 1 .. Len(got') : i < j => at(i) < at(j)
  BY <1>1
<1> HIDE DEF at
<1>7. NeverRewinds'
  <2> SUFFICES ASSUME NEW i \in 1 .. Len(got'), NEW j \in 1 .. Len(got'),
                      i < j, got'[i] # Junk, got'[j] # Junk
               PROVE  got'[i] < got'[j]
    BY DEF NeverRewinds
  <2>1. CASE j \in 1 .. Len(got) /\ got'[j] = got[j]
    <3>1. i \in 1 .. Len(got) /\ got'[i] = got[i]
      BY <1>1, <2>1
    <3> QED
      BY <2>1, <3>1 DEF NeverRewinds
  <2>2. CASE /\ at(j) \in 1 .. Len(src[r].data)
             /\ at(j) > from
             /\ got'[j] = src[r].data[at(j)]
    <3>1. CASE i \in 1 .. Len(got) /\ got'[i] = got[i]
      BY <2>2, <3>1 DEF Precedes
    <3>2. CASE at(i) \in 1 .. Len(src[r].data) /\ got'[i] = src[r].data[at(i)]
      BY <1>4, <1>6, <2>2, <3>2
    <3> QED
      BY <1>5, <3>1, <3>2
  <2> QED
    BY <1>5, <2>1, <2>2
<1>8. Precedes(got', from + n, r)
  <2> SUFFICES ASSUME NEW i \in 1 .. Len(got'), got'[i] # Junk
               PROVE  /\ \A j \in 1 .. Len(src[r].data) : j > from + n =>
                           got'[i] < src[r].data[j]
                      /\ \A q \in 1 .. Len(src) : q > r =>
                           \A j \in 1 .. Len(src[q].data) :
                             got'[i] < src[q].data[j]
    BY DEF Precedes
  <2>1. CASE i \in 1 .. Len(got) /\ got'[i] = got[i]
    <3>1. \A j \in 1 .. Len(src[r].data) : j > from + n => j > from
      BY <1>3
    <3> QED
      BY <2>1, <3>1 DEF Precedes
  <2>2. CASE /\ at(i) \in 1 .. Len(src[r].data)
             /\ at(i) <= from + n
             /\ got'[i] = src[r].data[at(i)]
    <3>1. \A j \in 1 .. Len(src[r].data) : j > from + n => at(i) < j
      BY <1>3, <2>2
    <3> QED
      BY <1>4, <2>2, <3>1
  <2> QED
    BY <1>5, <2>1, <2>2
<1>9. Verified'
  <2> SUFFICES ASSUME seed # NoSeed \/ Undamaged, NEW i \in 1 .. Len(got')
               PROVE  \E q \in 1 .. r :
                        /\ \E j \in 1 .. Len(src[q].data) : src[q].data[j] = got'[i]
                        /\ src[q].header.hash = HashOf(seed, src[q].data)
    BY DEF Verified, Undamaged
  <2>1. CASE i \in 1 .. Len(got) /\ got'[i] = got[i]
    <3>1. PICK q \in 1 .. pos :
            /\ \E j \in 1 .. Len(src[q].data) : src[q].data[j] = got[i]
            /\ src[q].header.hash = HashOf(seed, src[q].data)
      BY <2>1 DEF Verified
    <3>2. q \in 1 .. r
      BY SourceType
    <3> QED
      BY <2>1, <3>1, <3>2
  <2>2. CASE at(i) \in 1 .. Len(bytes) /\ got'[i] = bytes[at(i)]
    <3>1. src[r].header.hash = HashOf(seed, src[r].data)
      BY DEF IsRegion
    <3>2. at(i) \in 1 .. Len(src[r].data)
      BY <1>3, <2>2, Prefixed
    <3>3. src[r].data[at(i)] = got'[i]
      BY <2>2 DEF IsRegion, Begins
    <3>4. r \in 1 .. r
      BY SourceType
    <3> QED
      BY <3>1, <3>2, <3>3, <3>4
  <2> QED
    BY <1>5, <2>1, <2>2
<1>10. IsRegion(vec[curr], pos)'
  BY DEF IsRegion, Undamaged
<1>11. Precedes(got, cursor, pos)'
  BY <1>1, <1>8 DEF Precedes
<1> QED
  BY <1>7, <1>9, <1>10, <1>11 DEF Tracked

LEMMA TrackedInit == Init => Tracked
  BY DEF Init, InitDecoder, Tracked, NeverRewinds, Verified

LEMMA TrackedNext == TypeOK /\ Settled /\ Tracked /\ [Next]_vars => Tracked'
<1> SUFFICES ASSUME TypeOK, Settled, Tracked, [Next]_vars PROVE Tracked'
  OBVIOUS
<1>1. CASE erred'
  BY <1>1 DEF Tracked
<1>2. ASSUME NEW s \in Seeds, NEW regions \in Streams, Reuse(s, regions)
      PROVE  Tracked'
  BY <1>2 DEF Reuse, Tracked, NeverRewinds, Verified
<1>3. CASE UNCHANGED vars
  BY <1>3 DEF Tracked, NeverRewinds, Verified, Undamaged, IsRegion, Precedes,
              vars
<1>3a. CASE GoesAstray
  BY <1>3a DEF GoesAstray, Tracked, NeverRewinds, Verified, Undamaged
<1>4. CASE ~erred /\ Opens
  <2>1. PICK bytes \in Accepted(curr) : PullOk(curr, bytes)
    BY <1>4 DEF Opens
  <2>2. pos = 0 /\ lz4 = NoDict /\ got = << >>
    BY <1>4 DEF Opens, Settled
  <2>3. pos + 1 \in 1 .. Len(src) /\ IsRegion(bytes, pos + 1)
    BY <2>2, AcceptedIsRegion DEF TypeOK
  <2>4. vec'[curr] = bytes /\ pos' = pos + 1
    BY <2>1, PassReady DEF TypeOK
  <2>5. UNCHANGED <<curr, seed, src, got>>
    BY <1>4 DEF Opens
  <2>6. IsRegion(vec[curr], pos)'
    <3>1. vec'[curr'] = bytes /\ pos' = pos + 1 /\ UNCHANGED <<seed, src>>
      BY <2>4, <2>5
    <3>2. IsRegion(bytes, pos + 1)
      BY <2>3
    <3> QED
      BY <3>1, <3>2 DEF IsRegion, Undamaged
  <2>7. (got = << >>)'
    BY <2>2, <2>5
  <2>8. NeverRewinds' /\ Verified' /\ Precedes(got, cursor, pos)'
    BY <2>7 DEF NeverRewinds, Verified, Precedes
  <2> QED
    BY <2>6, <2>8 DEF Tracked
<1>5. ASSUME ~erred, NEW n \in ReadSizes, ServesHere(n) PROVE Tracked'
  <2>1. /\ vec[curr] \in Seq(Nat) /\ n \in Nat /\ cursor \in Nat
        /\ phase = "open"
    BY <1>5, DecoderAssumption DEF TypeOK, ServesHere
  <2>2. pos \in 1 .. Len(src)
    BY <1>5, <2>1, SourceType DEF Settled, WindowReady
  <2>3. /\ NeverRewinds /\ Verified
        /\ IsRegion(vec[curr], pos) /\ Precedes(got, cursor, pos)
    BY <1>5, <2>1 DEF Tracked
  <2>4. /\ cursor + n <= Len(vec[curr]) /\ Serve(vec[curr], cursor, n)
        /\ UNCHANGED <<seed, src>> /\ pos' = pos /\ vec'[curr'] = vec[curr]
    BY <1>5 DEF ServesHere
  <2> QED
    BY <1>5, <2>1, <2>2, <2>3, <2>4, ServeTracked
<1>6. ASSUME ~erred, NEW n \in ReadSizes, ServesNext(n) PROVE Tracked'
  <2>1. PICK bytes \in Accepted(curr') :
          PullOk(curr', bytes) /\ n <= Len(bytes) /\ Serve(bytes, 0, n)
    BY <1>6 DEF ServesNext
  <2>2. /\ curr' = Swapped(curr) /\ curr \in Slot /\ curr' \in Slot
        /\ n \in Nat /\ phase = "open"
    BY <1>6, DecoderAssumption DEF ServesNext, Swapped, TypeOK, Slot
  <2>3. /\ bytes \in Seq(Nat) /\ vec'[curr'] = bytes
        /\ pos' = pos + 1
    BY <2>1, <2>2, PassReady
  <2>4. /\ NeverRewinds /\ Verified
        /\ IsRegion(vec[curr], pos) /\ Precedes(got, cursor, pos)
    BY <1>6, <2>2 DEF Tracked
  <2>5. pos > 0 /\ ~Astray /\ lz4 = DictOf(curr, vec[curr])
    BY <1>6, <2>2 DEF Settled, WindowReady, ServesNext
  <2>6. pos + 1 \in 1 .. Len(src) /\ IsRegion(bytes, pos + 1)
    BY <2>1, <2>2, <2>4, <2>5, AcceptedIsRegion
  <2>7. pos \in Nat /\ pos + 1 >= pos
    BY SourceType
  <2>8. Precedes(got, 0, pos + 1)
    BY <2>4, <2>6, <2>7, SourceType DEF Precedes
  <2>9. UNCHANGED <<seed, src>>
    BY <1>6 DEF ServesNext
  <2>10. 0 + n <= Len(bytes)
    BY <2>1, <2>2
  <2> QED
    BY <1>6, <2>1, <2>2, <2>3, <2>4, <2>6, <2>7, <2>8, <2>9, <2>10,
       ServeTracked
<1> QED
  BY <1>1, <1>2, <1>3, <1>3a, <1>4, <1>5, <1>6, CallOutcomes, FailureLasts
  DEF FailsNow

LEMMA TrackedInvariant == Spec => [](TypeOK /\ Settled /\ Tracked)
  BY DecoderTypeInit, DecoderTypeNext, SettledInit, SettledNext,
     TrackedInit, TrackedNext, PTL DEF Spec

(* Until a read fails, no byte is served after a later one, or twice:      *)
(* for every source, damaged or not, and every way to cut it into reads.   *)
THEOREM OrderedUntilError == Spec => []InOrderUntilError
<1>1. Tracked /\ TypeOK => InOrderUntilError
  BY DEF Tracked, InOrderUntilError, TypeOK
<1> QED
  BY <1>1, TrackedInvariant, PTL

(* Until a read fails, every byte served came out of a region whose hash,  *)
(* made with the decoder's seed, agrees with it; without a seed, out of    *)
(* the regions of an undamaged source.                                     *)
THEOREM VerifiedUntilError == Spec => []Verified
<1>1. Tracked /\ TypeOK => Verified
  BY DEF Tracked, Verified, TypeOK
<1> QED
  BY <1>1, TrackedInvariant, PTL

-----------------------------------------------------------------------------
(* A buffer taken over from another bearer holds no byte of a source.      *)
JunkBuffers ==
  \A raw \in RawBuffers : \A s \in Slot : \A k \in 1 .. Len(raw.vec[s]) :
    raw.vec[s][k] = Junk

(* Junk, or the beginning of a region that the source has reached.         *)
IsPiece(bytes, p) ==
  \/ \A k \in 1 .. Len(bytes) : bytes[k] = Junk
  \/ \E r \in 1 .. Len(src) : r <= p + 1 /\ Begins(bytes, src[r].data)

(* All that either buffer holds while the first source is read, and after  *)
(* errors too.                                                             *)
Pieces ==
  /\ streams \in Nat \ {0}
  /\ streams = 1 => \A s \in Slot : IsPiece(vec[s], pos)

LEMMA PiecesInit == ASSUME JunkBuffers PROVE Init => Pieces
<1> SUFFICES ASSUME Init PROVE Pieces
  OBVIOUS
<1>1. PICK raw \in RawBuffers \cup {FreshBuffer} : vec = raw.vec
  BY DEF Init, InitDecoder
<1>2. CASE raw \in RawBuffers
  BY <1>1, <1>2 DEF JunkBuffers, Pieces, IsPiece, Init, InitDecoder
<1>3. CASE raw = FreshBuffer
  BY <1>1, <1>3 DEF FreshBuffer, Pieces, IsPiece, Init, InitDecoder
<1> QED
  BY <1>1, <1>2, <1>3

LEMMA DecompressedPiece ==
  ASSUME TypeOK, pos < Len(src), NEW slot, NEW bytes \in Decompressed(slot)
  PROVE  IsPiece(bytes, pos)
  BY DecompressedType, UndoneType, SourceType DEF IsPiece

(* A pass leaves pieces in both buffers, whatever comes of it.             *)
LEMMA PassPieces ==
  ASSUME TypeOK, Pieces, streams = 1, src' = src, NEW slot \in Slot,
         PullFails(slot) \/ \E bytes \in Accepted(slot) : PullOk(slot, bytes)
  PROVE  \A s \in Slot : IsPiece(vec'[s], pos')
<1>1. pos \in Nat /\ (pos' = pos \/ pos' = pos + 1)
  BY SourceType
  DEF PullFails, PullUnavailable, PullMalformed, PullInvalidHash, PullOk
<1>2. ASSUME NEW piece, IsPiece(piece, pos) PROVE IsPiece(piece, pos')
  <2>1. CASE \A k \in 1 .. Len(piece) : piece[k] = Junk
    BY <2>1 DEF IsPiece
  <2>2. ASSUME NEW r \in 1 .. Len(src), r <= pos + 1,
               Begins(piece, src[r].data)
        PROVE  IsPiece(piece, pos')
    <3>1. r \in Nat
      BY SourceType
    <3>2. r <= pos' + 1
      BY <1>1, <2>2, <3>1
    <3> QED
      BY <2>2, <3>2 DEF IsPiece
  <2> QED
    BY <1>2, <2>1, <2>2 DEF IsPiece
<1>3. \A s \in Slot : IsPiece(vec[s], pos)
  BY DEF Pieces
<1>4. ASSUME NEW bytes, IsPiece(bytes, pos), vec' = [vec EXCEPT ![slot] = bytes]
      PROVE  \A s \in Slot : IsPiece(vec'[s], pos')
  BY <1>2, <1>3, <1>4 DEF TypeOK
<1>5. CASE PullUnavailable
  BY <1>2, <1>3, <1>5 DEF PullUnavailable
<1>6. CASE PullMalformed(slot)
  <2>1. IsPiece(<< >>, pos)
    BY DEF IsPiece
  <2> QED
    BY <1>4, <1>6, <2>1 DEF PullMalformed
<1>7. CASE PullInvalidHash(slot)
  <2>1. PICK bytes \in Decompressed(slot) : Decompress(slot, bytes)
    BY <1>7 DEF PullInvalidHash
  <2>2. IsPiece(bytes, pos)
    BY <1>7, DecompressedPiece DEF PullInvalidHash
  <2> QED
    BY <1>4, <2>1, <2>2 DEF Decompress
<1>8. ASSUME NEW bytes \in Accepted(slot), PullOk(slot, bytes)
      PROVE  \A s \in Slot : IsPiece(vec'[s], pos')
  <2>1. IsPiece(bytes, pos)
    BY AcceptedIs, DecompressedPiece
  <2> QED
    BY <1>4, <1>8, <2>1 DEF PullOk, Decompress
<1> QED
  BY <1>5, <1>6, <1>7, <1>8 DEF PullFails

LEMMA PiecesNext == TypeOK /\ Pieces /\ [Next]_vars => Pieces'
<1> SUFFICES ASSUME TypeOK, Pieces, [Next]_vars PROVE Pieces'
  OBVIOUS
<1>1. CASE UNCHANGED <<vec, src, pos, streams>>
  BY <1>1 DEF Pieces, IsPiece
<1>2. ASSUME NEW slot \in Slot, UNCHANGED <<src, streams>>,
             PullFails(slot) \/ \E bytes \in Accepted(slot) : PullOk(slot, bytes)
      PROVE  Pieces'
  <2>1. CASE streams = 1
    <3>1. \A s \in Slot : IsPiece(vec'[s], pos')
      BY <1>2, <2>1, PassPieces
    <3>2. \A s \in Slot : IsPiece(vec[s], pos)'
      BY <1>2, <3>1 DEF IsPiece
    <3> QED
      BY <1>2, <3>2 DEF Pieces
  <2>2. CASE streams # 1
    BY <1>2, <2>2 DEF Pieces
  <2> QED
    BY <2>1, <2>2
<1>3. CASE Build
  <2>1. curr \in Slot
    BY DEF TypeOK
  <2> QED
    BY <1>2, <1>3, <2>1 DEF Build
<1>4. ASSUME NEW n \in ReadSizes, ReadPulls(n) PROVE Pieces'
  <2>1. Swapped(curr) \in Slot
    BY DEF TypeOK, Swapped, Slot
  <2> QED
    BY <1>2, <1>4, <2>1 DEF ReadPulls
<1>5. ASSUME NEW s \in Seeds, NEW regions \in Streams, Reuse(s, regions)
      PROVE  Pieces'
  BY <1>5 DEF Reuse, Pieces
<1> QED
  BY <1>1, <1>3, <1>4, <1>5
  DEF Next, Read, ReadPanics, ReadPastEnd, ReadServed, ReadAstray, vars

(* What was served in a step, and what it is to be.                        *)
Served == SubSeq(got', Len(got) + 1, Len(got'))
OfOneRegion(bytes, p) ==
  \/ \A i \in 1 .. Len(bytes) : bytes[i] = Junk
  \/ \E r \in 1 .. Len(src) : r <= p + 1 /\ SliceOf(bytes, src[r].data)

LEMMA ServedOfOne ==
  ASSUME TypeOK, NEW bytes \in Seq(Nat), NEW from \in Nat, NEW n \in Nat,
         from + n <= Len(bytes), Serve(bytes, from, n), IsPiece(bytes, pos)
  PROVE  OfOneRegion(Served, pos)
<1>1. got \in Seq(Nat) /\ got' \in Seq(Nat)
  BY PieceOf DEF TypeOK, Serve
<1>2. /\ Len(got) \in Nat /\ Len(got') = Len(got) + n
      /\ \A i \in 1 .. Len(got') : i > Len(got) =>
           got'[i] = bytes[from + (i - Len(got))]
  BY <1>1, ServedBytes
<1>3. /\ Served \in Seq(Nat)
      /\ Len(Served) = n
      /\ \A i \in 1 .. n : Served[i] = got'[Len(got) + i]
  <2>1. /\ Len(got) + n <= Len(got')
        /\ Served = SubSeq(got', Len(got) + 1, Len(got) + n)
    BY <1>2 DEF Served
  <2> QED
    BY <1>1, <1>2, <2>1, PieceOf
<1>4. ASSUME NEW i \in 1 .. n
      PROVE  Served[i] = bytes[from + i] /\ from + i \in 1 .. Len(bytes)
  <2>1. Len(got) + i \in 1 .. Len(got') /\ Len(got) + i > Len(got)
    BY <1>2
  <2>2. got'[Len(got) + i] = bytes[from + ((Len(got) + i) - Len(got))]
    BY <1>2, <2>1
  <2>3. (Len(got) + i) - Len(got) = i
    BY <1>2
  <2>4. from + i \in 1 .. Len(bytes)
    OBVIOUS
  <2>5. Served[i] = got'[Len(got) + i]
    BY <1>3
  <2> QED
    BY <2>2, <2>3, <2>4, <2>5
<1>5. CASE \A k \in 1 .. Len(bytes) : bytes[k] = Junk
  BY <1>3, <1>4, <1>5 DEF OfOneRegion
<1>6. ASSUME NEW r \in 1 .. Len(src), r <= pos + 1, Begins(bytes, src[r].data)
      PROVE  OfOneRegion(Served, pos)
  <2>1. src[r].data \in Seq(Nat)
    BY SourceType DEF IsSource
  <2>2. /\ from \in 0 .. Len(src[r].data) - n
        /\ \A i \in 1 .. n : Served[i] = src[r].data[from + i]
    <3>1. Len(src[r].data) \in Nat /\ Len(bytes) \in Nat
          /\ Len(bytes) <= Len(src[r].data)
      BY <1>6, <2>1 DEF Begins
    <3>2. from \in 0 .. Len(src[r].data) - n
      BY <3>1
    <3>3. ASSUME NEW i \in 1 .. n PROVE Served[i] = src[r].data[from + i]
      BY <1>4, <1>6, <3>3 DEF Begins
    <3> QED
      BY <3>2, <3>3
  <2>3. SliceOf(Served, src[r].data)
    BY <1>3, <2>2 DEF SliceOf
  <2> QED
    BY <1>6, <2>3 DEF OfOneRegion
<1> QED
  BY <1>5, <1>6 DEF IsPiece

(* Every read returns a piece of one region, or what LZ4 made of a damaged *)
(* one; also for a caller that goes on after errors, as long as the buffer *)
(* has been used for one source only.                                      *)
THEOREM ReadsOneRegion == ASSUME JunkBuffers PROVE Spec => OneRegionPerRead
<1> DEFINE Read1 == streams' = streams /\ (streams = 1 \/ ~erred) /\ got' # got
                      => OfOneRegion(Served, pos')
<1>1. TypeOK /\ Settled /\ Tracked /\ Pieces /\ [Next]_vars => [Read1]_vars
  <2> SUFFICES ASSUME TypeOK, Settled, Tracked, Pieces, Next,
                      streams' = streams, streams = 1 \/ ~erred, got' # got
               PROVE  OfOneRegion(Served, pos')
    OBVIOUS
  <2>1. pos \in Nat
    BY SourceType
  <2>2. ASSUME NEW n \in ReadSizes, ReadServed(n)
        PROVE  OfOneRegion(Served, pos')
    <3>1. /\ vec[curr] \in Seq(Nat) /\ cursor \in Nat /\ n \in Nat
          /\ curr \in Slot
      BY DecoderAssumption DEF TypeOK
    <3>2. cursor + n <= Len(vec[curr])
      BY <2>2, <3>1 DEF ReadServed, NeedsPull, LenOverflows, RemainingLen
    <3>3. IsPiece(vec[curr], pos)
      <4>1. CASE streams = 1
        BY <3>1, <4>1 DEF Pieces
      <4>2. CASE ~erred
        <5>1. phase = "open" /\ pos > 0
          BY <2>2, <4>2, ReadFits
        <5>2. IsRegion(vec[curr], pos) /\ pos \in 1 .. Len(src)
          BY <4>2, <5>1, SourceType DEF Tracked
        <5> QED
          BY <2>1, <5>2 DEF IsRegion, IsPiece
      <4> QED
        BY <4>1, <4>2
    <3>4. Serve(vec[curr], cursor, n) /\ pos' = pos
      BY <2>2 DEF ReadServed
    <3> QED
      BY <3>1, <3>2, <3>3, <3>4, ServedOfOne
  <2>3. ASSUME NEW n \in ReadSizes, ReadPulls(n)
        PROVE  OfOneRegion(Served, pos')
    <3>1. PICK bytes \in Accepted(curr') :
            PullOk(curr', bytes) /\ n <= Len(bytes) /\ Serve(bytes, 0, n)
      BY <2>3 DEF ReadPulls
    <3>2. /\ bytes \in Seq(Nat) /\ IsPiece(bytes, pos)
          /\ n \in Nat /\ 0 + n <= Len(bytes)
      BY <3>1, AcceptedIs, DecompressedType, DecompressedPiece,
         DecoderAssumption
    <3>3. OfOneRegion(Served, pos)
      BY <3>1, <3>2, ServedOfOne
    <3>4. pos' = pos + 1
      BY <3>1 DEF PullOk
    <3> QED
      BY <2>1, <3>3, <3>4, SourceType DEF OfOneRegion
  <2>4. CASE Build
    BY <2>4 DEF Build
  <2>5. ASSUME NEW s \in Seeds, NEW regions \in Streams, Reuse(s, regions)
        PROVE  FALSE
    BY <2>5 DEF Reuse, TypeOK
  <2> QED
    BY <2>2, <2>3, <2>4, <2>5
    DEF Next, Read, ReadPanics, ReadPastEnd, ReadAstray
<1>2. [][Read1]_vars => OneRegionPerRead
  BY PTL DEF OneRegionPerRead, OfOneRegion, Served
<1> QED
  BY <1>1, <1>2, TrackedInvariant, PiecesInit, PiecesNext, PTL DEF Spec
=============================================================================
