--------------------------- MODULE MCStreamDecoder ---------------------------
(***************************************************************************)
(* Instances of StreamDecoder for TLC: sources as an encoder makes them,   *)
(* given by the lengths of their regions, some with a damaged region, some *)
(* with a full region that LZ4 could not shrink.                           *)
(***************************************************************************)
EXTENDS StreamDecoder, SequencesExt, FiniteSetsExt

CONSTANTS Lengths, DamagedAt, CutAt, SourceSeeds

(* The region lengths before the i-th, summed.                             *)
Before(lengths, i) == FoldLeft(+, 0, SubSeq(lengths, 1, i - 1))

Data(lengths, i) ==
  IF i = 0 THEN << >>
           ELSE [j \in 1 .. lengths[i] |-> Before(lengths, i) + j]

Source(lengths, s, damaged, cut) ==
  [ i \in 1 .. Len(lengths) |->
      EncodedRegion(
        IF i = cut /\ lengths[i] = REGION_SIZE THEN compress_bound(REGION_SIZE) ELSE 1,
        s, Data(lengths, i),
        [NoDict EXCEPT !.data = Data(lengths, i - 1), !.intact = i # damaged]) ]

MCStreams ==
  { Source(l, s, d, 0) : l \in Lengths, s \in SourceSeeds, d \in DamagedAt }
    \cup { Source(l, s, 0, c) : l \in Lengths, s \in SourceSeeds, c \in CutAt }

MCLengths == {<< >>, <<3, 2, 3>>, <<1, 3, 2, 2>>}
MCNoRaw == {}
(* Buffers left by other bearers.  Which slot is current is a matter of    *)
(* names.                                                                  *)
MCRaw ==
  { [vec |-> [s \in Slot |-> [i \in 1 .. (IF s = 1 THEN n ELSE m) |-> Junk]],
     curr |-> 1, cursor |-> k] :
    n, m \in {0, REGION_SIZE}, k \in {0, 2} }
=============================================================================
