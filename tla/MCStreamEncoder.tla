--------------------------- MODULE MCStreamEncoder ---------------------------
(***************************************************************************)
(* Instances of StreamEncoder for TLC: the buffers it may be given.        *)
(***************************************************************************)
EXTENDS StreamEncoder

MCNoRaw == {}

(* What into_raw of a decoder leaves: the region it was reading and the    *)
(* one before, neither of them emptied.                                    *)
MCDecoderRaw ==
  { [vec |-> [s \in Slot |-> [i \in 1 .. (IF s = 1 THEN n ELSE m) |-> Junk]],
     curr |-> c] : n, m \in {0, 1, REGION_SIZE}, c \in Slot }
=============================================================================
