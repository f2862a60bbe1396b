----------------------------- MODULE FixedMemory -----------------------------
(***************************************************************************)
(* The Writers over memory of a fixed length: `&mut [u8]` and              *)
(* `&mut [MaybeUninit<u8>]`, which become shorter as they are written to,  *)
(* and Cursor, which keeps the memory and a position.  write_mut(n) takes  *)
(* get_mut(n..) where `..n` is meant, so that what it answers depends on   *)
(* the length of the memory, in the terms of StreamEncoder's               *)
(* WriterAnswers.                                                          *)
(***************************************************************************)
EXTENDS Integers, TLAPS

(* write_mut(n) on memory of `len` bytes: refused, or a slice of len - n.  *)
Answer(len, n) ==
  IF n > len THEN "none" ELSE IF len - n = n THEN "ok" ELSE "mismatch"

(* What a slice has left after assume_init(n).                             *)
Rest(len, n) == len - n

(* A Cursor answers from all of its memory, wherever its position is.      *)
CursorAnswer(size, position, n) == Answer(size, n)

(* The writes a frame makes: magic number and descriptor, of one byte or,  *)
(* with a timestamp, nine; the label and its length; and a region, whose   *)
(* header is followed by room for the largest block it may become.         *)
MetadataLens == {4 + 1, 4 + 9}
LabelPartLen(label) == 1 + label
compress_bound(n) == n + (n \div 255) + 16
RegionRoom(n) == 12 + compress_bound(n)

-----------------------------------------------------------------------------
(* No frame is ever encoded into a slice: whatever its length, one of the  *)
(* two writes of the header is refused (an error) or gets a slice of       *)
(* another length (a panic), for the first one is of an odd length.        *)
THEOREM NoFrameInSlice ==
  ASSUME NEW len \in Nat, NEW label \in Nat, NEW n \in MetadataLens,
         Answer(len, n) = "ok"
  PROVE  Answer(Rest(len, n), LabelPartLen(label)) # "ok"
<1>1. len = 2 * n
  BY DEF Answer, MetadataLens
<1>2. n \in {5, 13}
  BY DEF MetadataLens
<1> QED
  BY <1>1, <1>2 DEF Answer, Rest, LabelPartLen

(* And no frame with a value in it into a Cursor: memory of twice the      *)
(* length of the header's first part has no room for a region.             *)
THEOREM NoValueInCursor ==
  ASSUME NEW size \in Nat, NEW p \in Nat, NEW q \in Nat, NEW n \in MetadataLens,
         NEW bytes \in Nat \ {0},
         CursorAnswer(size, p, n) = "ok"
  PROVE  CursorAnswer(size, q, RegionRoom(bytes)) # "ok"
<1>1. size \in {10, 26}
  BY DEF CursorAnswer, Answer, MetadataLens
<1>2. bytes \div 255 \in Nat
  OBVIOUS
<1>3. RegionRoom(bytes) \in Nat /\ RegionRoom(bytes) > 26
  BY <1>2 DEF RegionRoom, compress_bound
<1> QED
  BY <1>1, <1>3 DEF CursorAnswer, Answer
=============================================================================
