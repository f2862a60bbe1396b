---------------------------- MODULE CursorReader ----------------------------
(***************************************************************************)
(* CursorReader<R>, the Reader over an io::Read: it keeps bytes that were  *)
(* read ahead in a buffer, and grows the buffer when more are asked for.   *)
(* Driven by a client that keeps to the protocol of Reader: it looks at n  *)
(* bytes, then advances over at most as many.                              *)
(*                                                                         *)
(* A byte is its position in the file; Zero is a byte of the buffer that   *)
(* was never read into.                                                    *)
(***************************************************************************)
EXTENDS Integers, Sequences

CONSTANTS
  FileLens,   (* lengths a file may have                                     *)
  Threshold,  (* THRESHOLD: longer requests are not doubled                  *)
  Requests,   (* lengths asked for                                           *)
  Extra,      (* what Vec::with_capacity may allocate above what was asked   *)
  Readers,    (* kinds of io::Read: see ReaderKinds                          *)
  IoErrors    (* TRUE: io::Read may fail                                     *)

(* A file fills the slice it is given until its end is reached; a pipe may *)
(* return less at any time.                                                *)
ReaderKinds == {"file", "pipe"}

ReaderAssumption ==
  /\ FileLens \subseteq Nat
  /\ Threshold \in Nat
  /\ Requests \subseteq Nat
  /\ Extra \subseteq Nat
  /\ Readers \subseteq ReaderKinds
  /\ IoErrors \in BOOLEAN

VARIABLES
  flen,    (* length of the file                                             *)
  reader,  (* the kind of io::Read                                           *)
  fpos,    (* bytes the io::Read has given                                   *)
  buffer,  (* contents of `buffer`                                           *)
  start,   (* bytes of it the client has advanced over                       *)
  end,     (* bytes of it taken to be filled                                 *)
  taken,   (* bytes of the file the client has advanced over                 *)
  result   (* answer of the last read_borrow, and the length asked for       *)

vars == <<flen, reader, fpos, buffer, start, end, taken, result>>

Zero == 0
Zeros(n) == [i \in 1 .. n |-> Zero]

Answer(kind, n, bytes) == [kind |-> kind, n |-> n, bytes |-> bytes]
None == Answer("none", 0, << >>)

InitReader ==
  /\ reader \in Readers
  /\ fpos = 0
  /\ buffer = << >>
  /\ start = 0
  /\ end = 0
  /\ taken = 0
  /\ result = None

Init == flen \in FileLens /\ InitReader

-----------------------------------------------------------------------------
Slice(bytes, from, n) == SubSeq(bytes, from + 1, from + n)
Buffered(n) == start + n <= end

(* Only a buffer that was filled to its length is taken to have more bytes *)
(* behind it.                                                              *)
ExhaustedAlways == TRUE
Exhausted == end = Len(buffer)

(* How many bytes io::Read may put into a slice of `room` bytes: all that  *)
(* fit, or that are left; perhaps fewer, but none only at the end.         *)
ReadCounts(room) ==
  LET most == IF room < flen - fpos THEN room ELSE flen - fpos
  IN  IF reader = "pipe" /\ most > 0 THEN 1 .. most ELSE {most}

(* read of bytes that are in the buffer.                                   *)
BorrowBuffered(n) ==
  /\ Buffered(n)
  /\ result' = Answer("ok", n, Slice(buffer, start, n))
  /\ UNCHANGED <<flen, reader, fpos, buffer, start, end, taken>>

BorrowOutOfBounds(n) ==
  /\ ~Buffered(n)
  /\ ~Exhausted
  /\ result' = Answer("out_of_bounds", n, << >>)
  /\ UNCHANGED <<flen, reader, fpos, buffer, start, end, taken>>

(* grow: the unread bytes move to the front of a new buffer, and the rest  *)
(* of it is read into; `end` becomes the count that io::Read returned.     *)
NewLen(n) == IF n > Threshold THEN n ELSE n * 2
Unread == Slice(buffer, start, end - start)

(* The buffer after `count` bytes were read behind what is kept.           *)
FilledOver(keep, count, len) ==
  [i \in 1 .. count |-> fpos + i] \o Zeros(len - count)
Filled(keep, count, len) ==
  keep \o [i \in 1 .. count |-> fpos + i] \o Zeros(len - Len(keep) - count)

BorrowGrowsKeepsStart(n) ==
  /\ ~Buffered(n)
  /\ Exhausted
  /\ \E extra \in Extra :
       \E count \in ReadCounts(NewLen(n) + extra - Len(Unread)) :
         /\ buffer' = Filled(Unread, count, NewLen(n) + extra)
         /\ end' = count
         /\ fpos' = fpos + count
  /\ result' = Answer("ok", n, Slice(buffer', 0, n))
  /\ UNCHANGED <<flen, reader, start, taken>>
BorrowGrows(n) ==
  /\ ~Buffered(n)
  /\ Exhausted
  /\ \E extra \in Extra :
       \E count \in ReadCounts(NewLen(n) + extra - Len(Unread)) :
         /\ buffer' = Filled(Unread, count, NewLen(n) + extra)
         /\ end' = count
         /\ fpos' = fpos + count
  /\ start' = 0
  /\ result' = Answer("ok", n, Slice(buffer', 0, n))
  /\ UNCHANGED <<flen, reader, taken>>

BorrowFails(n) ==
  /\ IoErrors
  /\ ~Buffered(n)
  /\ Exhausted
  /\ result' = Answer("io", n, << >>)
  /\ UNCHANGED <<flen, reader, fpos, buffer, start, end, taken>>

read_borrow(n) ==
  \/ BorrowBuffered(n)
  \/ BorrowOutOfBounds(n)
  \/ BorrowGrows(n)
  \/ BorrowFails(n)

(* advance over bytes that were looked at.                                 *)
advance(n) ==
  /\ result.kind = "ok"
  /\ n <= result.n
  /\ start' = start + n
  /\ taken' = taken + n
  /\ result' = None
  /\ UNCHANGED <<flen, reader, fpos, buffer, end>>

Next == \E n \in Requests : read_borrow(n) \/ (n > 0 /\ advance(n))

Spec == Init /\ [][Next]_vars

-----------------------------------------------------------------------------
TypeOK ==
  /\ flen \in Nat
  /\ reader \in ReaderKinds
  /\ fpos \in 0 .. flen
  /\ buffer \in Seq(Nat)
  /\ start \in 0 .. Len(buffer)
  /\ end \in 0 .. Len(buffer)
  /\ taken \in Nat
  /\ result.kind \in {"none", "ok", "out_of_bounds", "io"}
  /\ result.n \in Nat
  /\ result.bytes \in Seq(Nat)

(* "Read exactly n bytes and do not advance the reader": what read_borrow  *)
(* returns are the next n bytes of the file, as long as every call of      *)
(* io::Read fills the slice it is given, which is what a file does until   *)
(* its end is reached.                                                     *)
ExactWhileFilled ==
  reader = "file" /\ fpos < flen /\ result.kind = "ok" =>
    result.bytes = [i \in 1 .. result.n |-> taken + i]

(* A request is out of bounds only if the file has not that many bytes.    *)
OutOfBoundsMeansEnd ==
  result.kind = "out_of_bounds" => taken + result.n > flen

(* Whatever io::Read does, a byte that comes from the file is returned at  *)
(* its own position, never shifted, repeated or out of order, and the same *)
(* holds of what is buffered for later.                                    *)
PlacedRight ==
  /\ \A i \in 1 .. Len(result.bytes) :
       result.bytes[i] # Zero => result.bytes[i] = taken + i
  /\ \A i \in start + 1 .. Len(buffer) :
       buffer[i] # Zero => buffer[i] = taken + i - start

(* Bytes are read ahead into memory before they are needed, but none of    *)
(* them is thrown away: what io::Read gave is still in the buffer, or the  *)
(* client has advanced over it.                                            *)
NothingDropped ==
  \A p \in taken + 1 .. fpos : \E i \in start + 1 .. Len(buffer) : buffer[i] = p
=============================================================================
