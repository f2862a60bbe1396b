----------------------------- MODULE CursorFile -----------------------------
(***************************************************************************)
(* A file that a CursorWriter writes, and that a CursorReader reads once   *)
(* the writer has been dropped: what the device got is what the reader's   *)
(* io::Read gives.                                                         *)
(***************************************************************************)
EXTENDS Integers, Sequences

CONSTANTS
  Sizes, ByRefs, FlushRetries, MaxBytes,         (* of the writer            *)
  Threshold, Requests, Extra, Readers, IoErrors  (* of the reader            *)

VARIABLES
  byref, wbuffer, error, dst, device, count, wphase, flushed,
  reader, fpos, rbuffer, start, end, taken, result

writerVars == <<byref, wbuffer, error, dst, device, count, wphase, flushed>>
readerVars == <<reader, fpos, rbuffer, start, end, taken, result>>
vars == <<writerVars, readerVars>>

W == INSTANCE CursorWriter WITH
       buffer <- wbuffer, phase <- wphase, Retries <- FlushRetries

R == INSTANCE CursorReader WITH
       buffer <- rbuffer, flen <- Len(dst), FileLens <- 0 .. MaxBytes

ASSUME CursorAssumption == W!WriterAssumption /\ R!ReaderAssumption

Init == W!Init /\ R!InitReader

-----------------------------------------------------------------------------
WriteFile == W!Next /\ UNCHANGED readerVars

ReadFile ==
  /\ wphase = "dropped"
  /\ UNCHANGED writerVars
  /\ R!Next

Next == WriteFile \/ ReadFile

Spec == Init /\ [][Next]_vars

-----------------------------------------------------------------------------
(* The types of both cursors.                                              *)
TypeOK == W!TypeOK /\ R!TypeOK

(* The device has the beginning of what was written: after a flush that    *)
(* failed half way, the drop does not start again.                         *)
PrefixWritten == W!PrefixWritten

(* "Flush this Writer into the actual destination": after a flush that     *)
(* returned Ok, the device has every byte, if the encoder owns the writer. *)
OwnedFlushReaches == W!OwnedFlushReaches

(* "Read exactly n bytes": while io::Read fills the slices it is given,    *)
(* read_borrow returns the next n bytes.                                   *)
ExactWhileFilled == R!ExactWhileFilled

(* Whatever io::Read does, a byte of the file is returned, and kept, at    *)
(* its own position.                                                       *)
PlacedRight == R!PlacedRight

(* No byte that io::Read gave is thrown away before the client has seen    *)
(* it.                                                                     *)
NothingDropped == R!NothingDropped

(* A file reads back as it was written, up to its end, wherever the writer *)
(* stopped: a request that is answered gives the bytes the device got.     *)
ReadBack ==
  reader = "file" /\ result.kind = "ok" =>
    \A i \in 1 .. result.n :
      taken + i <= Len(dst) => result.bytes[i] = dst[taken + i]
=============================================================================
