---------------------------- MODULE CursorWriter ----------------------------
(***************************************************************************)
(* CursorWriter<W>, the Writer over an io::Write: bytes are collected in a *)
(* buffer until a flush writes them out, or the drop of the writer does.   *)
(* The io::Write fails while its device is bad, after some of the bytes.   *)
(*                                                                         *)
(* A byte is the number of its position in what was written.               *)
(***************************************************************************)
EXTENDS Integers, Sequences

CONSTANTS
  Sizes,    (* lengths initialised by one assume_init                        *)
  ByRefs,   (* may the encoder be built over `&mut writer`, or own it        *)
  Retries,  (* TRUE: the caller goes on after a flush that failed            *)
  MaxBytes  (* bound: bytes written                                          *)

WriterAssumption ==
  /\ Sizes \subseteq Nat
  /\ ByRefs \subseteq BOOLEAN
  /\ Retries \in BOOLEAN
  /\ MaxBytes \in Nat

VARIABLES
  byref,    (* TRUE: the encoder was built over `&mut writer`                *)
  buffer,   (* contents of `buffer`                                          *)
  error,    (* the `error` flag                                              *)
  dst,      (* what the device has got                                       *)
  device,   (* state of the device: good or bad                              *)
  count,    (* bytes written so far                                          *)
  phase,    (* open, failed (a flush did), dropped                           *)
  flushed   (* TRUE when the last call was a flush that returned Ok          *)

vars == <<byref, buffer, error, dst, device, count, phase, flushed>>

Init ==
  /\ byref \in ByRefs
  /\ buffer = << >>
  /\ error = FALSE
  /\ dst = << >>
  /\ device \in {"good", "bad"}
  /\ count = 0
  /\ phase = "open"
  /\ flushed = FALSE

-----------------------------------------------------------------------------
CanCall ==
  \/ phase = "open"
  \/ phase = "failed" /\ Retries

(* The device fails, or works again.                                       *)
DeviceChanges ==
  /\ phase # "dropped"
  /\ device' = IF device = "good" THEN "bad" ELSE "good"
  /\ UNCHANGED <<byref, buffer, error, dst, count, phase, flushed>>

(* write_mut, which always finds room, then assume_init of what was        *)
(* initialised.                                                            *)
Extend(k) ==
  /\ CanCall
  /\ count + k <= MaxBytes
  /\ buffer' = buffer \o [i \in 1 .. k |-> count + i]
  /\ count' = count + k
  /\ flushed' = FALSE
  /\ UNCHANGED <<byref, error, dst, device, phase>>

(* write_all and flush of the inner writer: a bad device takes some of the *)
(* bytes, and does not say how many.                                       *)
WriteOut(n) ==
  /\ n \in 0 .. Len(buffer)
  /\ device = "good" => n = Len(buffer)
  /\ dst' = dst \o SubSeq(buffer, 1, n)

(* Writer::flush: the buffer is emptied only after both have succeeded.    *)
FlushOkUnwritten ==
  /\ device = "good"
  /\ buffer' = << >>
  /\ phase' = "open"
  /\ flushed' = TRUE
  /\ UNCHANGED <<byref, error, dst, device, count>>
FlushOk ==
  /\ device = "good"
  /\ WriteOut(Len(buffer))
  /\ buffer' = << >>
  /\ phase' = "open"
  /\ flushed' = TRUE
  /\ UNCHANGED <<byref, error, device, count>>

FlushFails ==
  /\ device = "bad"
  /\ \E n \in 0 .. Len(buffer) : WriteOut(n)
  /\ error' = TRUE
  /\ phase' = "failed"
  /\ flushed' = FALSE
  /\ UNCHANGED <<byref, buffer, device, count>>

(* `impl Writer for &mut T` has no flush of its own: it gets the default   *)
(* of the trait, which does nothing.                                       *)
FlushByRef ==
  /\ phase' = "open"
  /\ flushed' = TRUE
  /\ UNCHANGED <<byref, buffer, error, dst, device, count>>

Flush ==
  /\ CanCall
  /\ \/ byref  /\ FlushByRef
     \/ ~byref /\ (FlushOk \/ FlushFails)

(* Drop for CursorWriter: one more attempt, unless a flush ever failed;    *)
(* then the buffer is freed.                                               *)
DropAlways ==
  /\ phase # "dropped"
  /\ \E n \in 0 .. Len(buffer) : WriteOut(n)
  /\ buffer' = << >>
  /\ phase' = "dropped"
  /\ flushed' = FALSE
  /\ UNCHANGED <<byref, error, device, count>>
Drop ==
  /\ phase # "dropped"
  /\ \/ ~error /\ \E n \in 0 .. Len(buffer) : WriteOut(n)
     \/ error  /\ UNCHANGED dst
  /\ buffer' = << >>
  /\ phase' = "dropped"
  /\ flushed' = FALSE
  /\ UNCHANGED <<byref, error, device, count>>

Next ==
  \/ DeviceChanges
  \/ \E k \in Sizes : Extend(k)
  \/ Flush
  \/ Drop

Spec == Init /\ [][Next]_vars

-----------------------------------------------------------------------------
TypeOK ==
  /\ byref \in BOOLEAN
  /\ buffer \in Seq(Nat)
  /\ error \in BOOLEAN
  /\ dst \in Seq(Nat)
  /\ device \in {"good", "bad"}
  /\ count \in Nat
  /\ phase \in {"open", "failed", "dropped"}
  /\ flushed \in BOOLEAN

(* What the device has got is always the beginning of what was written:    *)
(* after a flush that failed half way, the drop does not start again.      *)
PrefixWritten == \A i \in 1 .. Len(dst) : dst[i] = i /\ i <= count

(* "Flush this Writer into the actual destination": after a flush that     *)
(* returned Ok, the device has every byte, if the encoder owns the writer. *)
OwnedFlushReaches == flushed /\ ~byref => Len(dst) = count
=============================================================================
