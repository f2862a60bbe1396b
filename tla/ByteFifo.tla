------------------------------ MODULE ByteFifo ------------------------------
(***************************************************************************)
(* What an encoder and a decoder promise together: a store of bytes that   *)
(* is filled, sealed, and then read back from its first byte to its last,  *)
(* each byte once.                                                         *)
(***************************************************************************)
EXTENDS Integers, Sequences

CONSTANTS
  Bytes,    (* the bytes there are                                           *)
  MaxChunk  (* most bytes put in or taken by one call                        *)

VARIABLES
  stored,  (* bytes put in                                                   *)
  taken,   (* bytes read back                                                *)
  sealed   (* TRUE once reading has begun                                    *)

vars == <<stored, taken, sealed>>

Init == stored = << >> /\ taken = << >> /\ sealed = FALSE

Put(bytes) ==
  /\ ~sealed
  /\ stored' = stored \o bytes
  /\ UNCHANGED <<taken, sealed>>

Seal ==
  /\ ~sealed
  /\ sealed' = TRUE
  /\ UNCHANGED <<stored, taken>>

Take(n) ==
  /\ sealed
  /\ Len(taken) + n <= Len(stored)
  /\ taken' = taken \o SubSeq(stored, Len(taken) + 1, Len(taken) + n)
  /\ UNCHANGED <<stored, sealed>>

Next ==
  \/ \E k \in 1 .. MaxChunk : \E bytes \in [1 .. k -> Bytes] : Put(bytes)
  \/ Seal
  \/ \E n \in 1 .. MaxChunk : Take(n)

Spec == Init /\ [][Next]_vars
=============================================================================
