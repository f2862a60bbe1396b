----------------------------- MODULE RegionPipe -----------------------------
(***************************************************************************)
(* A StreamEncoder and a StreamDecoder with the destination of the one as  *)
(* the source of the other, used as the Encode and Decode implementations  *)
(* use them: one program writes values and flushes, another builds a       *)
(* decoder and reads the values back.  A value is read in pieces that do   *)
(* not cross the end of a write.                                           *)
(*                                                                         *)
(* The encoding program may stop anywhere: its Writer fails, it never      *)
(* flushes, or it panics.  The decoding program takes what is there, with  *)
(* whatever seed it was given.                                             *)
(***************************************************************************)
EXTENDS StreamEncoder

CONSTANTS
  ReadSizes   (* lengths of reads                                            *)

(* The encoding program has a buffer of its own, and does nothing but      *)
(* flush after a call that failed.                                         *)
ASSUME PipeAssumption ==
  /\ ReadSizes \subseteq Nat
  /\ Caller \subseteq {"flush_failed"}
  /\ RawBuffers = {}

VARIABLES
  dvec, dcurr, cursor, dlz4, dseed, pos, got, dphase, derred, dstreams

decoderVars ==
  <<dvec, dcurr, cursor, dlz4, dseed, pos, got, dphase, derred, dstreams>>
pipeVars == <<vars, decoderVars>>

D == INSTANCE StreamDecoder WITH
       vec <- dvec, curr <- dcurr, lz4 <- dlz4, seed <- dseed, src <- out,
       phase <- dphase, erred <- derred, streams <- dstreams,
       Streams <- {}, Transient <- FALSE, Retries <- FALSE,
       RawBuffers <- {}, Builds <- {"debug"}, MaxServed <- MaxBytes,
       MaxStreams <- 1

PipeInit ==
  /\ Init
  /\ D!InitDecoder

-----------------------------------------------------------------------------
(* The encoding program writes, and flushes, also after a failed write as  *)
(* Frame::encode does; nothing is written any more once the decoder has    *)
(* been built.                                                             *)
WriteValue ==
  /\ dphase = "new"
  /\ \E k \in Chunks : Write(k)
  /\ UNCHANGED decoderVars

FlushAll ==
  /\ dphase = "new"
  /\ FlushCall
  /\ UNCHANGED decoderVars

BuildDecoder ==
  /\ D!Build
  /\ UNCHANGED vars

(* Bytes of one write, or bytes nobody wrote.                              *)
WithinWrite(n) == \A e \in ends : ~(Len(got) < e /\ e < Len(got) + n)

ReadValue ==
  /\ \E n \in ReadSizes : WithinWrite(n) /\ D!Read(n)
  /\ UNCHANGED vars

(* Reading that gets on: pieces of no bytes may be read for ever.          *)
ReadOn == ReadValue /\ got' # got

PipeNext == WriteValue \/ FlushAll \/ BuildDecoder \/ ReadValue

(* The decoding program is sequential, and runs to its end.                *)
Fairness == WF_pipeVars(BuildDecoder) /\ WF_pipeVars(ReadOn)

SafePipe == PipeInit /\ [][PipeNext]_pipeVars
PipeSpec == SafePipe /\ Fairness

-----------------------------------------------------------------------------
Written == [i \in 1 .. next |-> i]

(* The pair is the abstract byte store: whatever the Writer answered,      *)
(* wherever the encoding program stopped and whichever seed the decoder    *)
(* has, nothing is lost, repeated, damaged or reordered on the way through *)
(* buffers, regions and LZ4 contexts.                                      *)
Fifo == INSTANCE ByteFifo WITH
          Bytes <- 1 .. MaxBytes, MaxChunk <- REGION_SIZE,
          stored <- Written, taken <- got, sealed <- dphase # "new"
IsFifo == Fifo!Spec

(* Once flushed, with the same seed and with no length of a block cut off  *)
(* in its header, reading back what was written, along the pieces in which *)
(* it was written, fails only at the end of the stream, and building the   *)
(* decoder only if no byte was written at all.  A decoder that takes a     *)
(* piece of a block for all of it, and goes astray, has no seed.           *)
Intact == phase = "flushed" /\ dseed = seed /\ HeaderFaithful
ReadsNeverFail ==
  /\ Intact =>
       /\ dphase \in {"new", "open", "failed", "dead"}
       /\ dphase = "failed" => got = Written
       /\ dphase = "dead" => next = 0
  /\ dphase = "astray" => seed = NoSeed /\ dseed = NoSeed /\ ~HeaderFaithful

(* Then every byte the encoder accepted is read back.                      *)
AllReadBack == Intact ~> (got = Written)
=============================================================================
