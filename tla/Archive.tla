------------------------------- MODULE Archive -------------------------------
(***************************************************************************)
(* Frame: a metadata header, then a value in a region stream.  One program *)
(* encodes a frame, and may fail or stop at any point of it; another opens *)
(* what the first one left, looks at the metadata, and gets the value.     *)
(* Which bytes a value becomes, and which reads bring it back, is given by *)
(* constant operators, for which Codec has definitions; the stream is the  *)
(* RegionPipe.                                                             *)
(*                                                                         *)
(* The source is what the encoder left, so that the magic number and the   *)
(* characters of the label are right wherever they are present.            *)
(***************************************************************************)
EXTENDS RegionPipe, SequencesExt

CONSTANTS
  Samples,             (* values to encode, each with its schema             *)
  WritesOf(_),         (* the writes that encoding a sample makes            *)
  DecodedFrom(_, _),   (* what decoding it has come to, from some bytes      *)
  ValueOf(_),          (* the value that is to come back                     *)
  LabelLengths         (* lengths of labels, below 256                       *)

(* No write of a value is empty, or longer than a region; encode flushes   *)
(* after a value that failed.                                              *)
ASSUME ArchiveAssumption ==
  /\ \A s \in Samples :
       /\ WritesOf(s) \in Seq(Seq(Nat))
       /\ \A i \in 1 .. Len(WritesOf(s)) : Len(WritesOf(s)[i]) \in Chunks
  /\ Chunks = 1 .. REGION_SIZE
  /\ ReadSizes = 1 .. REGION_SIZE
  /\ Caller = {"flush_failed"}
  /\ LabelLengths \subseteq 0 .. 255

VARIABLES
  sample,   (* the value given to encode, and its schema                     *)
  writes,   (* the writes that encoding it makes                             *)
  label,    (* length of the label                                           *)
  stamped,  (* TRUE: there is a timestamp                                    *)
  header,   (* bytes of the header given to the Writer                       *)
  found,    (* bytes of the header the decoding program found                *)
  result,   (* what encode came to; encoding until then                      *)
  outcome   (* what the decoding program has come to                         *)

frameVars == <<sample, writes, label, stamped, header, found, result, outcome>>

archiveVars == <<frameVars, pipeVars>>

FrameInit ==
  /\ sample \in Samples
  /\ writes = WritesOf(sample)
  /\ label \in LabelLengths
  /\ stamped \in BOOLEAN
  /\ header = 0
  /\ found = 0
  /\ result = "encoding"
  /\ outcome = "unopened"
  /\ PipeInit

-----------------------------------------------------------------------------
(* The header: magic number and descriptor, then the label.                *)
MAGIC_LEN == 4
DescriptorLen == IF stamped THEN 9 ELSE 1
DescriptorMaxLen == 9
MetadataMaxLen == 265
LabelAt == MAGIC_LEN + DescriptorLen
HeaderLen == LabelAt + 1 + label

(* FrameMetadata::encode_into_writer, one step for each write_mut.         *)
WriteHeaderPart(w) ==
  /\ result = "encoding"
  /\ header # HeaderLen
  /\ \/ w = "ok" /\ header' = (IF header = 0 THEN LabelAt ELSE HeaderLen)
                 /\ UNCHANGED result
     \/ w = "none" /\ result' = "frame_error" /\ UNCHANGED header
     \/ w = "mismatch" /\ result' = "panicked" /\ UNCHANGED header
  /\ UNCHANGED <<sample, writes, label, stamped, found, outcome, pipeVars>>

Sent == Cardinality(ends) - 1

(* T::encode: the writes of the value, one after the other, until one      *)
(* fails.                                                                  *)
EncodeNext ==
  /\ result = "encoding"
  /\ header = HeaderLen
  /\ phase = "open"
  /\ Sent < Len(writes)
  /\ Write(Len(writes[Sent + 1]))
  /\ result' = IF phase' = "panicked" THEN "panicked" ELSE result
  /\ UNCHANGED <<sample, writes, label, stamped, header, found, outcome, decoderVars>>

(* encode ends with a flush, also when the value could not be encoded; an  *)
(* error of the flush comes first.                                         *)
ResultOfFlush(before, after) ==
  CASE after = "panicked" -> "panicked"
    [] after = "failed"   -> "flush_error"
    [] OTHER              -> "ok"
Result(before, after) ==
  CASE after = "panicked"  -> "panicked"
    [] after = "failed"    -> "flush_error"
    [] before = "failed"   -> "value_error"
    [] OTHER               -> "ok"

FlushFrame ==
  /\ result = "encoding"
  /\ header = HeaderLen
  /\ Sent = Len(writes) \/ phase = "failed"
  /\ FlushCall
  /\ result' = Result(phase, phase')
  /\ UNCHANGED <<sample, writes, label, stamped, header, found, outcome, decoderVars>>

(* The encoding program stops where it is: a panic in the encode of a      *)
(* field, a crash.  Nothing is flushed.                                    *)
Stops ==
  /\ result = "encoding"
  /\ result' = "stopped"
  /\ UNCHANGED <<sample, writes, label, stamped, header, found, outcome, pipeVars>>

-----------------------------------------------------------------------------
(* Bytes there are for the decoding program, if n bytes of the header are: *)
(* those and the regions.                                                  *)
Total(n) == n + EncodedSize(out)

(* FrameMetadata::decode_from_reader.  The descriptor and whatever follows *)
(* it are borrowed with the longest length a descriptor can have.          *)
LookAheadMetadata == MetadataMaxLen
LookAhead == DescriptorMaxLen
OpenedLabel(n) ==
  CASE Total(n) < LabelAt + 1         -> "out_of_bounds"
    [] Total(n) < LabelAt + 1 + label -> "malformed_label"
    [] OTHER                          -> "open"
Opened(n) ==
  CASE Total(n) < MAGIC_LEN             -> "out_of_bounds"
    [] Total(n) < MAGIC_LEN + LookAhead -> "out_of_bounds"
    [] OTHER                            -> OpenedLabel(n)

(* Frame::decode, once the other program is through.  A Writer that has    *)
(* not been flushed may have passed on any part of the header, but a       *)
(* region only after all of it.                                            *)
OpenFrame ==
  /\ result # "encoding"
  /\ outcome = "unopened"
  /\ found' \in 0 .. header
  /\ out # << >> => found' = header
  /\ outcome' = Opened(found')
  /\ UNCHANGED <<sample, writes, label, stamped, header, result, pipeVars>>

(* The flag of the descriptor says whether the regions were hashed with a  *)
(* seed, not with which.                                                   *)
Seeded(with) == with # NoSeed

(* Frame::get_value up to the decoder: the seeded flag, then the first     *)
(* region.                                                                 *)
GetValue ==
  /\ outcome = "open"
  /\ \/ /\ Seeded(dseed) # Seeded(seed)
        /\ outcome' = "environment_mismatch"
        /\ UNCHANGED pipeVars
     \/ /\ Seeded(dseed) = Seeded(seed)
        /\ BuildDecoder
        /\ outcome' = IF dphase' = "open" THEN "decoding" ELSE "bearer_error"
  /\ UNCHANGED <<sample, writes, label, stamped, header, found, result>>

(* What decoding has come to: it has a value, has met a pattern that no    *)
(* value has, or needs more bytes for its next read.                       *)
Content(pieces, positions) ==
  LET bytes == FlattenSeq(pieces) IN [i \in DOMAIN positions |-> bytes[positions[i]]]
Progress == DecodedFrom(sample, Content(writes, got))

(* T::decode: the reads it asks for, one after the other, until one fails. *)
AfterRead == CASE dphase' = "open"   -> outcome
               [] dphase' = "astray" -> "astray"
               [] OTHER              -> "bearer_error"
DecodeNextOver ==
  /\ outcome = "decoding"
  /\ Progress.is = "more"
  /\ D!Read(Progress.n + 1)
  /\ outcome' = AfterRead
  /\ UNCHANGED <<sample, writes, label, stamped, header, found, result, vars>>
DecodeNext ==
  /\ outcome = "decoding"
  /\ Progress.is = "more"
  /\ D!Read(Progress.n)
  /\ outcome' = AfterRead
  /\ UNCHANGED <<sample, writes, label, stamped, header, found, result, vars>>

DecodeReturns ==
  /\ outcome = "decoding"
  /\ \/ Progress.is = "done" /\ outcome' = "value"
     \/ Progress.is = "invalid" /\ outcome' = "invalid_pattern"
  /\ UNCHANGED <<sample, writes, label, stamped, header, found, result, pipeVars>>

-----------------------------------------------------------------------------
Encoding ==
  \/ \E w \in WriterResults : WriteHeaderPart(w)
  \/ EncodeNext
  \/ FlushFrame
  \/ Stops
FrameDecoding == OpenFrame \/ GetValue \/ DecodeNext \/ DecodeReturns

FrameNext == Encoding \/ FrameDecoding

(* The decoding program is sequential, and runs to its end.                *)
FrameSpec == FrameInit /\ [][FrameNext]_archiveVars /\ WF_archiveVars(FrameDecoding)

-----------------------------------------------------------------------------
(* Where the first i writes of a sample end.                               *)
EndAfter(s, i) == SumOf([j \in 1 .. i |-> Len(WritesOf(s)[j])])

(* Encode and Decode agree on a sample: from the start on, decoding its    *)
(* bytes makes reads that end at `stops`, that cross no end of a write and *)
(* stay within the bytes written, until it has the value.                  *)
From(s, m) == DecodedFrom(s, Content(WritesOf(s), [i \in 1 .. m |-> i]))
GoesOn(s, m, stops) ==
  /\ From(s, m).is = "more"
  /\ From(s, m).n \in ReadSizes
  /\ m + From(s, m).n \in stops
  /\ \A i \in 0 .. Len(WritesOf(s)) :
       ~(m < EndAfter(s, i) /\ EndAfter(s, i) < m + From(s, m).n)
Returns(s, m) ==
  /\ From(s, m).is = "done"
  /\ From(s, m).value = ValueOf(s)
Agrees(s, stops) ==
  /\ 0 \in stops
  /\ stops \subseteq 0 .. EndAfter(s, Len(WritesOf(s)))
  /\ \A m \in stops : GoesOn(s, m, stops) \/ Returns(s, m)

-----------------------------------------------------------------------------
FrameTypeOK ==
  /\ sample \in Samples
  /\ label \in LabelLengths
  /\ stamped \in BOOLEAN
  /\ header \in {0, LabelAt, HeaderLen}
  /\ found \in 0 .. header
  /\ result \in {"encoding", "ok", "frame_error", "value_error",
                 "flush_error", "panicked", "stopped"}
  /\ outcome \in {"unopened", "out_of_bounds", "malformed_label", "open",
                  "environment_mismatch", "bearer_error", "decoding",
                  "value", "invalid_pattern", "astray"}
  /\ TypeOK

(* The writes and reads of a frame are those of the pipe: in particular,   *)
(* no read that decoding a value makes crosses the end of a write that     *)
(* encoding it made, which the decoder could not serve.                    *)
ImplementsPipe == SafePipe

(* "In case of correct schema will return the same byte pattern as Encode  *)
(* implementation": wherever encoding stopped, a value that comes back is  *)
(* the value, whole, with the default in every skipped field.              *)
NeverWrongValue ==
  /\ outcome = "value" =>
       Progress.value = ValueOf(sample)
  /\ outcome # "invalid_pattern"

(* encode returns Ok only for a frame that is complete: the header, every  *)
(* write of the value, and each of their bytes in a region.                *)
OkMeansComplete ==
  result = "ok" =>
    /\ header = HeaderLen
    /\ Sent = Len(writes)
    /\ EndOf(out, Len(out), base) = next

(* A frame opens only with all of its header; and a frame encoded with Ok  *)
(* opens, if its value has a byte, whatever the nine bytes of look-ahead.  *)
OpensWhatItWrote ==
  /\ outcome \in {"open", "decoding", "value"} => found = HeaderLen
  /\ result = "ok" /\ next > 0 =>
       outcome \notin {"out_of_bounds", "malformed_label"}

(* No value, and not a byte of it, is decoded with another seed than it    *)
(* was encoded with.                                                       *)
WrongSeedRefused == outcome = "value" \/ got # << >> => dseed = seed

(* What was encoded with Ok, with no length of a block cut off in its      *)
(* header, and opened with the same seed, comes back, if it has a byte.    *)
ValueComesBack ==
  (result = "ok" /\ dseed = seed /\ HeaderFaithful /\ next > 0)
     ~> (outcome = "value")
=============================================================================
