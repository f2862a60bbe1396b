---------------------------- MODULE ArchiveProofs ----------------------------
(***************************************************************************)
(* Proofs about Archive: for every set of samples, every way of writing    *)
(* and reading them, every region size, answer of the Writer and place     *)
(* where encoding stops, what a frame may be taken for.  Where Encode and  *)
(* Decode agree, no other value than the one encoded comes back.           *)
(***************************************************************************)
EXTENDS Archive, RegionPipeProofs, FiniteSetTheorems

(* The writes of a sample.                                                 *)
LEMMA WritesType ==
  ASSUME NEW s \in Samples
  PROVE  /\ Len(WritesOf(s)) \in Nat
         /\ \A i \in 1 .. Len(WritesOf(s)) :
              Len(WritesOf(s)[i]) \in 1 .. REGION_SIZE
<1> DEFINE w == WritesOf(s)
<1>1. w \in Seq(Seq(Nat)) /\ \A i \in 1 .. Len(w) : Len(w[i]) \in Chunks
  BY ArchiveAssumption
<1>2. Chunks = 1 .. REGION_SIZE
  BY ArchiveAssumption
<1> HIDE DEF w
<1>3. Len(w) \in Nat /\ \A i \in 1 .. Len(w) : Len(w[i]) \in 1 .. REGION_SIZE
  BY <1>1, <1>2
<1> QED
  BY <1>3 DEF w

(* Where they end.                                                         *)
LEMMA EndSteps ==
  ASSUME NEW s \in Samples
  PROVE  /\ EndAfter(s, 0) = 0
         /\ \A i \in 1 .. Len(WritesOf(s)) :
              /\ EndAfter(s, i - 1) \in Nat
              /\ EndAfter(s, i) = EndAfter(s, i - 1) + Len(WritesOf(s)[i])
<1> DEFINE len(j) == Len(WritesOf(s)[j])
           lens(i) == [j \in 1 .. i |-> len(j)]
<1>1. \A j \in 1 .. Len(WritesOf(s)) : len(j) \in Nat
  BY WritesType
<1>2. Len(WritesOf(s)) \in Nat
  BY WritesType
<1> HIDE DEF len
<1>3. EndAfter(s, 0) = 0
  <2>1. lens(0) = << >>
    OBVIOUS
  <2>2. EndAfter(s, 0) = SumOf(lens(0))
    BY DEF EndAfter, len
  <2> QED
    BY <2>1, <2>2, SumOfNone
<1>4. ASSUME NEW i \in 1 .. Len(WritesOf(s))
      PROVE  /\ EndAfter(s, i - 1) \in Nat
             /\ EndAfter(s, i) = EndAfter(s, i - 1) + len(i)
  <2>1. /\ lens(i - 1) \in Seq(Nat)
        /\ lens(i) = Append(lens(i - 1), len(i))
    BY <1>1, <1>2
  <2>2. len(i) \in Nat
    BY <1>1
  <2>3. /\ EndAfter(s, i) = SumOf(lens(i))
        /\ EndAfter(s, i - 1) = SumOf(lens(i - 1))
    BY DEF EndAfter, len
  <2> HIDE DEF lens
  <2> QED
    BY <2>1, <2>2, <2>3, SumOfAppend
<1> QED
  BY <1>3, <1>4 DEF len

-----------------------------------------------------------------------------
(* The stages of a frame.  The two programs do not run at the same time; a *)
(* region follows the whole header; Ok comes after the last write, and     *)
(* from a flush that succeeded.                                            *)
Stages ==
  /\ result = "encoding" => outcome = "unopened"
  /\ outcome \in {"unopened", "out_of_bounds", "malformed_label", "open",
                  "environment_mismatch"} => dphase = "new"
  /\ outcome \in {"decoding", "value", "invalid_pattern"} => dphase = "open"
  /\ header # HeaderLen => out = << >>
  /\ result = "ok" =>
       header = HeaderLen /\ Sent = Len(writes) /\ phase = "flushed"
  /\ outcome \in {"open", "decoding", "value"} => found = HeaderLen

FrameTypes ==
  /\ sample \in Samples
  /\ writes = WritesOf(sample)
  /\ label \in LabelLengths
  /\ stamped \in BOOLEAN
  /\ header \in {0, LabelAt, HeaderLen}
  /\ found \in 0 .. header
  /\ result \in {"encoding", "ok", "frame_error", "value_error",
                 "flush_error", "panicked", "stopped"}
  /\ outcome \in {"unopened", "out_of_bounds", "malformed_label", "open",
                  "environment_mismatch", "bearer_error", "decoding",
                  "value", "invalid_pattern", "astray"}

(* What was written so far is a number of whole writes of the sample.      *)
AtWrites ==
  /\ IsFiniteSet(ends)
  /\ Sent \in 0 .. Len(WritesOf(sample))
  /\ ends = {EndAfter(sample, i) : i \in 0 .. Sent}
  /\ next = EndAfter(sample, Sent)

FrameInv == TypeOK /\ FrameTypes /\ AtWrites /\ Stages

LEMMA FrameInvInit == FrameInit => FrameInv
<1> SUFFICES ASSUME FrameInit PROVE FrameInv
  OBVIOUS
<1>1. Init /\ PipeInit
  BY DEF FrameInit, PipeInit
<1>2. ends = {0} /\ next = 0 /\ out = << >>
  BY <1>1 DEF Init
<1>3. dphase = "new"
  BY <1>1 DEF PipeInit, D!InitDecoder
<1>4. FrameTypes
  BY DEF FrameInit, FrameTypes
<1>5. Cardinality(ends) = 1 /\ IsFiniteSet(ends) /\ Sent = 0
  <2>1. Cardinality({0}) = 1 /\ IsFiniteSet({0})
    BY FS_Singleton, Zenon
  <2> QED
    BY <1>2, <2>1 DEF Sent
<1>6. AtWrites
  <2>1. EndAfter(sample, 0) = 0 /\ Len(WritesOf(sample)) \in Nat
    BY <1>4, EndSteps, WritesType DEF FrameTypes
  <2> QED
    BY <1>2, <1>5, <2>1 DEF AtWrites
<1>7. Stages
  BY <1>2, <1>3 DEF FrameInit, Stages
<1> QED
  BY <1>1, <1>4, <1>6, <1>7, TypeInit DEF FrameInv

-----------------------------------------------------------------------------
(* The next write of the sample, or a flush, is one of the encoder's calls.*)
LEMMA EncodeCalls ==
  ASSUME FrameInv, EncodeNext
  PROVE  /\ Sent + 1 \in 1 .. Len(WritesOf(sample))
         /\ Len(WritesOf(sample)[Sent + 1]) \in 1 .. REGION_SIZE
         /\ Len(WritesOf(sample)[Sent + 1]) \in Chunks
         /\ Write(Len(WritesOf(sample)[Sent + 1]))
         /\ outcome = "unopened" /\ dphase = "new"
         /\ WriteValue
<1>1. writes = WritesOf(sample) /\ sample \in Samples
  BY DEF FrameInv, FrameTypes
<1>2. Len(WritesOf(sample)) \in Nat
  BY <1>1, WritesType
<1>3. Sent + 1 \in 1 .. Len(WritesOf(sample))
  BY <1>1, <1>2 DEF FrameInv, AtWrites, EncodeNext
<1>4. Len(WritesOf(sample)[Sent + 1]) \in Chunks
  BY <1>1, <1>3, ArchiveAssumption
<1>5. Write(Len(WritesOf(sample)[Sent + 1]))
  BY <1>1 DEF EncodeNext
<1>6. outcome = "unopened" /\ dphase = "new"
  BY DEF FrameInv, Stages, EncodeNext
<1>7. WriteValue
  BY <1>4, <1>5, <1>6 DEF WriteValue, EncodeNext
<1> QED
  BY <1>1, <1>3, <1>4, <1>5, <1>6, <1>7, WritesType

LEMMA FlushCalls ==
  ASSUME FrameInv, FlushFrame
  PROVE  /\ outcome = "unopened" /\ dphase = "new"
         /\ FlushAll
         /\ UNCHANGED <<next, ends>>
         /\ phase' \in {"flushed", "failed", "panicked"}
<1>1. outcome = "unopened" /\ dphase = "new"
  BY DEF FrameInv, Stages, FlushFrame
<1>2. FlushAll
  BY <1>1 DEF FlushAll, FlushFrame
<1>3. /\ UNCHANGED <<next, ends>>
      /\ phase' \in {"flushed", "failed", "panicked"}
  BY <1>2 DEF FlushAll, FlushCall, FlushEmpty, Flush, PassFails, PassRefused,
              PassUnflushed
<1> QED
  BY <1>1, <1>2, <1>3

(* Every other step leaves the encoder alone.                              *)
LEMMA Others ==
  ASSUME [FrameNext]_archiveVars, ~EncodeNext, ~FlushFrame
  PROVE  UNCHANGED vars /\ UNCHANGED <<sample, writes, label, stamped>>
<1>1. ASSUME NEW w \in WriterResults, WriteHeaderPart(w)
      PROVE  UNCHANGED vars /\ UNCHANGED <<sample, writes, label, stamped>>
  BY <1>1 DEF WriteHeaderPart, pipeVars
<1>2. CASE Stops \/ OpenFrame \/ DecodeReturns
  BY <1>2 DEF Stops, OpenFrame, DecodeReturns, pipeVars
<1>3. CASE GetValue
  BY <1>3 DEF GetValue, BuildDecoder, pipeVars
<1>4. CASE DecodeNext
  BY <1>4 DEF DecodeNext
<1>5. CASE UNCHANGED archiveVars
  BY <1>5 DEF archiveVars, frameVars, pipeVars
<1> QED
  BY <1>1, <1>2, <1>3, <1>4, <1>5 DEF FrameNext, Encoding, FrameDecoding

LEMMA FrameEncodesStep ==
  FrameInv /\ [FrameNext]_archiveVars => [Next]_vars
<1> SUFFICES ASSUME FrameInv, [FrameNext]_archiveVars PROVE [Next]_vars
  OBVIOUS
<1>1. CASE EncodeNext
  BY <1>1, EncodeCalls DEF Next
<1>2. CASE FlushFrame
  BY <1>2 DEF FlushFrame, Next
<1> QED
  BY <1>1, <1>2, Others

-----------------------------------------------------------------------------
(* A write is accepted whole, or not at all.                               *)
LEMMA WriteAccepts ==
  ASSUME TypeOK, NEW k \in 1 .. REGION_SIZE, Write(k)
  PROVE  \/ UNCHANGED <<next, ends>>
         \/ next' = next + k /\ ends' = ends \cup {next + k}
  BY DEF Write, WriteOversized, WritePanics, WriteFits, WriteSwitches,
         PassFails, PassRefused, PassUnflushed, Extend

LEMMA AtWritesNext ==
  FrameInv /\ [FrameNext]_archiveVars => AtWrites'
<1> SUFFICES ASSUME FrameInv, [FrameNext]_archiveVars PROVE AtWrites'
  OBVIOUS
<1>1. CASE UNCHANGED <<next, ends, sample>>
  BY <1>1 DEF FrameInv, AtWrites, Sent
<1>2. CASE EncodeNext
  <2> DEFINE k == Len(WritesOf(sample)[Sent + 1])
  <2>1. /\ Sent + 1 \in 1 .. Len(WritesOf(sample))
        /\ k \in 1 .. REGION_SIZE
        /\ Write(k)
    BY <1>2, EncodeCalls
  <2>2. UNCHANGED sample /\ sample \in Samples
    BY <1>2 DEF EncodeNext, FrameInv, FrameTypes
  <2>3. \/ UNCHANGED <<next, ends>>
        \/ next' = next + k /\ ends' = ends \cup {next + k}
    BY <2>1, WriteAccepts DEF FrameInv
  <2>4. EndAfter(sample, Sent + 1) = EndAfter(sample, Sent) + k
    <3> HIDE DEF k
    <3>1. (Sent + 1) - 1 = Sent
      BY DEF FrameInv, AtWrites
    <3> QED
      BY <2>1, <2>2, <3>1, EndSteps DEF k
  <2> HIDE DEF k
  <2>5. CASE next' = next + k /\ ends' = ends \cup {next + k}
    <3>1. IsFiniteSet(ends) /\ Sent \in Nat /\ next = EndAfter(sample, Sent)
      BY DEF FrameInv, AtWrites
    <3>2. next + k \notin ends
      BY <2>1 DEF FrameInv, TypeOK
    <3>3. IsFiniteSet(ends') /\ Cardinality(ends') = Cardinality(ends) + 1
      BY <2>5, <3>1, <3>2, FS_AddElement
    <3>4. Cardinality(ends) \in Nat
      BY <3>1, FS_CardinalityType
    <3>5. Sent' = Sent + 1
      BY <3>3, <3>4 DEF Sent
    <3>6. next' = EndAfter(sample, Sent + 1)
      BY <2>4, <2>5, <3>1
    <3>7. ends' = {EndAfter(sample, i) : i \in 0 .. Sent + 1}
      <4>1. ends = {EndAfter(sample, i) : i \in 0 .. Sent}
        BY DEF FrameInv, AtWrites
      <4>2. ends' = ends \cup {EndAfter(sample, Sent + 1)}
        BY <2>5, <3>6
      <4>3. 0 .. Sent + 1 = (0 .. Sent) \cup {Sent + 1}
        BY <3>1
      <4> QED
        BY <4>1, <4>2, <4>3, Zenon
    <3> QED
      BY <2>1, <2>2, <3>1, <3>3, <3>5, <3>6, <3>7 DEF AtWrites
  <2> QED
    BY <1>1, <2>2, <2>3, <2>5
<1>3. CASE FlushFrame
  BY <1>1, <1>3, FlushCalls DEF FlushFrame
<1> QED
  BY <1>1, <1>2, <1>3, Others DEF vars

LEMMA FrameTypesNext ==
  FrameInv /\ [FrameNext]_archiveVars => FrameTypes'
<1> SUFFICES ASSUME FrameInv, [FrameNext]_archiveVars PROVE FrameTypes'
  OBVIOUS
<1>1. FrameTypes
  BY DEF FrameInv
<1>2. LabelAt \in Nat /\ HeaderLen \in Nat
  BY <1>1, ArchiveAssumption
  DEF FrameTypes, LabelAt, HeaderLen, MAGIC_LEN, DescriptorLen
<1>3. CASE UNCHANGED <<sample, writes, label, stamped, header, found, outcome>>
           /\ result' \in {"encoding", "ok", "frame_error", "value_error",
                           "flush_error", "panicked", "stopped"}
  BY <1>1, <1>3 DEF FrameTypes, LabelAt, HeaderLen, DescriptorLen
<1>4. CASE UNCHANGED <<sample, writes, label, stamped, header, found, result>>
           /\ outcome' \in {"unopened", "out_of_bounds", "malformed_label", "open",
                  "environment_mismatch", "bearer_error", "decoding",
                  "value", "invalid_pattern", "astray"}
  BY <1>1, <1>4 DEF FrameTypes, LabelAt, HeaderLen, DescriptorLen
<1>5. ASSUME NEW w \in WriterResults, WriteHeaderPart(w) PROVE FrameTypes'
  <2>1. CASE UNCHANGED header
    BY <1>3, <1>5, <2>1 DEF WriteHeaderPart
  <2>2. CASE header' \in {LabelAt, HeaderLen} /\ UNCHANGED result
    <3>1. UNCHANGED <<sample, writes, label, stamped, found, outcome>>
      BY <1>5 DEF WriteHeaderPart
    <3>2. UNCHANGED <<LabelAt, HeaderLen>>
      BY <3>1 DEF LabelAt, HeaderLen, DescriptorLen
    <3>3. header' \in {0, LabelAt, HeaderLen} /\ found \in 0 .. header'
      <4>1. header \in {0, LabelAt} /\ LabelAt <= HeaderLen
        BY <1>1, <1>2, <1>5, ArchiveAssumption
        DEF FrameTypes, WriteHeaderPart, HeaderLen
      <4>2. header <= header'
        BY <1>2, <2>2, <4>1
      <4> QED
        BY <1>1, <1>2, <2>2, <4>1, <4>2 DEF FrameTypes
    <3> QED
      BY <1>1, <2>2, <3>1, <3>2, <3>3 DEF FrameTypes
  <2> QED
    BY <1>5, <2>1, <2>2 DEF WriteHeaderPart
<1>6. CASE EncodeNext
  BY <1>1, <1>3, <1>6 DEF EncodeNext, FrameTypes
<1>7. CASE FlushFrame
  BY <1>3, <1>7 DEF FlushFrame, Result
<1>8. CASE Stops
  BY <1>3, <1>8 DEF Stops
<1>9. CASE OpenFrame
  <2>1. /\ UNCHANGED <<sample, writes, label, stamped, header, result>>
        /\ found' \in 0 .. header
        /\ outcome' \in {"out_of_bounds", "malformed_label", "open"}
    BY <1>9 DEF OpenFrame, Opened, OpenedLabel
  <2>2. UNCHANGED <<LabelAt, HeaderLen>>
    BY <2>1 DEF LabelAt, HeaderLen, DescriptorLen
  <2> QED
    BY <1>1, <2>1, <2>2 DEF FrameTypes
<1>10. CASE GetValue
  BY <1>4, <1>10 DEF GetValue
<1>11. CASE DecodeNext
  BY <1>1, <1>4, <1>11 DEF DecodeNext, AfterRead, FrameTypes
<1>12. CASE DecodeReturns
  BY <1>4, <1>12 DEF DecodeReturns
<1>13. CASE UNCHANGED archiveVars
  BY <1>1, <1>3, <1>13 DEF archiveVars, frameVars, FrameTypes
<1> QED
  BY <1>5, <1>6, <1>7, <1>8, <1>9, <1>10, <1>11, <1>12, <1>13
  DEF FrameNext, Encoding, FrameDecoding

-----------------------------------------------------------------------------
(* A frame opens with the whole header only: what follows it can make up   *)
(* for no part of it.                                                      *)
LEMMA OpensWhole ==
  ASSUME FrameInv, OpenFrame, outcome' = "open"
  PROVE  found' = HeaderLen
<1>1. ~(Total(found') < LabelAt + 1 + label)
  BY DEF OpenFrame, Opened, OpenedLabel
<1>2. LabelAt \in Nat /\ label \in Nat /\ HeaderLen = LabelAt + 1 + label
  BY ArchiveAssumption
  DEF FrameInv, FrameTypes, LabelAt, HeaderLen, MAGIC_LEN, DescriptorLen
<1>3. /\ header \in Nat /\ header <= HeaderLen
      /\ found' \in Nat /\ found' <= header
      /\ out # << >> => found' = header
  BY <1>2 DEF FrameInv, FrameTypes, OpenFrame
<1>4. CASE out = << >>
  <2>1. Total(found') = found'
    BY <1>3, <1>4, SizeOfNone DEF Total
  <2> QED
    BY <1>1, <1>2, <1>3, <2>1
<1>5. CASE out # << >>
  BY <1>3, <1>5 DEF FrameInv, Stages
<1> QED
  BY <1>4, <1>5

LEMMA StagesNext ==
  FrameInv /\ [FrameNext]_archiveVars => Stages'
<1> SUFFICES ASSUME FrameInv, [FrameNext]_archiveVars PROVE Stages'
  OBVIOUS
<1>1. Stages
  BY DEF FrameInv
<1>2. ASSUME NEW w \in WriterResults, WriteHeaderPart(w) PROVE Stages'
  <2>1. /\ result = "encoding" /\ header # HeaderLen
        /\ result' \in {"encoding", "frame_error", "panicked"}
        /\ UNCHANGED <<outcome, dphase, out>>
        /\ outcome = "unopened"
    BY <1>1, <1>2
    DEF Stages, WriteHeaderPart, pipeVars, vars, decoderVars
  <2> QED
    BY <1>1, <2>1 DEF Stages
<1>3. CASE EncodeNext
  <2>1. /\ result' \in {"encoding", "panicked"}
        /\ header = HeaderLen
        /\ UNCHANGED <<outcome, dphase, header, HeaderLen>>
        /\ outcome = "unopened"
    BY <1>1, <1>3
    DEF Stages, EncodeNext, decoderVars, HeaderLen, LabelAt, DescriptorLen
  <2> QED
    BY <1>1, <2>1 DEF Stages
<1>4. CASE FlushFrame
  <2>1. /\ header = HeaderLen
        /\ UNCHANGED <<outcome, dphase, header, HeaderLen, writes, Sent>>
        /\ outcome = "unopened"
        /\ result' = Result(phase, phase')
        /\ Sent = Len(writes) \/ phase = "failed"
        /\ phase' \in {"flushed", "failed", "panicked"}
    BY <1>4, FlushCalls
    DEF FlushFrame, decoderVars, HeaderLen, LabelAt, DescriptorLen, Sent
  <2>2. /\ result' # "encoding"
        /\ result' = "ok" => phase' = "flushed" /\ phase # "failed"
    BY <2>1 DEF Result
  <2> QED
    BY <1>1, <2>1, <2>2 DEF Stages
<1>5. CASE Stops
  <2>1. /\ result = "encoding" /\ result' = "stopped"
        /\ UNCHANGED <<outcome, dphase, header, HeaderLen, out, found>>
    BY <1>5
    DEF Stops, pipeVars, vars, decoderVars, HeaderLen, LabelAt, DescriptorLen
  <2> QED
    BY <1>1, <2>1 DEF Stages
<1>6. CASE OpenFrame
  <2>1. /\ result # "encoding" /\ outcome = "unopened"
        /\ UNCHANGED <<result, dphase, header, HeaderLen, out, Sent, writes,
                       phase>>
        /\ outcome' \in {"out_of_bounds", "malformed_label", "open"}
    BY <1>6
    DEF OpenFrame, Opened, OpenedLabel, pipeVars, vars, decoderVars,
        HeaderLen, LabelAt, DescriptorLen, Sent
  <2>2. outcome' = "open" => found' = HeaderLen
    BY <1>6, OpensWhole
  <2> QED
    BY <1>1, <2>1, <2>2 DEF Stages
<1>7. CASE GetValue \/ DecodeNext \/ DecodeReturns
  <2>1. /\ UNCHANGED <<result, header, HeaderLen, out, Sent, writes, phase, found>>
    BY <1>7
    DEF GetValue, DecodeNext, DecodeReturns, BuildDecoder, pipeVars, vars,
        HeaderLen, LabelAt, DescriptorLen, Sent
  <2>2. result # "encoding" /\ found = HeaderLen
    BY <1>1, <1>7 DEF Stages, GetValue, DecodeNext, DecodeReturns
  <2>3. CASE GetValue
    <3>1. \/ outcome' = "environment_mismatch" /\ UNCHANGED dphase
          \/ outcome' = "decoding" /\ dphase' = "open"
          \/ outcome' = "bearer_error"
      BY <2>3 DEF GetValue, pipeVars, decoderVars
    <3>2. dphase = "new"
      BY <1>1, <2>3 DEF Stages, GetValue
    <3> QED
      BY <1>1, <2>1, <2>2, <3>1, <3>2 DEF Stages
  <2>4. CASE DecodeNext
    <3>1. \/ outcome' = "decoding" /\ dphase' = "open"
          \/ outcome' \in {"bearer_error", "astray"}
      BY <2>4 DEF DecodeNext, AfterRead
    <3> QED
      BY <1>1, <2>1, <2>2, <3>1 DEF Stages
  <2>5. CASE DecodeReturns
    <3>1. /\ outcome = "decoding" /\ outcome' \in {"value", "invalid_pattern"}
          /\ UNCHANGED dphase
      BY <2>5 DEF DecodeReturns, pipeVars, decoderVars
    <3> QED
      BY <1>1, <2>1, <2>2, <3>1 DEF Stages
  <2> QED
    BY <1>7, <2>3, <2>4, <2>5
<1>8. CASE UNCHANGED archiveVars
  BY <1>1, <1>8
  DEF Stages, archiveVars, frameVars, pipeVars, vars, decoderVars, HeaderLen,
      LabelAt, DescriptorLen, Sent
<1> QED
  BY <1>2, <1>3, <1>4, <1>5, <1>6, <1>7, <1>8
  DEF FrameNext, Encoding, FrameDecoding

LEMMA FrameInvNext == FrameInv /\ [FrameNext]_archiveVars => FrameInv'
<1>1. FrameInv => TypeOK
  BY DEF FrameInv
<1>2. FrameTypes' /\ AtWrites' /\ Stages' /\ TypeOK' => FrameInv'
  BY DEF FrameInv
<1> QED
  BY <1>1, <1>2, FrameEncodesStep, TypeNext, FrameTypesNext, AtWritesNext,
     StagesNext

LEMMA FrameInvariant == FrameSpec => []FrameInv
  BY FrameInvInit, FrameInvNext, PTL DEF FrameSpec

(* A frame, and what is in it, keeps its type.                             *)
THEOREM FrameTyping == FrameSpec => []FrameTypeOK
<1>1. FrameInv => FrameTypeOK
  BY DEF FrameInv, FrameTypes, FrameTypeOK
<1> QED
  BY <1>1, FrameInvariant, PTL

(* The program that encodes a frame drives an encoder: all that is proved  *)
(* of encoders holds of it.                                                *)
LEMMA FrameEncodes == FrameSpec => Spec
<1>1. FrameInit => Init
  BY DEF FrameInit, PipeInit
<1> QED
  BY <1>1, FrameInvariant, FrameEncodesStep, PTL DEF FrameSpec, Spec

-----------------------------------------------------------------------------
LEMMA FrameFramed ==
  TypeOK /\ Bounded /\ Framed /\ FrameInv /\ [FrameNext]_archiveVars => Framed'
<1> SUFFICES ASSUME TypeOK, Bounded, Framed, FrameInv, [FrameNext]_archiveVars
             PROVE  Framed'
  OBVIOUS
<1>1. CASE EncodeNext
  BY <1>1, EncodeCalls, FramedNext DEF PipeNext
<1>2. CASE FlushFrame
  BY <1>2, FlushCalls, FramedNext DEF PipeNext
<1>3. CASE UNCHANGED vars
  BY <1>3 DEF Framed, vars
<1> QED
  BY <1>1, <1>2, <1>3, Others

(* The regions of a frame are a source for its decoder.                    *)
LEMMA FrameSource == FrameSpec => []Source
<1>1. Spec => [](TypeOK /\ Bounded /\ Streaming)
  BY PipeCaller, StreamingInvariant
<1>2. FrameInit => Framed
  BY DEF FrameInit, PipeInit, Init, Framed
<1>3. FrameSpec => []Framed
  BY <1>1, <1>2, FrameFramed, FrameInvariant, FrameEncodes, PTL DEF FrameSpec
<1>4. Spec => []InOrder
  BY PipeCaller, NothingLost
<1>5. Spec => []WholeWrites
  BY PipeCaller, WritesWhole
<1>6. Spec => []WindowIntact
  BY PipeCaller, WindowSafe
<1>7. Spec => []FlushedMeansEmitted
  BY PipeCaller, FlushEmits
<1> QED
  BY <1>1, <1>3, <1>4, <1>5, <1>6, <1>7, FrameEncodes, PTL DEF Source

(* Ok is the answer for a complete frame only, whatever the Writer did,    *)
(* and whatever Encode and Decode are.                                     *)
THEOREM OkIsComplete == FrameSpec => []OkMeansComplete
<1>1. FrameInv /\ Source => OkMeansComplete
  BY DEF FrameInv, Stages, Source, FlushedMeansEmitted, OkMeansComplete
<1> QED
  BY <1>1, FrameInvariant, FrameSource, PTL

-----------------------------------------------------------------------------
(* A region takes at least its header.                                     *)
LEMMA RegionsTakeRoom ==
  ASSUME NEW T, \A t \in T : t.size \in Nat,
         NEW regions \in Seq(T), regions # << >>
  PROVE  EncodedSize(regions) \in Nat /\ EncodedSize(regions) >= HEADER_SIZE
<1> DEFINE n == Len(regions)
           rest == SubSeq(regions, 1, n - 1)
           last == regions[n]
<1>1. /\ rest \in Seq(T) /\ last \in T
      /\ regions = Append(rest, last)
  OBVIOUS
<1> HIDE DEF rest, last
<1>2. /\ EncodedSize(rest) \in Nat
      /\ EncodedSize(regions) = EncodedSize(rest) + HEADER_SIZE + last.size
  BY <1>1, SizeOfAppend
<1>3. last.size \in Nat
  BY <1>1
<1> QED
  BY <1>2, <1>3 DEF HEADER_SIZE

(* With a region behind it, a whole header opens.                          *)
LEMMA OkOpens ==
  ASSUME FrameInv, Source, OpenFrame, result = "ok", next > 0
  PROVE  outcome' = "open"
<1>1. out # << >>
  <2>1. EndOf(out, Len(out), base) = next
    BY DEF FrameInv, Stages, Source, FlushedMeansEmitted
  <2>2. base = 0
    BY DEF Source, Framed
  <2> QED
    BY <2>1, <2>2 DEF EndOf, FrameInv, TypeOK
<1>2. EncodedSize(out) \in Nat /\ EncodedSize(out) >= 12
  <2>1. out \in Seq(Regions) /\ \A r \in Regions : r.size \in Nat
    BY DEF Source, TypeOK, Regions
  <2> QED
    BY <1>1, <2>1, RegionsTakeRoom DEF HEADER_SIZE
<1>3. found' = HeaderLen
  BY <1>1 DEF OpenFrame, FrameInv, Stages
<1>4. label \in Nat /\ LabelAt \in {5, 13} /\ HeaderLen = LabelAt + 1 + label
  BY ArchiveAssumption
  DEF FrameInv, FrameTypes, LabelAt, HeaderLen, MAGIC_LEN, DescriptorLen
<1>5. Total(found') = HeaderLen + EncodedSize(out)
  BY <1>3 DEF Total
<1>6. /\ ~(Total(found') < MAGIC_LEN)
      /\ ~(Total(found') < MAGIC_LEN + LookAhead)
      /\ ~(Total(found') < LabelAt + 1)
      /\ ~(Total(found') < LabelAt + 1 + label)
  BY <1>2, <1>4, <1>5 DEF MAGIC_LEN, LookAhead, DescriptorMaxLen
<1> QED
  BY <1>6 DEF OpenFrame, Opened, OpenedLabel

OkIsOpened ==
  result = "ok" /\ next > 0 => outcome \notin {"out_of_bounds", "malformed_label"}

LEMMA OkIsOpenedNext ==
  FrameInv /\ Source /\ OkIsOpened /\ [FrameNext]_archiveVars => OkIsOpened'
<1> SUFFICES ASSUME FrameInv, Source, OkIsOpened, [FrameNext]_archiveVars
             PROVE  OkIsOpened'
  OBVIOUS
<1>1. CASE OpenFrame
  <2>1. UNCHANGED <<result, next>>
    BY <1>1 DEF OpenFrame, pipeVars, vars
  <2> QED
    BY <1>1, <2>1, OkOpens DEF OkIsOpened
<1>2. ASSUME NEW w \in WriterResults, WriteHeaderPart(w) PROVE OkIsOpened'
  BY <1>2 DEF WriteHeaderPart, FrameInv, Stages, OkIsOpened
<1>3. CASE EncodeNext \/ FlushFrame \/ Stops
  BY <1>3 DEF EncodeNext, FlushFrame, Stops, FrameInv, Stages, OkIsOpened
<1>4. CASE GetValue \/ DecodeNext \/ DecodeReturns
  BY <1>4 DEF GetValue, DecodeNext, AfterRead, DecodeReturns, OkIsOpened
<1>5. CASE UNCHANGED archiveVars
  BY <1>5 DEF archiveVars, frameVars, pipeVars, vars, OkIsOpened
<1> QED
  BY <1>1, <1>2, <1>3, <1>4, <1>5 DEF FrameNext, Encoding, FrameDecoding

(* What opens has all of its header, and what was encoded with Ok opens,   *)
(* if its value has a byte.                                                *)
THEOREM FramesOpen == FrameSpec => []OpensWhatItWrote
<1>1. FrameInit => OkIsOpened
  BY DEF FrameInit, OkIsOpened
<1>2. FrameInv /\ OkIsOpened => OpensWhatItWrote
  BY DEF FrameInv, Stages, OkIsOpened, OpensWhatItWrote
<1> QED
  BY <1>1, <1>2, OkIsOpenedNext, FrameInvariant, FrameSource, PTL DEF FrameSpec

-----------------------------------------------------------------------------
(* A decoder is built with the seed of the encoder, or it is not built:    *)
(* the hash of the first region says which seed that was.                  *)
LEMMA BuiltWithSeed ==
  ASSUME Source, Unbuilt, BuildDecoder, dphase' = "open"
  PROVE  dseed = seed
<1>1. PICK bytes \in D!Accepted(dcurr) : TRUE
  BY DEF BuildDecoder, D!Build, D!Errs
<1>2. dcurr \in Slot /\ DictionaryKept(dcurr)
  BY DEF Unbuilt, DictionaryKept
<1>3. 1 \in 1 .. Len(out) /\ TakenFor(bytes, 1)
  BY <1>1, <1>2, PassFinds DEF Unbuilt
<1>4. CASE D!CutOff(out[1])
  BY <1>3, <1>4 DEF TakenFor
<1>5. CASE ~D!CutOff(out[1])
  <2>1. bytes = out[1].data
    BY <1>3, <1>5 DEF TakenFor
  <2>2. D!HashMatches(bytes)
    BY <1>1 DEF D!Accepted
  <2>3. HashOf(dseed, bytes) = out[1].header.hash
    BY <2>2
    DEF Unbuilt, D!HashMatches, D!Incoming, HashOf, D!HashOf, ZeroHash,
        D!ZeroHash
  <2>4. out[1].header.hash = HashOf(seed, bytes)
    BY <1>3, <2>1 DEF Source, Framed
  <2> QED
    BY <2>3, <2>4 DEF HashOf, ZeroHash
<1> QED
  BY <1>4, <1>5

SeedKept ==
  /\ dphase = "new" => Unbuilt
  /\ dphase \in {"open", "failed", "panicked", "astray"} => dseed = seed
  /\ got # << >> => dphase \in {"open", "failed", "panicked", "astray"}

LEMMA SeedKeptNext ==
  FrameInv /\ Source /\ SeedKept /\ [FrameNext]_archiveVars => SeedKept'
<1> SUFFICES ASSUME FrameInv, Source, SeedKept, [FrameNext]_archiveVars
             PROVE  SeedKept'
  OBVIOUS
<1>1. CASE EncodeNext \/ FlushFrame
  <2>1. UNCHANGED <<decoderVars, seed>>
    BY <1>1, EncodeCalls, FlushCalls, EncoderStep
  <2> QED
    BY <2>1 DEF SeedKept, Unbuilt, decoderVars
<1>2. CASE UNCHANGED pipeVars
  BY <1>2 DEF SeedKept, Unbuilt, pipeVars, vars, decoderVars
<1>3. CASE GetValue
  <2>1. CASE BuildDecoder
    <3>1. dphase = "new" /\ Unbuilt
      BY <2>1 DEF BuildDecoder, D!Build, SeedKept
    <3>2. /\ dphase' \in {"open", "dead"}
          /\ UNCHANGED <<vars, got, dseed>>
      BY <2>1, <3>1, BuildStep
    <3>3. dphase' = "open" => dseed = seed
      BY <2>1, <3>1, BuiltWithSeed
    <3>4. got = << >>
      BY <3>1 DEF Unbuilt
    <3> QED
      BY <3>2, <3>3, <3>4 DEF SeedKept, vars
  <2> QED
    BY <1>2, <1>3, <2>1 DEF GetValue
<1>4. CASE DecodeNext
  <2>1. /\ dphase = "open"
        /\ dphase' \in {"open", "failed", "panicked", "astray"}
        /\ UNCHANGED <<dseed, seed>>
    BY <1>4
    DEF DecodeNext, vars, D!Read, D!ReadPanics, D!ReadPastEnd, D!ReadServed,
        D!ReadPulls, D!ReadAstray, D!CanRead, D!Errs, D!Serve
  <2> QED
    BY <2>1 DEF SeedKept
<1>5. ASSUME NEW w \in WriterResults, WriteHeaderPart(w)
      PROVE  UNCHANGED pipeVars
  BY <1>5 DEF WriteHeaderPart
<1> QED
  BY <1>1, <1>2, <1>3, <1>4, <1>5
  DEF FrameNext, Encoding, FrameDecoding, Stops, OpenFrame, DecodeReturns,
      archiveVars

(* Nothing is decoded with another seed than the one it was encoded with.  *)
THEOREM WrongSeed == FrameSpec => []WrongSeedRefused
<1>1. FrameInit => SeedKept
  <2> SUFFICES ASSUME FrameInit PROVE SeedKept
    OBVIOUS
  <2>1. PipeInit
    BY DEF FrameInit
  <2>2. dphase = "new" /\ got = << >>
    BY <2>1 DEF PipeInit, D!InitDecoder
  <2> QED
    BY <2>1, <2>2, DecodingInit DEF SeedKept, Decoding
<1>2. FrameInv /\ SeedKept => WrongSeedRefused
  BY DEF FrameInv, Stages, SeedKept, WrongSeedRefused
<1> QED
  BY <1>1, <1>2, SeedKeptNext, FrameInvariant, FrameSource, PTL DEF FrameSpec

-----------------------------------------------------------------------------
(* For every sample there are places at which decoding it may pause.       *)
CodecAgrees == \A s \in Samples : \E stops \in SUBSET Nat : Agrees(s, stops)

AtStop == \E stops \in SUBSET Nat : Agrees(sample, stops) /\ Len(got) \in stops

(* While the decoder is open, decoding has seen the first bytes of the     *)
(* value, in order, and stands at one of these places.                     *)
LEMMA ProgressIs ==
  ASSUME FrameInv, Reading
  PROVE  Progress = From(sample, Len(got)) /\ Len(got) \in Nat
<1>1. writes = WritesOf(sample)
  BY DEF FrameInv, FrameTypes
<1>2. got \in Seq(Nat) /\ Follows(got, 0) /\ Len(got) \in Nat
  BY DEF Reading
<1>3. got = [i \in 1 .. Len(got) |-> i]
  BY <1>2, RunsFromStart
<1>4. Content(writes, got) = Content(WritesOf(sample), [i \in 1 .. Len(got) |-> i])
  BY <1>1, <1>3, Zenon
<1> QED
  BY <1>2, <1>4 DEF Progress, From

(* So the next read is one of the pipe, and ends at such a place too.      *)
LEMMA DecodeReads ==
  ASSUME FrameInv, Reading, DecodeNext,
         NEW stops \in SUBSET Nat, Agrees(sample, stops), Len(got) \in stops
  PROVE  /\ Progress.n \in ReadSizes
         /\ WithinWrite(Progress.n)
         /\ D!Read(Progress.n)
         /\ Len(got) + Progress.n \in stops
         /\ UNCHANGED <<vars, sample>>
<1> DEFINE m == Len(got)
           n == Progress.n
<1>1. Progress = From(sample, m)
  BY ProgressIs
<1>2. Progress.is = "more" /\ D!Read(n) /\ UNCHANGED <<vars, sample>>
  BY DEF DecodeNext
<1>3. GoesOn(sample, m, stops)
  <2>1. GoesOn(sample, m, stops) \/ Returns(sample, m)
    BY DEF Agrees
  <2> QED
    BY <1>1, <1>2, <2>1 DEF Returns
<1>4. /\ n \in ReadSizes
      /\ m + n \in stops
      /\ \A i \in 0 .. Len(WritesOf(sample)) :
           ~(m < EndAfter(sample, i) /\ EndAfter(sample, i) < m + n)
  BY <1>1, <1>3 DEF GoesOn
<1> HIDE DEF n
<1>5. WithinWrite(n)
  <2> SUFFICES ASSUME NEW e \in ends
               PROVE  ~(Len(got) < e /\ e < Len(got) + n)
    BY DEF WithinWrite
  <2>1. PICK i \in 0 .. Sent : e = EndAfter(sample, i)
    BY DEF FrameInv, AtWrites
  <2>2. sample \in Samples /\ Sent \in 0 .. Len(WritesOf(sample))
    BY DEF FrameInv, FrameTypes, AtWrites
  <2>3. i \in 0 .. Len(WritesOf(sample))
    BY <2>2, WritesType
  <2> QED
    BY <1>4, <2>1, <2>3
<1> QED
  BY <1>2, <1>4, <1>5 DEF n

(* Every step of a frame is one of the pipe, or leaves it alone.           *)
LEMMA FramePipeStep ==
  FrameInv /\ Decoding /\ AtStop /\ [FrameNext]_archiveVars
    => [PipeNext]_pipeVars
<1> SUFFICES ASSUME FrameInv, Decoding, AtStop, [FrameNext]_archiveVars
             PROVE  [PipeNext]_pipeVars
  OBVIOUS
<1>1. CASE EncodeNext
  BY <1>1, EncodeCalls DEF PipeNext
<1>2. CASE FlushFrame
  BY <1>2, FlushCalls DEF PipeNext
<1>3. CASE GetValue
  BY <1>3 DEF GetValue, PipeNext
<1>4. CASE DecodeNext
  <2>1. Reading
    BY <1>4 DEF FrameInv, Stages, Decoding, DecodeNext
  <2>2. PICK stops \in SUBSET Nat : Agrees(sample, stops) /\ Len(got) \in stops
    BY DEF AtStop
  <2>3. ReadValue
    BY <1>4, <2>1, <2>2, DecodeReads DEF ReadValue
  <2> QED
    BY <2>3 DEF PipeNext
<1>5. ASSUME NEW w \in WriterResults, WriteHeaderPart(w)
      PROVE  UNCHANGED pipeVars
  BY <1>5 DEF WriteHeaderPart
<1> QED
  BY <1>1, <1>2, <1>3, <1>4, <1>5
  DEF FrameNext, Encoding, FrameDecoding, Stops, OpenFrame, DecodeReturns,
      archiveVars

LEMMA AtStopNext ==
  FrameInv /\ Source /\ Decoding /\ AtStop /\ [FrameNext]_archiveVars => AtStop'
<1> SUFFICES ASSUME FrameInv, Source, Decoding, AtStop, [FrameNext]_archiveVars
             PROVE  AtStop'
  OBVIOUS
<1>1. PICK stops \in SUBSET Nat : Agrees(sample, stops) /\ Len(got) \in stops
  BY DEF AtStop
<1>2. UNCHANGED sample /\ Len(got') \in stops => AtStop'
  <2> SUFFICES ASSUME UNCHANGED sample, Len(got') \in stops PROVE AtStop'
    OBVIOUS
  <2>1. Agrees(sample', stops)
    BY <1>1
  <2> QED
    BY <2>1 DEF AtStop
<1>3. CASE EncodeNext \/ FlushFrame
  <2>1. UNCHANGED <<decoderVars, sample>>
    BY <1>3, EncodeCalls, FlushCalls, EncoderStep DEF EncodeNext, FlushFrame
  <2> QED
    BY <1>1, <1>2, <2>1 DEF decoderVars
<1>4. CASE GetValue
  <2>1. UNCHANGED <<got, sample>>
    BY <1>4
    DEF GetValue, BuildDecoder, D!Build, pipeVars, decoderVars
  <2> QED
    BY <1>1, <1>2, <2>1
<1>5. CASE DecodeNext
  <2> DEFINE n == Progress.n
  <2>1. Reading
    BY <1>5 DEF FrameInv, Stages, Decoding, DecodeNext
  <2>2. /\ n \in ReadSizes /\ WithinWrite(n) /\ D!Read(n)
        /\ Len(got) + n \in stops /\ UNCHANGED <<vars, sample>>
    BY <1>1, <1>5, <2>1, DecodeReads
  <2> HIDE DEF n
  <2>3. \/ Len(got') = Len(got) + n
        \/ UNCHANGED got
    BY <2>1, <2>2, ReadStep
  <2> QED
    BY <1>1, <1>2, <2>2, <2>3
<1>6. CASE UNCHANGED <<got, sample>>
  BY <1>1, <1>2, <1>6
<1>7. ASSUME NEW w \in WriterResults, WriteHeaderPart(w)
      PROVE  UNCHANGED <<got, sample>>
  BY <1>7 DEF WriteHeaderPart, pipeVars, decoderVars
<1> QED
  BY <1>3, <1>4, <1>5, <1>6, <1>7
  DEF FrameNext, Encoding, FrameDecoding, Stops, OpenFrame, DecodeReturns,
      archiveVars, frameVars, pipeVars, decoderVars

LEMMA FrameReads ==
  ASSUME CodecAgrees PROVE FrameSpec => [](Decoding /\ AtStop)
<1>1. FrameInit => Decoding
  BY DecodingInit DEF FrameInit
<1>2. FrameInit => AtStop
  <2> SUFFICES ASSUME FrameInit PROVE AtStop
    OBVIOUS
  <2>1. sample \in Samples /\ got = << >>
    BY DEF FrameInit, PipeInit, D!InitDecoder
  <2>2. PICK stops \in SUBSET Nat : Agrees(sample, stops)
    BY <2>1 DEF CodecAgrees
  <2>3. Len(got) \in stops
    BY <2>1, <2>2 DEF Agrees
  <2> QED
    BY <2>2, <2>3 DEF AtStop
<1>3. FrameInv /\ Source /\ Decoding /\ AtStop /\ [FrameNext]_archiveVars
        => (Decoding /\ AtStop)'
  BY FramePipeStep, DecodingNext, AtStopNext
<1> QED
  BY <1>1, <1>2, <1>3, FrameInvariant, FrameSource, PTL DEF FrameSpec

(* Where Encode and Decode agree on every sample, what a frame does with   *)
(* its stream is what the pipe does, so that all that is proved of the     *)
(* pipe holds: no byte of a value is lost, repeated or out of order.       *)
THEOREM FrameIsPipe == ASSUME CodecAgrees PROVE FrameSpec => ImplementsPipe
<1>1. FrameInit => PipeInit
  BY DEF FrameInit
<1>2. FrameSpec => [](FrameInv /\ Decoding /\ AtStop)
  BY FrameInvariant, FrameReads, PTL
<1> QED
  BY <1>1, <1>2, FramePipeStep, PTL DEF FrameSpec, ImplementsPipe, SafePipe

-----------------------------------------------------------------------------
(* A value is returned when decoding has one, and it always gets there.    *)
Decoded ==
  /\ outcome = "value" => Progress.is = "done"
  /\ outcome # "invalid_pattern"

(* What decoding has come to is right.                                     *)
LEMMA ProgressRight ==
  ASSUME FrameInv, Decoding, AtStop, outcome \in {"decoding", "value"}
  PROVE  /\ Progress.is # "invalid"
         /\ Progress.is = "done" => Progress.value = ValueOf(sample)
<1>1. Reading
  BY DEF FrameInv, Stages, Decoding
<1>2. PICK stops \in SUBSET Nat : Agrees(sample, stops) /\ Len(got) \in stops
  BY DEF AtStop
<1>3. GoesOn(sample, Len(got), stops) \/ Returns(sample, Len(got))
  BY <1>2 DEF Agrees
<1>4. Progress = From(sample, Len(got))
  BY <1>1, ProgressIs
<1> QED
  BY <1>3, <1>4 DEF GoesOn, Returns

LEMMA DecodedNext ==
  FrameInv /\ Decoding /\ AtStop /\ Decoded /\ [FrameNext]_archiveVars => Decoded'
<1> SUFFICES ASSUME FrameInv, Decoding, AtStop, Decoded, [FrameNext]_archiveVars
             PROVE  Decoded'
  OBVIOUS
<1>1. CASE DecodeReturns
  <2>1. UNCHANGED <<sample, writes, got>> /\ outcome = "decoding"
    BY <1>1 DEF DecodeReturns, pipeVars, decoderVars
  <2>2. UNCHANGED Progress
    BY <2>1 DEF Progress, Content
  <2>3. Progress.is # "invalid"
    BY <2>1, ProgressRight
  <2>4. Progress.is = "done" /\ outcome' = "value"
    BY <1>1, <2>3 DEF DecodeReturns
  <2> QED
    BY <2>2, <2>4 DEF Decoded
<1>2. CASE OpenFrame \/ GetValue \/ DecodeNext
  <2>1. outcome' \notin {"value", "invalid_pattern"}
    BY <1>2
    DEF OpenFrame, Opened, OpenedLabel, GetValue, DecodeNext, AfterRead
  <2> QED
    BY <2>1 DEF Decoded
<1>3. ASSUME NEW w \in WriterResults, WriteHeaderPart(w) PROVE Decoded'
  BY <1>3 DEF WriteHeaderPart, FrameInv, Stages, Decoded
<1>4. CASE EncodeNext \/ FlushFrame \/ Stops
  BY <1>4 DEF EncodeNext, FlushFrame, Stops, FrameInv, Stages, Decoded
<1>5. CASE UNCHANGED archiveVars
  BY <1>5
  DEF Decoded, Progress, Content, archiveVars, frameVars, pipeVars, decoderVars
<1> QED
  BY <1>1, <1>2, <1>3, <1>4, <1>5 DEF FrameNext, Encoding, FrameDecoding

(* Where Encode and Decode agree, a value that comes back is the value,    *)
(* wherever encoding stopped and whatever the Writer answered.             *)
THEOREM ValueIsRight ==
  ASSUME CodecAgrees PROVE FrameSpec => []NeverWrongValue
<1>1. FrameInit => Decoded
  BY DEF FrameInit, Decoded
<1>2. FrameInv /\ Decoding /\ AtStop /\ Decoded => NeverWrongValue
  BY ProgressRight DEF Decoded, NeverWrongValue
<1>3. FrameSpec => [](FrameInv /\ Decoding /\ AtStop)
  BY FrameInvariant, FrameReads, PTL
<1> QED
  BY <1>1, <1>2, <1>3, DecodedNext, PTL DEF FrameSpec

-----------------------------------------------------------------------------
(* What decoding a frame has come to, if encode returned Ok and cut no     *)
(* length off.                                                             *)
OkFails ==
  result = "ok" /\ dseed = seed /\ HeaderFaithful =>
    /\ outcome \notin {"environment_mismatch", "astray"}
    /\ outcome = "bearer_error" => next = 0

(* A flushed value ends with the last region, and a read that has not come *)
(* to its end stays within it.                                             *)
LEMMA OkReads ==
  ASSUME FrameInv, Source, Decoding, AtStop, DecodeNext,
         result = "ok", dseed = seed, HeaderFaithful
  PROVE  dphase' = "open"
<1> DEFINE n == Progress.n
           total == EndAfter(sample, Len(WritesOf(sample)))
<1>1. Reading
  BY DEF FrameInv, Stages, Decoding, DecodeNext
<1>2. PICK stops \in SUBSET Nat : Agrees(sample, stops) /\ Len(got) \in stops
  BY DEF AtStop
<1>3. /\ n \in ReadSizes /\ WithinWrite(n) /\ D!Read(n)
      /\ Len(got) + n \in stops /\ UNCHANGED vars
  BY <1>1, <1>2, DecodeReads
<1>4. next = total /\ phase = "flushed"
  BY DEF FrameInv, FrameTypes, AtWrites, Stages
<1>5. EndOf(out, Len(out), 0) = next
  BY <1>4 DEF Source, Framed, FlushedMeansEmitted
<1> HIDE DEF n, total
<1>6. /\ dphase' \in {"open", "failed"}
      /\ dphase' = "failed" => Len(got) = EndOf(out, Len(out), 0)
  BY <1>1, <1>3, ReadStep
<1>7. Len(got) + n <= total
  <2>1. stops \subseteq 0 .. total
    BY <1>2 DEF Agrees, total
  <2>2. total \in Nat
    BY <1>4 DEF FrameInv, TypeOK
  <2>3. Len(got) + n \in 0 .. total
    BY <1>3, <2>1, Zenon
  <2> QED
    BY <2>2, <2>3
<1>8. Len(got) \in Nat /\ n \in Nat /\ n >= 1 /\ total \in Nat
  <2>1. ReadSizes = 1 .. REGION_SIZE /\ REGION_SIZE \in Nat
    BY ArchiveAssumption, RegionAssumption
  <2>2. Len(got) \in Nat
    BY <1>1 DEF Reading
  <2>3. total \in Nat
    BY <1>4 DEF FrameInv, TypeOK
  <2> QED
    BY <1>3, <2>1, <2>2, <2>3
<1>9. dphase' # "failed"
  BY <1>4, <1>5, <1>6, <1>7, <1>8
<1> QED
  BY <1>6, <1>9

LEMMA OkFailsNext ==
  FrameInv /\ Source /\ Decoding /\ AtStop /\ OkFails /\ [FrameNext]_archiveVars
    => OkFails'
<1> SUFFICES ASSUME FrameInv, Source, Decoding, AtStop, OkFails,
                    [FrameNext]_archiveVars
             PROVE  OkFails'
  OBVIOUS
<1>1. CASE GetValue
  <2> SUFFICES ASSUME result' = "ok", dseed' = seed', HeaderFaithful'
               PROVE  /\ outcome' \notin {"environment_mismatch", "astray"}
                      /\ outcome' = "bearer_error" => next' = 0
    BY DEF OkFails
  <2>1. CASE BuildDecoder
    <3>1. /\ dphase' \in {"open", "dead"}
          /\ UNCHANGED <<vars, dseed>>
          /\ dphase' = "dead" /\ dseed = seed /\ HeaderFaithful
               => Len(out) = 0
      BY <2>1, BuildStep DEF BuildDecoder, D!Build, Decoding
    <3>2. UNCHANGED <<seed, next, result>>
      BY <1>1, <3>1 DEF vars, GetValue
    <3>3. phase = "flushed" /\ dseed = seed /\ HeaderFaithful
      BY <3>1, <3>2 DEF FrameInv, Stages, HeaderFaithful, vars
    <3>4. EndOf(out, Len(out), 0) = next
      BY <3>3 DEF Source, Framed, FlushedMeansEmitted
    <3>5. dphase' = "dead" => next = 0
      BY <3>1, <3>3, <3>4 DEF EndOf
    <3>6. outcome' \in {"decoding", "bearer_error"}
      <4>1. dphase = "new"
        BY <2>1 DEF BuildDecoder, D!Build
      <4>2. dphase' # dphase
        BY <3>1, <4>1
      <4>3. ~ UNCHANGED pipeVars
        BY <4>2 DEF pipeVars, decoderVars
      <4> QED
        BY <1>1, <4>3 DEF GetValue
    <3>7. outcome' = "bearer_error" => dphase' # "open"
      BY <1>1, <2>1 DEF GetValue
    <3> QED
      BY <3>1, <3>2, <3>5, <3>6, <3>7
  <2>2. CASE Seeded(dseed) # Seeded(seed) /\ UNCHANGED pipeVars
    BY <2>2 DEF Seeded, pipeVars, vars, decoderVars
  <2> QED
    BY <1>1, <2>1, <2>2 DEF GetValue
<1>2. CASE DecodeNext
  <2>1. UNCHANGED <<vars, result>> /\ outcome = "decoding"
    BY <1>2 DEF DecodeNext
  <2>2. UNCHANGED dseed
    <3>1. Reading
      BY <2>1 DEF FrameInv, Stages, Decoding
    <3>2. D!Read(Progress.n)
      BY <1>2 DEF DecodeNext
    <3> QED
      BY <3>2
      DEF D!Read, D!ReadPanics, D!ReadPastEnd, D!ReadServed, D!ReadPulls,
          D!ReadAstray
  <2>3. outcome' \in {"decoding", "bearer_error", "astray"}
        /\ (dphase' = "open" => outcome' = "decoding")
    BY <1>2, <2>1 DEF DecodeNext, AfterRead
  <2>4. result' = "ok" /\ dseed' = seed' /\ HeaderFaithful'
          => dphase' = "open"
    BY <1>2, <2>1, <2>2, OkReads DEF HeaderFaithful, vars
  <2> QED
    BY <2>3, <2>4 DEF OkFails
<1>3. CASE OpenFrame
  BY <1>3
  DEF OpenFrame, Opened, OpenedLabel, OkFails, HeaderFaithful, pipeVars, vars,
      decoderVars
<1>4. CASE DecodeReturns
  BY <1>4
  DEF DecodeReturns, OkFails, HeaderFaithful, pipeVars, vars, decoderVars
<1>5. ASSUME NEW w \in WriterResults, WriteHeaderPart(w) PROVE OkFails'
  BY <1>5 DEF WriteHeaderPart, FrameInv, Stages, OkFails
<1>6. CASE EncodeNext \/ FlushFrame \/ Stops
  BY <1>6 DEF EncodeNext, FlushFrame, Stops, FrameInv, Stages, OkFails
<1>7. CASE UNCHANGED archiveVars
  BY <1>7
  DEF OkFails, HeaderFaithful, archiveVars, frameVars, pipeVars, vars,
      decoderVars
<1> QED
  BY <1>1, <1>2, <1>3, <1>4, <1>5, <1>6, <1>7
  DEF FrameNext, Encoding, FrameDecoding

(* Where Encode and Decode agree, a frame that was encoded with Ok, has a  *)
(* byte of value and no length that its header cuts off, and is decoded    *)
(* with its seed, meets no error at all: opening it, building the decoder  *)
(* and every read succeed, so that decoding has its value or is on its way *)
(* to it.                                                                  *)
NoErrorAfterOk ==
  result = "ok" /\ dseed = seed /\ HeaderFaithful /\ next > 0
    => outcome \in {"unopened", "open", "decoding", "value"}

THEOREM OkDecodes == ASSUME CodecAgrees PROVE FrameSpec => []NoErrorAfterOk
<1>1. FrameInit => OkFails
  BY DEF FrameInit, OkFails
<1>2. FrameTypeOK /\ FrameInv /\ OkFails /\ OpensWhatItWrote /\ NeverWrongValue
        => NoErrorAfterOk
  <2> SUFFICES ASSUME FrameTypeOK, FrameInv, OkFails, OpensWhatItWrote,
                      NeverWrongValue, result = "ok", dseed = seed,
                      HeaderFaithful, next > 0
               PROVE  outcome \in {"unopened", "open", "decoding", "value"}
    BY DEF NoErrorAfterOk
  <2>1. outcome \notin {"out_of_bounds", "malformed_label"}
    BY DEF OpensWhatItWrote
  <2>2. outcome \notin {"environment_mismatch", "astray", "bearer_error"}
    BY DEF OkFails
  <2>3. outcome # "invalid_pattern"
    BY DEF NeverWrongValue
  <2> QED
    BY <2>1, <2>2, <2>3 DEF FrameTypeOK
<1>3. FrameSpec => [](FrameInv /\ Source /\ Decoding /\ AtStop)
  BY FrameInvariant, FrameSource, FrameReads, PTL
<1> QED
  BY <1>1, <1>2, <1>3, OkFailsNext, FrameTyping, FramesOpen, ValueIsRight, PTL
  DEF FrameSpec

(* When LZ4 makes no block too long for a header, that is so of every      *)
(* frame encoded with Ok.                                                  *)
THEOREM CompressibleDecodes ==
  ASSUME CodecAgrees, Compressible
  PROVE  FrameSpec =>
           [](result = "ok" /\ dseed = seed /\ next > 0
                => outcome \in {"unopened", "open", "decoding", "value"})
<1>1. Spec => []HeaderFaithful
  BY PipeCaller, HeadersFaithful
<1>2. HeaderFaithful /\ NoErrorAfterOk
        => (result = "ok" /\ dseed = seed /\ next > 0
              => outcome \in {"unopened", "open", "decoding", "value"})
  BY DEF NoErrorAfterOk
<1> QED
  BY <1>1, <1>2, FrameEncodes, OkDecodes, PTL
=============================================================================
