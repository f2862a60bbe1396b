-------------------------- MODULE CursorFileProofs --------------------------
(***************************************************************************)
(* Proofs about CursorFile: what a CursorWriter leaves on a device that    *)
(* fails at any time, and what a CursorReader makes of it, for files,      *)
(* writes and requests of any length.                                      *)
(***************************************************************************)
EXTENDS CursorFile, TLAPS

(* The caller takes a flush that failed for the end of the file.           *)
StopsAfterError == FlushRetries = FALSE

-----------------------------------------------------------------------------
(* The writer: the device, followed by the buffer, has the bytes that were *)
(* written, in order, until a flush fails; from then on nothing is written *)
(* to the device any more.                                                 *)
Delivered ==
  /\ Len(dst) <= count
  /\ \A i \in 1 .. Len(dst) : dst[i] = i
Pending ==
  wphase = "open" =>
    /\ ~error
    /\ Len(dst) + Len(wbuffer) = count
    /\ \A i \in 1 .. Len(wbuffer) : wbuffer[i] = Len(dst) + i
Told ==
  /\ wphase = "failed" => error
  /\ flushed => wphase = "open" /\ (byref \/ wbuffer = << >>)

Writing == W!TypeOK /\ Delivered /\ Pending /\ Told

(* Two sequences, one behind the other.                                    *)
LEMMA Behind ==
  ASSUME NEW s \in Seq(Nat), NEW t \in Seq(Nat)
  PROVE  /\ s \o t \in Seq(Nat)
         /\ Len(s) \in Nat /\ Len(t) \in Nat
         /\ Len(s \o t) = Len(s) + Len(t)
         /\ \A i \in 1 .. Len(s \o t) :
              \/ i \in 1 .. Len(s) /\ (s \o t)[i] = s[i]
              \/ i - Len(s) \in 1 .. Len(t) /\ (s \o t)[i] = t[i - Len(s)]
  OBVIOUS

LEMMA Beginning ==
  ASSUME NEW s \in Seq(Nat), NEW n \in 0 .. Len(s)
  PROVE  /\ SubSeq(s, 1, n) \in Seq(Nat)
         /\ Len(SubSeq(s, 1, n)) = n
         /\ \A i \in 1 .. n : SubSeq(s, 1, n)[i] = s[i]
  OBVIOUS

(* What reaches the device of an open writer, on a flush or drop, good or  *)
(* not, continues what it has.                                             *)
LEMMA WritesOut ==
  ASSUME Writing, wphase = "open", NEW n, W!WriteOut(n), UNCHANGED count
  PROVE  /\ n \in 0 .. Len(wbuffer)
         /\ dst' \in Seq(Nat)
         /\ Len(dst') = Len(dst) + n
         /\ Delivered'
<1> DEFINE piece == SubSeq(wbuffer, 1, n)
<1>1. /\ n \in 0 .. Len(wbuffer) /\ dst' = dst \o piece
      /\ wbuffer \in Seq(Nat) /\ dst \in Seq(Nat) /\ count \in Nat
      /\ Len(dst) + Len(wbuffer) = count
      /\ \A i \in 1 .. Len(wbuffer) : wbuffer[i] = Len(dst) + i
  BY DEF Writing, W!TypeOK, Pending, W!WriteOut
<1>2. /\ piece \in Seq(Nat) /\ Len(piece) = n
      /\ \A i \in 1 .. n : piece[i] = Len(dst) + i
  BY <1>1, Beginning
<1> HIDE DEF piece
<1>3. dst' \in Seq(Nat) /\ Len(dst') = Len(dst) + n
  BY <1>1, <1>2, Behind
<1>4. \A i \in 1 .. Len(dst') :
        \/ i \in 1 .. Len(dst) /\ dst'[i] = dst[i]
        \/ i - Len(dst) \in 1 .. n /\ dst'[i] = piece[i - Len(dst)]
  BY <1>1, <1>2, Behind
<1>5. \A i \in 1 .. Len(dst') : dst'[i] = i
  <2> SUFFICES ASSUME NEW i \in 1 .. Len(dst') PROVE dst'[i] = i
    OBVIOUS
  <2>1. CASE i \in 1 .. Len(dst) /\ dst'[i] = dst[i]
    BY <2>1 DEF Writing, Delivered
  <2>2. CASE i - Len(dst) \in 1 .. n /\ dst'[i] = piece[i - Len(dst)]
    BY <1>1, <1>2, <1>3, <2>2
  <2> QED
    BY <1>4, <2>1, <2>2
<1>6. Len(dst') <= count'
  BY <1>1, <1>3
<1> QED
  BY <1>1, <1>3, <1>5, <1>6 DEF Delivered

LEMMA WritingInit == Init => Writing
<1> SUFFICES ASSUME Init PROVE Writing
  OBVIOUS
<1>1. byref \in BOOLEAN /\ error \in BOOLEAN /\ flushed \in BOOLEAN
  BY CursorAssumption DEF W!WriterAssumption, Init, W!Init
<1>2. W!TypeOK
  BY <1>1 DEF Init, W!Init, W!TypeOK
<1>3. Delivered /\ Pending /\ Told
  BY DEF Init, W!Init, Delivered, Pending, Told
<1> QED
  BY <1>2, <1>3 DEF Writing

LEMMA WritingNext ==
  ASSUME StopsAfterError, Writing, W!Next
  PROVE  Writing'
<1>1. CASE W!DeviceChanges
  BY <1>1 DEF W!DeviceChanges, Writing, W!TypeOK, Delivered, Pending, Told
<1>2. ASSUME NEW k \in Sizes, W!Extend(k) PROVE Writing'
  <2> DEFINE more == [i \in 1 .. k |-> count + i]
  <2>1. /\ k \in Nat /\ count \in Nat /\ wbuffer \in Seq(Nat)
        /\ wphase = "open"
    BY <1>2, CursorAssumption
    DEF W!WriterAssumption, Writing, W!TypeOK, W!Extend, W!CanCall,
        StopsAfterError
  <2>2. more \in Seq(Nat) /\ Len(more) = k
    BY <2>1
  <2>3. wbuffer' = wbuffer \o more /\ count' = count + k /\ flushed' = FALSE
        /\ UNCHANGED <<byref, error, dst, device, wphase>>
    BY <1>2 DEF W!Extend
  <2>4. \A i \in 1 .. k : more[i] = count + i
    OBVIOUS
  <2> HIDE DEF more
  <2>5. /\ wbuffer' \in Seq(Nat) /\ Len(wbuffer') = Len(wbuffer) + k
        /\ \A i \in 1 .. Len(wbuffer') :
             \/ i \in 1 .. Len(wbuffer) /\ wbuffer'[i] = wbuffer[i]
             \/ i - Len(wbuffer) \in 1 .. k
                  /\ wbuffer'[i] = more[i - Len(wbuffer)]
    BY <2>1, <2>2, <2>3, Behind
  <2>6. /\ dst \in Seq(Nat) /\ Len(dst) \in Nat /\ Len(wbuffer) \in Nat
        /\ Len(dst) + Len(wbuffer) = count
    BY <2>1 DEF Writing, W!TypeOK, Pending
  <2>14. \A i \in 1 .. Len(wbuffer) : wbuffer[i] = Len(dst) + i
    BY <2>1 DEF Writing, Pending
  <2>15. k \in Nat /\ count \in Nat
    BY <2>1
  <2>7. \A i \in 1 .. Len(wbuffer') : wbuffer'[i] = Len(dst) + i
    <3> SUFFICES ASSUME NEW i \in 1 .. Len(wbuffer')
                 PROVE  wbuffer'[i] = Len(dst) + i
      OBVIOUS
    <3>1. CASE i \in 1 .. Len(wbuffer) /\ wbuffer'[i] = wbuffer[i]
      BY <2>14, <3>1
    <3>2. CASE /\ i - Len(wbuffer) \in 1 .. k
               /\ wbuffer'[i] = more[i - Len(wbuffer)]
      <4>1. wbuffer'[i] = count + (i - Len(wbuffer))
        BY <2>4, <3>2
      <4>2. i - Len(wbuffer) \in Nat /\ i \in Int
        BY <3>2, <2>6
      <4> QED
        BY <4>1, <4>2, <2>6, <2>15
    <3> QED
      BY <2>5, <3>1, <3>2
  <2>8. Len(dst) + Len(wbuffer') = count'
    <3>1. Len(wbuffer') = Len(wbuffer) + k /\ count' = count + k
      BY <2>3, <2>5
    <3> QED
      BY <3>1, <2>6, <2>15
  <2>9. Len(dst') <= count'
    BY <2>3, <2>6, <2>15
  <2>10. Pending'
    BY <2>1, <2>3, <2>7, <2>8 DEF Writing, Pending
  <2>11. Delivered'
    BY <2>3, <2>9 DEF Writing, Delivered
  <2>12. W!TypeOK'
    <3>1. count' \in Nat
      BY <2>3, <2>15
    <3> QED
      BY <3>1, <2>3, <2>5 DEF Writing, W!TypeOK
  <2>13. Told'
    BY <2>1, <2>3 DEF Told
  <2> QED
    BY <2>10, <2>11, <2>12, <2>13 DEF Writing
<1>3. CASE W!Flush
  <2>1. wphase = "open"
    BY <1>3 DEF W!Flush, W!CanCall, StopsAfterError
  <2>2. CASE W!FlushByRef /\ byref
    BY <2>1, <2>2
    DEF W!FlushByRef, Writing, W!TypeOK, Delivered, Pending, Told
  <2>3. CASE W!FlushOk
    <3>1. W!WriteOut(Len(wbuffer)) /\ UNCHANGED count
      BY <2>3 DEF W!FlushOk
    <3>2. /\ dst' \in Seq(Nat) /\ Delivered'
          /\ Len(dst') = Len(dst) + Len(wbuffer)
      BY <2>1, <3>1, WritesOut
    <3>3. /\ wbuffer' = << >> /\ wphase' = "open" /\ flushed' = TRUE
          /\ UNCHANGED <<byref, error, device, count>>
      BY <2>3 DEF W!FlushOk
    <3>4. Pending'
      BY <2>1, <3>2, <3>3 DEF Writing, W!TypeOK, Pending
    <3> QED
      BY <3>2, <3>3, <3>4 DEF Writing, W!TypeOK, Told
  <2>4. CASE W!FlushFails
    <3>1. PICK n : W!WriteOut(n) /\ UNCHANGED count
      BY <2>4 DEF W!FlushFails
    <3>2. dst' \in Seq(Nat) /\ Delivered'
      BY <2>1, <3>1, WritesOut
    <3>3. /\ error' = TRUE /\ wphase' = "failed" /\ flushed' = FALSE
          /\ UNCHANGED <<byref, wbuffer, device, count>>
      BY <2>4 DEF W!FlushFails
    <3> QED
      BY <3>2, <3>3 DEF Writing, W!TypeOK, Pending, Told
  <2> QED
    BY <1>3, <2>2, <2>3, <2>4 DEF W!Flush
<1>4. CASE W!Drop
  <2>1. /\ wbuffer' = << >> /\ wphase' = "dropped" /\ flushed' = FALSE
        /\ UNCHANGED <<byref, error, device, count>>
    BY <1>4 DEF W!Drop
  <2>2. dst' \in Seq(Nat) /\ Delivered'
    <3>1. CASE UNCHANGED dst
      BY <2>1, <3>1 DEF Writing, W!TypeOK, Delivered
    <3>2. ASSUME NEW n, ~error, W!WriteOut(n)
          PROVE  dst' \in Seq(Nat) /\ Delivered'
      <4>1. wphase = "open"
        BY <1>4, <3>2 DEF Writing, W!TypeOK, Told, W!Drop
      <4> QED
        BY <2>1, <3>2, <4>1, WritesOut
    <3> QED
      BY <1>4, <3>1, <3>2 DEF W!Drop
  <2>3. Pending' /\ Told'
    BY <2>1 DEF Pending, Told
  <2>4. W!TypeOK'
    <3>1. (byref \in BOOLEAN /\ error \in BOOLEAN /\ flushed \in BOOLEAN)'
      BY <2>1 DEF Writing, W!TypeOK
    <3>2. wbuffer' \in Seq(Nat) /\ count' \in Nat
      BY <2>1 DEF Writing, W!TypeOK
    <3> QED
      BY <2>1, <2>2, <3>1, <3>2 DEF Writing, W!TypeOK
  <2> QED
    BY <2>2, <2>3, <2>4 DEF Writing
<1> QED
  BY <1>1, <1>2, <1>3, <1>4 DEF W!Next

LEMMA WritingStep ==
  ASSUME StopsAfterError, Writing, [Next]_vars
  PROVE  Writing'
<1>1. CASE W!Next
  BY <1>1, WritingNext
<1>2. CASE UNCHANGED writerVars
  BY <1>2
  DEF writerVars, Writing, W!TypeOK, Delivered, Pending, Told
<1> QED
  BY <1>1, <1>2 DEF Next, WriteFile, ReadFile, vars

THEOREM WritingAlways == StopsAfterError => (Spec => []Writing)
<1> SUFFICES ASSUME StopsAfterError PROVE Spec => []Writing
  OBVIOUS
<1> QED
  BY WritingInit, WritingStep, PTL DEF Spec

(* Wherever the device fails, in whatever flush, it has the beginning of   *)
(* what was written, and the drop that follows a failed flush does not     *)
(* write a second copy behind it.                                          *)
THEOREM PrefixWrittenAlways == StopsAfterError => (Spec => []PrefixWritten)
<1> SUFFICES ASSUME StopsAfterError PROVE Spec => []PrefixWritten
  OBVIOUS
<1>1. Writing => PrefixWritten
  <2> SUFFICES ASSUME Writing, NEW i \in 1 .. Len(dst)
               PROVE  dst[i] = i /\ i <= count
    BY DEF PrefixWritten, W!PrefixWritten
  <2>1. dst \in Seq(Nat) /\ count \in Nat /\ Len(dst) <= count
    BY DEF Writing, W!TypeOK, Delivered
  <2>2. i <= Len(dst)
    BY <2>1
  <2> QED
    BY <2>1, <2>2 DEF Writing, Delivered
<1> QED
  BY <1>1, WritingAlways, PTL

(* A flush of an owned writer that returned Ok left nothing behind.        *)
THEOREM OwnedFlushReachesAlways ==
  StopsAfterError => (Spec => []OwnedFlushReaches)
<1> SUFFICES ASSUME StopsAfterError PROVE Spec => []OwnedFlushReaches
  OBVIOUS
<1>1. Writing => OwnedFlushReaches
  <2> SUFFICES ASSUME Writing, flushed, ~byref PROVE Len(dst) = count
    BY DEF OwnedFlushReaches, W!OwnedFlushReaches
  <2>1. wphase = "open" /\ wbuffer = << >>
    BY DEF Writing, Told
  <2>2. Len(dst) + Len(wbuffer) = count /\ Len(dst) \in Nat
    BY <2>1 DEF Writing, W!TypeOK, Pending
  <2> QED
    BY <2>1, <2>2
<1> QED
  BY <1>1, WritingAlways, PTL

-----------------------------------------------------------------------------
(* The reader. Behind `start`, the buffer has the bytes of the file that   *)
(* were read and not advanced over, each at its place, and then zeros. As  *)
(* long as no read was short, there are no zeros; `end` falls behind the   *)
(* end of the buffer no later than they appear.                            *)
Fresh ==
  /\ fpos = 0 /\ rbuffer = << >>
  /\ start = 0 /\ end = 0 /\ taken = 0
  /\ result = R!None
Place(i) == taken + i - start
Ahead ==
  /\ \A i \in start + 1 .. Len(rbuffer) :
       rbuffer[i] = IF Place(i) <= fpos THEN Place(i) ELSE 0
  /\ fpos <= Place(Len(rbuffer))
Full ==
  \/ end = Len(rbuffer)
  \/ reader = "file" /\ fpos < Len(dst)
  => fpos = Place(Len(rbuffer))
Borrowed ==
  IF result.kind = "ok"
  THEN /\ result.n <= Len(rbuffer) - start
       /\ Len(result.bytes) = result.n
       /\ \A i \in 1 .. result.n : result.bytes[i] = rbuffer[start + i]
  ELSE Len(result.bytes) = 0

Reading ==
  /\ TypeOK
  /\ wphase # "dropped" => Fresh
  /\ Ahead
  /\ Full
  /\ Borrowed

LEMMA TypesOfWriter ==
  ASSUME W!TypeOK, W!Next
  PROVE  W!TypeOK'
<1>1. ASSUME NEW n, W!WriteOut(n) PROVE dst' \in Seq(Nat)
  BY <1>1, Beginning, Behind DEF W!TypeOK, W!WriteOut
<1>2. ASSUME NEW k \in Sizes, W!Extend(k) PROVE W!TypeOK'
  <2> DEFINE more == [i \in 1 .. k |-> count + i]
  <2>1. k \in Nat /\ count \in Nat /\ wbuffer \in Seq(Nat)
    BY CursorAssumption DEF W!WriterAssumption, W!TypeOK
  <2>2. more \in Seq(Nat) /\ count + k \in Nat
    BY <2>1
  <2> HIDE DEF more
  <2>3. wbuffer \o more \in Seq(Nat)
    BY <2>1, <2>2, Behind
  <2>4. /\ wbuffer' = wbuffer \o more /\ count' = count + k
        /\ flushed' = FALSE /\ UNCHANGED <<byref, error, dst, device, wphase>>
    BY <1>2 DEF W!Extend, more
  <2>5. (byref \in BOOLEAN /\ error \in BOOLEAN /\ flushed \in BOOLEAN)'
    BY <2>4 DEF W!TypeOK
  <2> QED
    BY <2>2, <2>3, <2>4, <2>5 DEF W!TypeOK
<1>3. CASE W!DeviceChanges
  BY <1>3 DEF W!DeviceChanges, W!TypeOK
<1>4. CASE W!FlushByRef
  BY <1>4 DEF W!FlushByRef, W!TypeOK
<1>5. CASE W!FlushOk
  <2>1. dst' \in Seq(Nat)
    BY <1>1, <1>5 DEF W!FlushOk
  <2> QED
    BY <1>5, <2>1 DEF W!FlushOk, W!TypeOK
<1>6. CASE W!FlushFails
  <2>1. dst' \in Seq(Nat)
    BY <1>1, <1>6 DEF W!FlushFails
  <2> QED
    BY <1>6, <2>1 DEF W!FlushFails, W!TypeOK
<1>7. CASE W!Drop
  <2>1. dst' \in Seq(Nat)
    BY <1>1, <1>7 DEF W!Drop, W!TypeOK
  <2>2. /\ wbuffer' = << >> /\ wphase' = "dropped" /\ flushed' = FALSE
        /\ UNCHANGED <<byref, error, device, count>>
    BY <1>7 DEF W!Drop
  <2>3. (byref \in BOOLEAN /\ error \in BOOLEAN /\ flushed \in BOOLEAN)'
    BY <2>2 DEF W!TypeOK
  <2>4. wbuffer' \in Seq(Nat) /\ count' \in Nat /\ device' \in {"good", "bad"}
    BY <2>2 DEF W!TypeOK
  <2> QED
    BY <2>1, <2>2, <2>3, <2>4 DEF W!TypeOK
<1> QED
  BY <1>2, <1>3, <1>4, <1>5, <1>6, <1>7 DEF W!Next, W!Flush

LEMMA FreshReads ==
  ASSUME Fresh, W!TypeOK, reader \in R!ReaderKinds
  PROVE  Reading
<1>1. Len(dst) \in Nat
  BY DEF W!TypeOK
<1>2. R!TypeOK
  BY <1>1 DEF Fresh, R!TypeOK, R!None, R!Answer
<1>3. Ahead /\ Full /\ Borrowed
  BY DEF Fresh, R!None, R!Answer, Ahead, Full, Borrowed, Place
<1> QED
  BY <1>2, <1>3 DEF Reading, TypeOK

LEMMA ReadingInit == Init => Reading
<1> SUFFICES ASSUME Init PROVE Reading
  OBVIOUS
<1>1. W!TypeOK
  BY WritingInit DEF Writing
<1>2. Fresh /\ reader \in R!ReaderKinds
  BY CursorAssumption DEF Init, R!InitReader, Fresh, R!ReaderAssumption
<1> QED
  BY <1>1, <1>2, FreshReads

LEMMA Remainder ==
  ASSUME NEW s \in Seq(Nat), NEW from \in 0 .. Len(s)
  PROVE  /\ SubSeq(s, from + 1, Len(s)) \in Seq(Nat)
         /\ Len(SubSeq(s, from + 1, Len(s))) = Len(s) - from
         /\ \A i \in 1 .. Len(s) - from :
              SubSeq(s, from + 1, Len(s))[i] = s[from + i]
<1>1. Len(s) \in Nat /\ from \in Nat /\ from <= Len(s)
  OBVIOUS
<1>2. SubSeq(s, from + 1, Len(s)) \in Seq(Nat)
  BY <1>1
<1>3. Len(SubSeq(s, from + 1, Len(s))) = Len(s) - from
  BY <1>1
<1>4. ASSUME NEW i \in 1 .. Len(s) - from
      PROVE  SubSeq(s, from + 1, Len(s))[i] = s[from + i]
  <2>1. SubSeq(s, from + 1, Len(s))[i] = s[from + 1 + i - 1]
    BY <1>1
  <2>2. from + 1 + i - 1 = from + i
    BY <1>1
  <2> QED
    BY <2>1, <2>2
<1> QED
  BY <1>2, <1>3, <1>4

(* What one read puts behind the bytes that are kept, and how many.        *)
LEMMA Growing ==
  ASSUME Reading, NEW n \in Nat, NEW extra \in Nat, NEW got,
         ~R!Buffered(n), R!Exhausted,
         got \in R!ReadCounts(R!NewLen(n) + extra - Len(R!Unread))
  PROVE  /\ got \in Nat /\ fpos + got <= Len(dst)
         /\ R!Unread \in Seq(Nat)
         /\ Len(R!Unread) = Len(rbuffer) - start
         /\ Len(R!Unread) < n
         /\ n <= R!NewLen(n) + extra
         /\ R!NewLen(n) \in Nat
         /\ Len(R!Unread) + got <= R!NewLen(n) + extra
         /\ reader = "file" /\ fpos + got < Len(dst)
              => Len(R!Unread) + got = R!NewLen(n) + extra
         /\ \A i \in 1 .. Len(R!Unread) : R!Unread[i] = rbuffer[start + i]
<1>1. /\ rbuffer \in Seq(Nat) /\ start \in 0 .. Len(rbuffer)
      /\ fpos \in Nat /\ Len(dst) \in Nat /\ fpos <= Len(dst)
      /\ end = Len(rbuffer) /\ n > Len(rbuffer) - start
      /\ Threshold \in Nat
  BY CursorAssumption
  DEF Reading, TypeOK, W!TypeOK, R!TypeOK, R!Buffered, R!Exhausted,
      R!ReaderAssumption
<1>2. /\ R!Unread \in Seq(Nat) /\ Len(R!Unread) = Len(rbuffer) - start
      /\ \A i \in 1 .. Len(R!Unread) : R!Unread[i] = rbuffer[start + i]
  <2>1. start + (Len(rbuffer) - start) = Len(rbuffer)
    BY <1>1
  <2>2. R!Unread = SubSeq(rbuffer, start + 1, Len(rbuffer))
    BY <1>1, <2>1 DEF R!Unread, R!Slice
  <2> QED
    BY <1>1, <2>2, Remainder
<1>3. R!NewLen(n) \in Nat /\ n <= R!NewLen(n)
  BY <1>1 DEF R!NewLen
<1> DEFINE room == R!NewLen(n) + extra - Len(R!Unread)
           most == IF room < Len(dst) - fpos THEN room ELSE Len(dst) - fpos
<1>4. room \in Nat /\ Len(R!Unread) < n
  BY <1>1, <1>2, <1>3
<1>5. got \in IF reader = "pipe" /\ most > 0 THEN 1 .. most ELSE {most}
  BY DEF R!ReadCounts
<1>6. got \in Nat /\ got <= most /\ (reader = "file" => got = most)
  <2>1. most \in Nat
    BY <1>1, <1>4
  <2> HIDE DEF most, room
  <2> QED
    BY <1>5, <2>1
<1> HIDE DEF room
<1>7. got <= room /\ got <= Len(dst) - fpos
      /\ (reader = "file" /\ got < Len(dst) - fpos => got = room)
  BY <1>1, <1>4, <1>6
<1> DEFINE kept == Len(R!Unread)
           len == R!NewLen(n)
<1>8. kept \in Nat /\ len \in Nat /\ got \in Nat /\ room = len + extra - kept
  BY <1>2, <1>3, <1>6 DEF room
<1> HIDE DEF kept, len
<1>9. kept + got <= len + extra /\ fpos + got <= Len(dst)
      /\ (reader = "file" /\ fpos + got < Len(dst) => kept + got = len + extra)
  BY <1>1, <1>7, <1>8
<1>10. len <= len + extra /\ (n <= len => n <= len + extra)
  BY <1>8
<1> QED
  BY <1>2, <1>3, <1>4, <1>8, <1>9, <1>10 DEF kept, len

(* The buffer after the read, byte by byte.                                *)
LEMMA Refilled ==
  ASSUME NEW keep \in Seq(Nat), NEW got \in Nat, NEW len \in Nat,
         fpos \in Nat, Len(keep) + got <= len
  PROVE  /\ R!Filled(keep, got, len) \in Seq(Nat)
         /\ Len(R!Filled(keep, got, len)) = len
         /\ \A i \in 1 .. len :
              R!Filled(keep, got, len)[i] =
                IF i <= Len(keep) THEN keep[i]
                ELSE IF i <= Len(keep) + got THEN fpos + i - Len(keep)
                ELSE 0
<1> DEFINE more == [i \in 1 .. got |-> fpos + i]
           rest == R!Zeros(len - Len(keep) - got)
           both == keep \o more
<1>1. Len(keep) \in Nat
  OBVIOUS
<1>2. /\ more \in Seq(Nat) /\ Len(more) = got
      /\ \A i \in 1 .. got : more[i] = fpos + i
  OBVIOUS
<1>3. len - Len(keep) - got \in Nat
  BY <1>1
<1>4. /\ rest \in Seq(Nat) /\ Len(rest) = len - Len(keep) - got
      /\ \A i \in 1 .. Len(rest) : rest[i] = 0
  BY <1>3 DEF R!Zeros, R!Zero
<1> HIDE DEF more, rest
<1>5. /\ both \in Seq(Nat) /\ Len(both) = Len(keep) + got
      /\ \A i \in 1 .. Len(both) :
           \/ i \in 1 .. Len(keep) /\ both[i] = keep[i]
           \/ i - Len(keep) \in 1 .. got /\ both[i] = more[i - Len(keep)]
  BY <1>2, Behind
<1> HIDE DEF both
<1>6. R!Filled(keep, got, len) = both \o rest
  BY DEF R!Filled, both, more, rest
<1>9. Len(both) + Len(rest) = len
  BY <1>1, <1>3, <1>4, <1>5
<1>7. /\ both \o rest \in Seq(Nat)
      /\ Len(both \o rest) = len
      /\ \A i \in 1 .. Len(both \o rest) :
           \/ i \in 1 .. Len(both) /\ (both \o rest)[i] = both[i]
           \/ i - Len(both) \in 1 .. Len(rest)
                /\ (both \o rest)[i] = rest[i - Len(both)]
  BY <1>4, <1>5, <1>9, Behind
<1> DEFINE all == both \o rest
<1>8. ASSUME NEW i \in 1 .. len
      PROVE  all[i] = IF i <= Len(keep) THEN keep[i]
                      ELSE IF i <= Len(keep) + got THEN fpos + i - Len(keep)
                      ELSE 0
  <2>1. \/ i \in 1 .. Len(both) /\ all[i] = both[i]
        \/ i - Len(both) \in 1 .. Len(rest) /\ all[i] = rest[i - Len(both)]
    BY <1>7
  <2> HIDE DEF all
  <2>2. CASE i \in 1 .. Len(both) /\ all[i] = both[i]
    <3>1. \/ i \in 1 .. Len(keep) /\ both[i] = keep[i]
          \/ i - Len(keep) \in 1 .. got /\ both[i] = more[i - Len(keep)]
      BY <1>5, <2>2
    <3>2. CASE i \in 1 .. Len(keep) /\ both[i] = keep[i]
      BY <1>1, <2>2, <3>2
    <3>3. CASE i - Len(keep) \in 1 .. got /\ both[i] = more[i - Len(keep)]
      <4>1. both[i] = fpos + (i - Len(keep))
        BY <1>2, <3>3
      <4> QED
        BY <1>1, <2>2, <3>3, <4>1
    <3> QED
      BY <3>1, <3>2, <3>3
  <2>3. CASE i - Len(both) \in 1 .. Len(rest) /\ all[i] = rest[i - Len(both)]
    <3>1. all[i] = 0
      BY <1>4, <2>3
    <3> QED
      BY <1>1, <1>5, <2>3, <3>1
  <2> QED
    BY <2>1, <2>2, <2>3
<1> QED
  BY <1>6, <1>7, <1>8

(* A request that was answered from the buffer, not at all, or by reading  *)
(* on, and an advance.                                                     *)
LEMMA Buffering ==
  ASSUME Reading, wphase = "dropped", NEW n \in Nat, R!BorrowBuffered(n),
         UNCHANGED writerVars
  PROVE  Reading'
<1>1. /\ rbuffer \in Seq(Nat) /\ start \in Nat /\ n \in Nat
      /\ end \in 0 .. Len(rbuffer) /\ start + n <= end
  BY DEF Reading, TypeOK, R!TypeOK, R!BorrowBuffered, R!Buffered
<1> DEFINE bytes == SubSeq(rbuffer, start + 1, start + n)
<1>2. bytes \in Seq(Nat) /\ Len(bytes) = n
  BY <1>1
<1>3. \A i \in 1 .. n : bytes[i] = rbuffer[start + i]
  <2> SUFFICES ASSUME NEW i \in 1 .. n PROVE bytes[i] = rbuffer[start + i]
    OBVIOUS
  <2>1. bytes[i] = rbuffer[start + 1 + i - 1]
    BY <1>1
  <2>2. start + 1 + i - 1 = start + i
    BY <1>1
  <2> QED
    BY <2>1, <2>2
<1>4. /\ result' = [kind |-> "ok", n |-> n, bytes |-> bytes]
      /\ UNCHANGED <<reader, fpos, rbuffer, start, end, taken>>
  BY DEF R!BorrowBuffered, R!Answer, R!Slice
<1> HIDE DEF bytes
<1>5. TypeOK'
  <2>1. R!TypeOK'
    BY <1>2, <1>4 DEF writerVars, Reading, TypeOK, R!TypeOK
  <2> QED
    BY <2>1 DEF writerVars, Reading, TypeOK, W!TypeOK
<1>6. Ahead' /\ Full'
  BY <1>4 DEF writerVars, Reading, Ahead, Full, Place
<1>7. Borrowed'
  <2>1. /\ result'.kind = "ok" /\ result'.n = n /\ result'.bytes = bytes
        /\ n <= Len(rbuffer) - start
    BY <1>1, <1>4
  <2> QED
    BY <1>2, <1>3, <1>4, <2>1 DEF Borrowed
<1> QED
  BY <1>5, <1>6, <1>7 DEF writerVars, Reading

LEMMA Refusing ==
  ASSUME Reading, wphase = "dropped", NEW n \in Nat,
         R!BorrowOutOfBounds(n) \/ R!BorrowFails(n), UNCHANGED writerVars
  PROVE  Reading'
<1>1. /\ result'.kind \in {"out_of_bounds", "io"}
      /\ result'.n = n /\ result'.bytes = << >>
      /\ UNCHANGED <<reader, fpos, rbuffer, start, end, taken>>
  BY DEF R!BorrowOutOfBounds, R!BorrowFails, R!Answer
<1>2. R!TypeOK'
  BY <1>1 DEF writerVars, Reading, TypeOK, R!TypeOK
<1>3. W!TypeOK'
  BY DEF writerVars, Reading, TypeOK, W!TypeOK
<1>4. Ahead' /\ Full'
  BY <1>1 DEF writerVars, Reading, Ahead, Full, Place
<1>5. Borrowed'
  BY <1>1 DEF Borrowed
<1> QED
  BY <1>2, <1>3, <1>4, <1>5 DEF writerVars, Reading, TypeOK

LEMMA Growth ==
  ASSUME Reading, wphase = "dropped", NEW n \in Nat, R!BorrowGrows(n),
         UNCHANGED writerVars
  PROVE  Reading'
<1>1. PICK extra \in Extra :
        \E got \in R!ReadCounts(R!NewLen(n) + extra - Len(R!Unread)) :
          /\ rbuffer' = R!Filled(R!Unread, got, R!NewLen(n) + extra)
          /\ end' = got
          /\ fpos' = fpos + got
  BY DEF R!BorrowGrows
<1>2. PICK got \in R!ReadCounts(R!NewLen(n) + extra - Len(R!Unread)) :
        /\ rbuffer' = R!Filled(R!Unread, got, R!NewLen(n) + extra)
        /\ end' = got
        /\ fpos' = fpos + got
  BY <1>1
<1> DEFINE keep == R!Unread
           len == R!NewLen(n) + extra
<1>3. extra \in Nat
  BY CursorAssumption DEF R!ReaderAssumption
<1>4. ~R!Buffered(n) /\ R!Exhausted
  BY DEF R!BorrowGrows
<1>5. /\ got \in Nat /\ fpos + got <= Len(dst)
      /\ keep \in Seq(Nat) /\ Len(keep) = Len(rbuffer) - start
      /\ Len(keep) < n /\ n <= len /\ len \in Nat
      /\ Len(keep) + got <= len
      /\ reader = "file" /\ fpos + got < Len(dst) => Len(keep) + got = len
      /\ \A i \in 1 .. Len(keep) : keep[i] = rbuffer[start + i]
  <2>1. R!NewLen(n) \in Nat
    BY <1>2, <1>3, <1>4, Growing
  <2> QED
    BY <1>2, <1>3, <1>4, <2>1, Growing
<1>6. /\ start' = 0 /\ UNCHANGED <<reader, taken>>
      /\ result' = [kind |-> "ok", n |-> n, bytes |-> SubSeq(rbuffer', 1, n)]
  <2>1. 0 + 1 = 1 /\ 0 + n = n
    OBVIOUS
  <2> QED
    BY <2>1 DEF R!BorrowGrows, R!Answer, R!Slice
<1>7. rbuffer' = R!Filled(keep, got, len) /\ end' = got /\ fpos' = fpos + got
  BY <1>2
<1> HIDE DEF keep, len
<1>8. /\ fpos \in Nat /\ taken \in Nat /\ Len(keep) \in Nat
      /\ start \in Nat /\ Len(rbuffer) \in Nat /\ Len(dst) \in Nat
  BY <1>5 DEF Reading, TypeOK, W!TypeOK, R!TypeOK
<1>9. /\ rbuffer' \in Seq(Nat) /\ Len(rbuffer') = len
      /\ \A i \in 1 .. len :
           rbuffer'[i] = IF i <= Len(keep) THEN keep[i]
                         ELSE IF i <= Len(keep) + got THEN fpos + i - Len(keep)
                         ELSE 0
  <2>1. /\ keep \in Seq(Nat) /\ got \in Nat /\ len \in Nat /\ fpos \in Nat
        /\ Len(keep) + got <= len
    BY <1>5, <1>8
  <2>2. /\ R!Filled(keep, got, len) \in Seq(Nat)
        /\ Len(R!Filled(keep, got, len)) = len
        /\ \A i \in 1 .. len :
             R!Filled(keep, got, len)[i] =
               IF i <= Len(keep) THEN keep[i]
               ELSE IF i <= Len(keep) + got THEN fpos + i - Len(keep)
               ELSE 0
    BY <2>1, Refilled
  <2> QED
    BY <1>7, <2>2
<1>9a. /\ got \in Nat /\ len \in Nat /\ Len(keep) + got <= len
       /\ reader = "file" /\ fpos + got < Len(dst) => Len(keep) + got = len
  BY <1>5
<1>10. fpos = taken + Len(keep)
  BY <1>4, <1>5, <1>8 DEF Reading, Full, Place, R!Exhausted
<1>11. \A i \in 1 .. Len(keep) : keep[i] = taken + i
  <2> SUFFICES ASSUME NEW i \in 1 .. Len(keep) PROVE keep[i] = taken + i
    OBVIOUS
  <2>1. start + i \in start + 1 .. Len(rbuffer)
    BY <1>5, <1>8
  <2>2. Place(start + i) = taken + i /\ taken + i <= fpos
    BY <1>8, <1>10 DEF Place
  <2> QED
    BY <1>5, <2>1, <2>2 DEF Reading, Ahead
<1>12. \A i \in 1 .. len :
         rbuffer'[i] = IF taken + i <= fpos' THEN taken + i ELSE 0
  <2> SUFFICES ASSUME NEW i \in 1 .. len
               PROVE  rbuffer'[i] = IF taken + i <= fpos' THEN taken + i ELSE 0
    OBVIOUS
  <2>1. CASE i <= Len(keep)
    <3>1. rbuffer'[i] = taken + i
      <4>1. i \in 1 .. Len(keep) /\ rbuffer'[i] = keep[i]
        BY <1>8, <1>9, <2>1
      <4> QED
        BY <1>11, <4>1
    <3>2. taken + i <= fpos'
      BY <1>7, <1>8, <1>10, <1>9a, <2>1
    <3> QED
      BY <3>1, <3>2
  <2>2. CASE i > Len(keep) /\ i <= Len(keep) + got
    <3>1. rbuffer'[i] = fpos + i - Len(keep)
      BY <1>8, <1>9, <2>2
    <3>2. fpos + i - Len(keep) = taken + i /\ taken + i <= fpos'
      BY <1>7, <1>8, <1>10, <1>9a, <2>2
    <3> QED
      BY <3>1, <3>2
  <2>3. CASE i > Len(keep) + got
    <3>1. rbuffer'[i] = 0
      <4>1. ~(i <= Len(keep)) /\ ~(i <= Len(keep) + got)
        BY <1>8, <1>9a, <2>3
      <4> QED
        BY <1>9, <4>1
    <3>2. ~(taken + i <= fpos')
      BY <1>7, <1>8, <1>10, <1>9a, <2>3
    <3> QED
      BY <3>1, <3>2
  <2> QED
    BY <1>8, <1>9a, <2>1, <2>2, <2>3
<1>13. /\ Len(SubSeq(rbuffer', 1, n)) = n
       /\ SubSeq(rbuffer', 1, n) \in Seq(Nat)
       /\ \A i \in 1 .. n : SubSeq(rbuffer', 1, n)[i] = rbuffer'[i]
  <2>1. n \in 0 .. Len(rbuffer')
    BY <1>5, <1>9
  <2> QED
    BY <1>9, <2>1, Beginning
<1>14. R!TypeOK'
  <2>1. (fpos \in 0 .. Len(dst) /\ end \in 0 .. Len(rbuffer))'
    BY <1>5, <1>7, <1>8, <1>9 DEF writerVars
  <2>2. (start \in 0 .. Len(rbuffer))'
    BY <1>5, <1>6, <1>9
  <2>3. (Len(dst) \in Nat /\ reader \in R!ReaderKinds /\ taken \in Nat)'
    BY <1>6, <1>8 DEF writerVars, Reading, TypeOK, R!TypeOK
  <2>4. result'.kind = "ok" /\ result'.n \in Nat /\ result'.bytes \in Seq(Nat)
    BY <1>6, <1>13
  <2> QED
    BY <1>9, <2>1, <2>2, <2>3, <2>4 DEF R!TypeOK
<1>15. W!TypeOK'
  BY DEF writerVars, Reading, TypeOK, W!TypeOK
<1>16. Ahead'
  <2>1. \A i \in start' + 1 .. Len(rbuffer') : i \in 1 .. len
                                             /\ Place(i)' = taken + i
    BY <1>5, <1>6, <1>8, <1>9 DEF Place
  <2>2. fpos' <= Place(Len(rbuffer))'
    BY <1>5, <1>6, <1>7, <1>8, <1>9, <1>10 DEF Place
  <2>3. \A i \in start' + 1 .. Len(rbuffer') :
          rbuffer'[i] = IF Place(i)' <= fpos' THEN Place(i)' ELSE 0
    <3> SUFFICES ASSUME NEW i \in start' + 1 .. Len(rbuffer')
                 PROVE  rbuffer'[i] =
                          IF Place(i)' <= fpos' THEN Place(i)' ELSE 0
      OBVIOUS
    <3>1. i \in 1 .. len /\ Place(i)' = taken + i
      BY <2>1
    <3> QED
      BY <1>12, <3>1
  <2> QED
    BY <2>2, <2>3 DEF Ahead
<1>17. Full'
  <2>1. Place(Len(rbuffer))' = taken + len
    BY <1>5, <1>6, <1>8, <1>9 DEF Place
  <2>2. end' = Len(rbuffer') => fpos' = taken + len
    <3>1. end' = len => Len(keep) <= 0 /\ fpos' = fpos + len
      BY <1>7, <1>8, <1>9a
    <3> QED
      BY <1>8, <1>9, <1>10, <1>9a, <3>1
  <2>3. reader' = "file" /\ fpos' < Len(dst') => fpos' = taken + len
    <3>1. reader' = reader /\ dst' = dst
      BY <1>6 DEF writerVars
    <3>2. reader = "file" /\ fpos + got < Len(dst)
            => fpos + got = taken + len
      BY <1>8, <1>10, <1>9a
    <3> QED
      BY <1>7, <3>1, <3>2
  <2> QED
    BY <2>1, <2>2, <2>3 DEF Full
<1>18. Borrowed'
  <2>1. /\ result'.kind = "ok" /\ result'.n = n
        /\ result'.bytes = SubSeq(rbuffer', 1, n)
    BY <1>6
  <2>2. n <= Len(rbuffer') - start'
    BY <1>5, <1>6, <1>9
  <2>3. \A i \in 1 .. n : start' + i = i
    BY <1>6
  <2> QED
    BY <1>13, <2>1, <2>2, <2>3 DEF Borrowed
<1> QED
  BY <1>14, <1>15, <1>16, <1>17, <1>18 DEF writerVars, Reading, TypeOK

LEMMA Advancing ==
  ASSUME Reading, wphase = "dropped", NEW n \in Nat, R!advance(n),
         UNCHANGED writerVars
  PROVE  Reading'
<1>1. /\ result.kind = "ok" /\ n <= result.n /\ result.n \in Nat
      /\ result.n <= Len(rbuffer) - start
      /\ rbuffer \in Seq(Nat) /\ Len(rbuffer) \in Nat /\ fpos \in Nat
      /\ start \in Nat /\ taken \in Nat
  <2>1. result.kind = "ok" /\ n <= result.n
    BY DEF R!advance
  <2>2. /\ result.n \in Nat /\ rbuffer \in Seq(Nat) /\ Len(rbuffer) \in Nat
        /\ fpos \in Nat /\ start \in Nat /\ taken \in Nat
    BY DEF Reading, TypeOK, W!TypeOK, R!TypeOK
  <2> QED
    BY <2>1, <2>2 DEF Reading, Borrowed
<1>2. /\ start' = start + n /\ taken' = taken + n
      /\ result' = [kind |-> "none", n |-> 0, bytes |-> << >>]
      /\ UNCHANGED <<reader, fpos, rbuffer, end>>
  BY DEF R!advance, R!None, R!Answer
<1>3. R!TypeOK'
  <2>1. start' \in 0 .. Len(rbuffer') /\ taken' \in Nat
    BY <1>1, <1>2
  <2>2. result'.kind = "none" /\ result'.n \in Nat /\ result'.bytes \in Seq(Nat)
    BY <1>2
  <2> QED
    BY <1>2, <2>1, <2>2 DEF writerVars, Reading, TypeOK, R!TypeOK
<1>4. W!TypeOK'
  BY DEF writerVars, Reading, TypeOK, W!TypeOK
<1>5. \A i \in Int : Place(i)' = Place(i)
  BY <1>1, <1>2 DEF Place
<1>6. Len(rbuffer) \in Int
  BY <1>1
<1>7. Ahead'
  <2>1. \A i \in start' + 1 .. Len(rbuffer') :
          i \in start + 1 .. Len(rbuffer) /\ i \in Int
    BY <1>1, <1>2
  <2> QED
    BY <1>2, <1>5, <1>6, <2>1 DEF Reading, Ahead
<1>8. Full'
  BY <1>2, <1>5, <1>6 DEF writerVars, Reading, Full
<1>9. Borrowed'
  BY <1>2 DEF Borrowed
<1> QED
  BY <1>3, <1>4, <1>7, <1>8, <1>9 DEF writerVars, Reading, TypeOK

LEMMA ReadingNext ==
  ASSUME Reading, [Next]_vars
  PROVE  Reading'
<1>1. CASE WriteFile
  <2>1. W!Next /\ UNCHANGED readerVars /\ W!TypeOK
    BY <1>1 DEF WriteFile, Reading, TypeOK
  <2>2. wphase # "dropped"
    BY <2>1
    DEF W!Next, W!DeviceChanges, W!Extend, W!Flush, W!Drop, W!CanCall
  <2>3. Fresh' /\ W!TypeOK' /\ (reader \in R!ReaderKinds)'
    <3>1. W!TypeOK'
      BY <2>1, TypesOfWriter
    <3>2. Fresh' /\ (reader \in R!ReaderKinds)'
      BY <2>1, <2>2
      DEF readerVars, Reading, TypeOK, R!TypeOK, Fresh, R!None
    <3> QED
      BY <3>1, <3>2
  <2> HIDE DEF Fresh
  <2>4. (Fresh /\ W!TypeOK /\ reader \in R!ReaderKinds => Reading)'
    BY FreshReads, PTL
  <2> QED
    BY <2>3, <2>4
<1>2. CASE ReadFile
  <2>1. PICK n \in Requests : R!read_borrow(n) \/ R!advance(n)
    BY <1>2 DEF ReadFile, R!Next
  <2>2. n \in Nat /\ wphase = "dropped" /\ UNCHANGED writerVars
    BY <1>2, CursorAssumption DEF ReadFile, R!ReaderAssumption
  <2> QED
    BY <2>1, <2>2, Buffering, Refusing, Growth, Advancing DEF R!read_borrow
<1>3. CASE UNCHANGED vars
  <2>1. UNCHANGED writerVars /\ UNCHANGED readerVars
    BY <1>3 DEF vars
  <2>2. TypeOK'
    BY <2>1 DEF writerVars, readerVars, Reading, TypeOK, W!TypeOK, R!TypeOK
  <2>3. (wphase # "dropped" => Fresh)' /\ Ahead' /\ Full' /\ Borrowed'
    BY <2>1
    DEF writerVars, readerVars, Reading, Fresh, R!None, Ahead, Full, Borrowed,
        Place
  <2> QED
    BY <2>2, <2>3 DEF Reading
<1> QED
  BY <1>1, <1>2, <1>3 DEF Next

THEOREM ReadingAlways == Spec => []Reading
  BY ReadingInit, ReadingNext, PTL DEF Spec

(* Both cursors keep their types: `start` and `end` stay inside the        *)
(* buffer, and no more is read than the file has.                          *)
THEOREM CursorTyping == Spec => []TypeOK
<1>1. Reading => TypeOK
  BY DEF Reading
<1> QED
  BY <1>1, ReadingAlways, PTL

(* What a request returned, whatever its length.                           *)
LEMMA Returned ==
  ASSUME Reading, result.kind = "ok", NEW i \in 1 .. result.n
  PROVE  /\ result.bytes[i] = IF taken + i <= fpos THEN taken + i ELSE 0
         /\ taken + i <= Place(Len(rbuffer))
<1>1. /\ result.n \in Nat /\ result.n <= Len(rbuffer) - start
      /\ result.bytes[i] = rbuffer[start + i]
      /\ start \in Nat /\ taken \in Nat /\ fpos \in Nat /\ Len(rbuffer) \in Nat
  <2>1. /\ result.n \in Nat /\ start \in Nat /\ taken \in Nat /\ fpos \in Nat
        /\ Len(rbuffer) \in Nat
    BY DEF Reading, TypeOK, W!TypeOK, R!TypeOK
  <2>2. result.n <= Len(rbuffer) - start /\ result.bytes[i] = rbuffer[start + i]
    BY DEF Reading, Borrowed
  <2> QED
    BY <2>1, <2>2
<1>2. start + i \in start + 1 .. Len(rbuffer)
      /\ Place(start + i) = taken + i
      /\ taken + i <= Place(Len(rbuffer))
  BY <1>1 DEF Place
<1> QED
  BY <1>1, <1>2 DEF Reading, Ahead

(* As long as io::Read fills the slices it is given, a request that is     *)
(* answered returns exactly the next bytes of the file.                    *)
THEOREM ExactWhileFilledAlways == Spec => []ExactWhileFilled
<1>1. Reading => ExactWhileFilled
  <2> SUFFICES ASSUME Reading, reader = "file", fpos < Len(dst),
                      result.kind = "ok"
               PROVE  result.bytes = [i \in 1 .. result.n |-> taken + i]
    BY DEF ExactWhileFilled, R!ExactWhileFilled
  <2>1. /\ result.bytes \in Seq(Nat) /\ Len(result.bytes) = result.n
        /\ fpos = Place(Len(rbuffer))
    BY DEF Reading, TypeOK, R!TypeOK, Borrowed, Full
  <2>2. \A i \in 1 .. result.n : result.bytes[i] = taken + i
    BY <2>1, Returned
  <2> QED
    BY <2>1, <2>2
<1> QED
  BY <1>1, ReadingAlways, PTL

(* Whatever io::Read does, no byte of the file is returned, or kept, at    *)
(* another place than its own.                                             *)
THEOREM PlacedRightAlways == Spec => []PlacedRight
<1>1. Reading => PlacedRight
  <2> SUFFICES ASSUME Reading PROVE PlacedRight
    OBVIOUS
  <2>1. ASSUME NEW i \in 1 .. Len(result.bytes), result.bytes[i] # 0
        PROVE  result.bytes[i] = taken + i
    <3>1. result.kind = "ok" /\ Len(result.bytes) = result.n
      BY <2>1 DEF Reading, Borrowed
    <3> QED
      BY <2>1, <3>1, Returned
  <2>2. ASSUME NEW i \in start + 1 .. Len(rbuffer), rbuffer[i] # 0
        PROVE  rbuffer[i] = taken + i - start
    BY <2>2 DEF Reading, Ahead, Place
  <2> QED
    BY <2>1, <2>2 DEF PlacedRight, R!PlacedRight, R!Zero
<1> QED
  BY <1>1, ReadingAlways, PTL

(* A byte that was read ahead is not lost when the buffer grows.           *)
THEOREM NothingDroppedAlways == Spec => []NothingDropped
<1>1. Reading => NothingDropped
  <2> SUFFICES ASSUME Reading, NEW p \in taken + 1 .. fpos
               PROVE  \E i \in start + 1 .. Len(rbuffer) : rbuffer[i] = p
    BY DEF NothingDropped, R!NothingDropped
  <2>1. /\ taken \in Nat /\ fpos \in Nat /\ start \in Nat /\ Len(rbuffer) \in Nat
        /\ fpos <= taken + Len(rbuffer) - start
    BY DEF Reading, TypeOK, R!TypeOK, Ahead, Place
  <2> DEFINE i == p - taken + start
  <2>2. i \in start + 1 .. Len(rbuffer) /\ Place(i) = p /\ p <= fpos
    BY <2>1 DEF Place
  <2>3. rbuffer[i] = p
    BY <2>2 DEF Reading, Ahead
  <2> QED
    BY <2>2, <2>3
<1> QED
  BY <1>1, ReadingAlways, PTL

(* A file reads back as it was written, wherever the writer stopped.       *)
THEOREM ReadBackAlways == StopsAfterError => (Spec => []ReadBack)
<1> SUFFICES ASSUME StopsAfterError PROVE Spec => []ReadBack
  OBVIOUS
<1>1. Reading /\ Writing => ReadBack
  <2> SUFFICES ASSUME Reading, Writing, reader = "file", result.kind = "ok",
                      NEW i \in 1 .. result.n, taken + i <= Len(dst)
               PROVE  result.bytes[i] = dst[taken + i]
    BY DEF ReadBack
  <2>1. /\ result.n \in Nat /\ taken \in Nat /\ Len(dst) \in Nat
        /\ fpos \in 0 .. Len(dst)
    BY DEF Reading, TypeOK, R!TypeOK
  <2>2. dst[taken + i] = taken + i
    <3>1. taken + i \in 1 .. Len(dst)
      BY <2>1
    <3> QED
      BY <3>1 DEF Writing, Delivered
  <2>3. taken + i <= fpos
    <3>1. CASE fpos < Len(dst)
      <4>1. fpos = Place(Len(rbuffer))
        BY <3>1 DEF Reading, Full
      <4> QED
        BY <4>1, Returned
    <3>2. CASE fpos = Len(dst)
      BY <3>2
    <3> QED
      BY <2>1, <3>1, <3>2
  <2> QED
    BY <2>2, <2>3, Returned
<1> QED
  BY <1>1, ReadingAlways, WritingAlways, PTL
=============================================================================
