-------------------------- MODULE FrameSyncProofs --------------------------
(***************************************************************************)
(* Proofs about FrameSync for every stream, chunking, length limit and     *)
(* checksum function: which blocks are delivered, that this is what        *)
(* SbfStream promises, how often a candidate is rejected, and how long     *)
(* buf_ gets.                                                              *)
(***************************************************************************)
EXTENDS FrameSync, SequenceTheorems, TLAPS

-----------------------------------------------------------------------------
(* The wire layout.                                                        *)

\* A 16-bit field read inside a byte sequence is a number.
LEMMA U16Type ==
  ASSUME NEW s \in Seq(Byte), NEW off \in Nat, off + 2 <= Len(s)
  PROVE  U16(s, off) \in Nat
<1>1. Len(s) \in Nat
  BY LenProperties
<1>2. s[off + 1] \in Byte /\ s[off + 2] \in Byte
  BY <1>1, ElementOfSeq
<1>3. \A a, b \in Byte : a + 256 * b \in Nat
  BY DEF Byte
<1> QED BY <1>2, <1>3 DEF U16

\* A position ruled out by some bytes stays ruled out when more arrive.
LEMMA RuledOutMonotone ==
  ASSUME NEW s \in Seq(Byte), NEW p \in Nat, NEW n \in Nat, NEW m \in Nat,
         n <= m, m <= Len(s), RuledOut(s, p, n)
  PROVE  RuledOut(s, p, m)
<1>1. Len(s) \in Nat
  BY LenProperties
<1>2. p + HeaderSize <= n => LengthAt(s, p) \in Nat
  <2> SUFFICES ASSUME p + HeaderSize <= n PROVE U16(s, p + 6) \in Nat
    BY DEF LengthAt
  <2>1. p + 6 \in Nat /\ (p + 6) + 2 <= Len(s)
    BY <1>1 DEF HeaderSize
  <2> QED BY <2>1, U16Type
<1> QED BY <1>2 DEF RuledOut, HeaderSize

\* A valid block and a position that is ruled out exclude each other.
LEMMA BlockNotRuledOut ==
  ASSUME NEW s, NEW p \in Nat, NEW n \in Nat, BlockAt(s, p, n)
  PROVE  ~RuledOut(s, p, n)
BY DEF BlockAt, RuledOut

-----------------------------------------------------------------------------
(* buf_ as a window on the stream.                                         *)

\* What deque::erase leaves of buf_.
LEMMA EraseFrontProperties ==
  ASSUME TypeOK, NEW n \in 0..Len(buf)
  PROVE  /\ EraseFront(n) \in Seq(Byte)
         /\ Len(EraseFront(n)) = Len(buf) - n
         /\ \A i \in 1..(Len(buf) - n) : EraseFront(n)[i] = buf[i + n]
<1>1. buf \in Seq(Byte) /\ Len(buf) \in Nat
  BY LenProperties DEF TypeOK
<1>2. \A i \in (n + 1)..Len(buf) : buf[i] \in Byte
  BY <1>1, ElementOfSeq
<1>3. /\ SubSeq(buf, n + 1, Len(buf)) \in Seq(Byte)
      /\ Len(SubSeq(buf, n + 1, Len(buf))) =
           IF n + 1 <= Len(buf) THEN Len(buf) - (n + 1) + 1 ELSE 0
      /\ \A i \in 1..(Len(buf) - (n + 1) + 1) :
           SubSeq(buf, n + 1, Len(buf))[i] = buf[(n + 1) + i - 1]
  BY <1>1, <1>2, SubSeqProperties
<1> QED BY <1>1, <1>3 DEF EraseFront

\* A stretch of buf_ is the corresponding stretch of the stream.
LEMMA WindowSubSeq ==
  ASSUME TypeOK, Window, NEW lo \in Nat \ {0}, NEW hi \in 0..Len(buf)
  PROVE  SubSeq(buf, lo, hi) = SubSeq(stream, Base + lo, Base + hi)
<1>1. /\ buf \in Seq(Byte) /\ Len(buf) \in Nat
      /\ stream \in Seq(Byte) /\ Len(stream) \in Nat
      /\ fed \in Nat /\ fed <= Len(stream) /\ Base \in Nat
  BY LenProperties, StreamsAssumption DEF TypeOK, Window, Base
<1>2. \A i \in lo..hi : buf[i] \in Byte
  BY <1>1, ElementOfSeq
<1>3. \A i \in (Base + lo)..(Base + hi) : stream[i] \in Byte
  <2> SUFFICES ASSUME NEW i \in (Base + lo)..(Base + hi)
               PROVE  stream[i] \in Byte
    OBVIOUS
  <2>1. i \in 1..Len(stream)
    BY <1>1 DEF Base
  <2> QED BY <2>1, <1>1, ElementOfSeq
<1> DEFINE A == SubSeq(buf, lo, hi)
           B == SubSeq(stream, Base + lo, Base + hi)
<1>4. /\ A \in Seq(Byte)
      /\ Len(A) = IF lo <= hi THEN hi - lo + 1 ELSE 0
      /\ \A i \in 1..(hi - lo + 1) : A[i] = buf[lo + i - 1]
  BY <1>1, <1>2, SubSeqProperties
<1>5. /\ B \in Seq(Byte)
      /\ Len(B) = IF Base + lo <= Base + hi THEN (Base + hi) - (Base + lo) + 1 ELSE 0
      /\ \A i \in 1..((Base + hi) - (Base + lo) + 1) : B[i] = stream[(Base + lo) + i - 1]
  BY <1>1, <1>3, SubSeqProperties
<1> HIDE DEF A, B
<1>6. Len(A) = Len(B)
  BY <1>1, <1>4, <1>5
<1>7. \A i \in 1..Len(A) : A[i] = B[i]
  <2> SUFFICES ASSUME NEW i \in 1..Len(A) PROVE A[i] = B[i]
    OBVIOUS
  <2>1. i \in 1..(hi - lo + 1) /\ (Base + hi) - (Base + lo) + 1 = hi - lo + 1
    BY <1>1, <1>4
  <2>2. A[i] = buf[lo + i - 1] /\ B[i] = stream[(Base + lo) + i - 1]
    BY <2>1, <1>4, <1>5
  <2>3. lo + i - 1 \in 1..Len(buf)
    BY <2>1, <1>1
  <2>4. buf[lo + i - 1] = stream[Base + (lo + i - 1)]
    BY <2>3 DEF Window
  <2>5. Base + (lo + i - 1) = (Base + lo) + i - 1
    BY <1>1, <2>1
  <2> QED BY <2>2, <2>4, <2>5
<1> QED BY <1>4, <1>5, <1>6, <1>7, SeqEqual DEF A, B

\* Header fields, CRC verdict and block contents read from buf_ are those of
\* the stream.
LEMMA WindowWire ==
  ASSUME TypeOK, Window, NEW fs \in Nat, fs + HeaderSize <= Len(buf)
  PROVE  /\ LengthAt(buf, fs) \in Nat
         /\ LengthAt(buf, fs) = LengthAt(stream, Base + fs)
         /\ fs + LengthAt(buf, fs) <= Len(buf) =>
              /\ CrcOk(buf, fs) <=> CrcOk(stream, Base + fs)
              /\ FrameFields(buf, fs) = FrameFields(stream, Base + fs)
<1>1. /\ buf \in Seq(Byte) /\ Len(buf) \in Nat
      /\ fed \in Nat /\ Base \in Nat
  BY LenProperties DEF TypeOK, Window, Base
<1>2. LengthAt(buf, fs) \in Nat
  BY <1>1, U16Type DEF LengthAt, HeaderSize
<1>3. ASSUME NEW k \in {2, 4, 6}
      PROVE  U16(buf, fs + k) = U16(stream, Base + fs + k)
  <2>1. fs + k + 1 \in 1..Len(buf) /\ fs + k + 2 \in 1..Len(buf)
    BY <1>1 DEF HeaderSize
  <2>2. /\ buf[fs + k + 1] = stream[Base + (fs + k + 1)]
        /\ buf[fs + k + 2] = stream[Base + (fs + k + 2)]
    BY <2>1 DEF Window
  <2>3. /\ Base + (fs + k + 1) = Base + fs + k + 1
        /\ Base + (fs + k + 2) = Base + fs + k + 2
    BY <1>1
  <2> QED BY <2>2, <2>3 DEF U16
<1>4. LengthAt(buf, fs) = LengthAt(stream, Base + fs)
  BY <1>3 DEF LengthAt
<1>5. ASSUME fs + LengthAt(buf, fs) <= Len(buf)
      PROVE  /\ CrcOk(buf, fs) <=> CrcOk(stream, Base + fs)
             /\ FrameFields(buf, fs) = FrameFields(stream, Base + fs)
  <2> DEFINE len == LengthAt(buf, fs)
  <2>1. fs + len \in 0..Len(buf) /\ fs + 5 \in Nat \ {0} /\ fs + HeaderSize + 1 \in Nat \ {0}
    BY <1>1, <1>2, <1>5 DEF HeaderSize
  <2> HIDE DEF len
  <2>2. SubSeq(buf, fs + 5, fs + len) = SubSeq(stream, Base + (fs + 5), Base + (fs + len))
    BY <2>1, WindowSubSeq
  <2>3. SubSeq(buf, fs + HeaderSize + 1, fs + len)
          = SubSeq(stream, Base + (fs + HeaderSize + 1), Base + (fs + len))
    BY <2>1, WindowSubSeq
  <2>4. /\ Base + (fs + 5) = Base + fs + 5
        /\ Base + (fs + len) = Base + fs + len
        /\ Base + (fs + HeaderSize + 1) = Base + fs + HeaderSize + 1
    BY <1>1, <1>2 DEF len, HeaderSize
  <2>5. CrcOk(buf, fs) <=> CrcOk(stream, Base + fs)
    BY <2>2, <2>4, <1>3, <1>4 DEF CrcOk, len
  <2>6. FrameFields(buf, fs) = FrameFields(stream, Base + fs)
    BY <2>3, <2>4, <1>3, <1>4 DEF FrameFields, len
  <2> QED BY <2>5, <2>6
<1> QED BY <1>2, <1>4, <1>5

-----------------------------------------------------------------------------
(* The invariant holds initially and is kept by every action.              *)

\* The arithmetic facts every step starts from.
LEMMA Basics ==
  ASSUME IInv
  PROVE  /\ buf \in Seq(Byte) /\ Len(buf) \in Nat
         /\ stream \in Seq(Byte) /\ Len(stream) \in Nat
         /\ fed \in Nat /\ fed <= Len(stream)
         /\ Base \in Nat /\ Base + Len(buf) = fed
         /\ pos \in Nat /\ pos <= Len(buf)
         /\ frame_start \in Nat /\ frame_start <= Len(buf)
         /\ frame_drain \in Nat /\ origin \in Nat
         /\ ScanPoint \in Nat /\ ScanPoint <= fed
<1>1. /\ buf \in Seq(Byte) /\ Len(buf) \in Nat
      /\ stream \in Seq(Byte) /\ Len(stream) \in Nat
  BY LenProperties, StreamsAssumption DEF IInv, TypeOK
<1> QED BY <1>1, SMTT(20) DEF IInv, TypeOK, Window, Base, ScanPoint

\* A fresh synchronizer (empty buf_, Idle) satisfies the invariant.
THEOREM InitIInv == Init => IInv
<1> SUFFICES ASSUME Init PROVE IInv
  OBVIOUS
<1>1. stream \in Seq(Byte) /\ Len(stream) \in Nat
  BY LenProperties, StreamsAssumption DEF Init
<1>2. buf = <<>> /\ Len(buf) = 0 /\ buf \in Seq(Byte)
  BY EmptySeq DEF Init
<1>3. TypeOK
  <2>1. out \in Seq([at: Nat,
                  frame: [crc: Nat, raw_id: Nat, length: Nat, body: Seq(Byte)]])
    BY EmptySeq DEF Init
  <2>2. stats \in StatsType
    BY DEF Init, StatsType
  <2>3. fails \in [0..(Len(stream) - 1) -> Nat]
    BY DEF Init
  <2> QED BY <1>1, <1>2, <2>1, <2>2, <2>3 DEF Init, TypeOK, State
<1>4. Base = 0 /\ ScanPoint = 0
  <2>1. fed = 0 /\ state = "Idle" /\ pc = "ready"
    BY DEF Init
  <2>2. Len(buf) = 0
    BY <1>2
  <2> QED BY <2>1, <2>2 DEF Base, ScanPoint
<1>5. Window
  BY <1>2, <1>4 DEF Init, Window
<1>6. Decided /\ DrainEnds /\ CandidateSeen /\ Parked
  BY <1>2, <1>4 DEF Init, Decided, DrainEnds, CandidateSeen, Parked
<1> QED BY <1>3, <1>5, <1>6 DEF IInv

\* Entering feed().
LEMMA FeedIInv ==
  ASSUME IInv, NEW n \in Nat, Feed(n)
  PROVE  IInv'
<1>1. n \in Nat
  OBVIOUS
<1>a. /\ pc = "ready" /\ fed + n <= Len(stream)
      /\ buf' = EraseFront(frame_drain) \o SubSeq(stream, fed + 1, fed + n)
      /\ fed' = fed + n /\ frame_drain' = 0
      /\ pc' = "scan" /\ pos' = 0 /\ frame_start' = 0
      /\ stream' = stream /\ state' = state /\ out' = out /\ origin' = origin
      /\ fails' = fails
  BY DEF Feed, hist
<1>b. /\ Len(buf) \in Nat /\ stream \in Seq(Byte) /\ Len(stream) \in Nat
      /\ fed \in Nat /\ Base \in Nat /\ Base + Len(buf) = fed
      /\ frame_drain \in Nat /\ origin \in Nat /\ ScanPoint \in Nat
  BY Basics
<1> DEFINE kept == EraseFront(frame_drain)
           new  == SubSeq(stream, fed + 1, fed + n)
<1>2. frame_drain \in 0..Len(buf)
  <2>1. ScanPoint <= fed /\ frame_drain <= ScanPoint - Base
    BY Basics DEF IInv, DrainEnds
  <2> QED BY <2>1, <1>b
<1>3. /\ kept \in Seq(Byte) /\ Len(kept) = Len(buf) - frame_drain
      /\ \A i \in 1..(Len(buf) - frame_drain) : kept[i] = buf[i + frame_drain]
  BY <1>2, EraseFrontProperties DEF IInv
<1>4. \A i \in (fed + 1)..(fed + n) : stream[i] \in Byte
  <2> SUFFICES ASSUME NEW i \in (fed + 1)..(fed + n) PROVE stream[i] \in Byte
    OBVIOUS
  <2>1. i \in 1..Len(stream)
    BY <1>1, <1>a, <1>b
  <2> QED BY <2>1, <1>a, <1>b, ElementOfSeq
<1>5. /\ new \in Seq(Byte)
      /\ Len(new) = IF fed + 1 <= fed + n THEN (fed + n) - (fed + 1) + 1 ELSE 0
      /\ \A i \in 1..((fed + n) - (fed + 1) + 1) : new[i] = stream[(fed + 1) + i - 1]
  <2>1. fed + 1 \in Int /\ fed + n \in Int
    BY <1>1, <1>b
  <2> QED BY <2>1, <1>4, SubSeqProperties
<1> HIDE DEF kept, new
<1>6. Len(new) = n /\ \A i \in 1..n : new[i] = stream[fed + i]
  <2>1. Len(new) = n /\ (fed + n) - (fed + 1) + 1 = n
    BY <1>1, <1>5, <1>a, <1>b
  <2>2. \A i \in 1..n : (fed + 1) + i - 1 = fed + i
    BY <1>1, <1>a, <1>b
  <2> QED BY <2>1, <2>2, <1>5
<1>7. buf' = kept \o new
  BY <1>a DEF kept, new
<1>8. /\ buf' \in Seq(Byte) /\ Len(buf') = Len(kept) + n /\ Len(kept) \in Nat
      /\ \A i \in 1..(Len(kept) + n) :
           buf'[i] = IF i <= Len(kept) THEN kept[i] ELSE new[i - Len(kept)]
  <2>1. /\ kept \o new \in Seq(Byte)
        /\ Len(kept \o new) = Len(kept) + Len(new)
        /\ \A i \in 1..(Len(kept) + Len(new)) : (kept \o new)[i] =
              IF i <= Len(kept) THEN kept[i] ELSE new[i - Len(kept)]
    BY <1>3, <1>5, ConcatProperties
  <2>2. Len(kept) \in Nat
    BY <1>3, LenProperties
  <2> QED BY <2>1, <2>2, <1>6, <1>7
<1>9. Base' = Base + frame_drain /\ Len(buf') <= fed'
  BY <1>1, <1>3, <1>8, <1>a, <1>b DEF Base
<1>10. TypeOK'
  <2>1. fed' \in 0..Len(stream)
    BY <1>1, <1>a, <1>b
  <2>2. stats' \in StatsType
    <3>1. stats \in StatsType
      BY DEF IInv, TypeOK
    <3>2. stats' = [stats EXCEPT !.bytes_consumed = @ + n]
      BY DEF Feed
    <3> QED BY <3>1, <3>2, <1>1 DEF StatsType
  <2>3. Len(buf') \in Nat
    BY <1>8, LenProperties
  <2> QED BY <1>a, <1>8, <2>1, <2>2, <2>3, SMTT(20) DEF IInv, TypeOK
<1>11. Window'
  <2> SUFFICES ASSUME NEW i \in 1..Len(buf') PROVE buf'[i] = stream[Base' + i]
    BY <1>a, <1>9 DEF Window
  <2>1. CASE i <= Len(kept)
    <3>1. buf'[i] = buf[i + frame_drain]
      <4>1. i \in 1..(Len(kept) + n) /\ i \in 1..(Len(buf) - frame_drain)
        BY <2>1, <1>1, <1>2, <1>3, <1>8, <1>b
      <4> QED BY <2>1, <4>1, <1>3, <1>8
    <3>2. i + frame_drain \in 1..Len(buf)
      BY <2>1, <1>2, <1>3, <1>a, <1>b
    <3>3. buf[i + frame_drain] = stream[Base + (i + frame_drain)]
      BY <3>2 DEF IInv, Window
    <3>4. Base + (i + frame_drain) = Base' + i
      BY <1>9, <1>a, <1>b
    <3> QED BY <3>1, <3>3, <3>4
  <2>2. CASE ~(i <= Len(kept))
    <3>0. /\ Len(kept) \in Nat /\ i \in Nat /\ i <= Len(kept) + n
          /\ Len(kept) = Len(buf) - frame_drain
      <4>1. Len(kept) \in Nat /\ Len(kept) = Len(buf) - frame_drain
        BY <1>2, <1>3, <1>b
      <4>2. Len(buf') = Len(kept) + n
        BY <1>8
      <4> QED BY <4>1, <4>2, <1>1
    <3>1. i - Len(kept) \in 1..n
      BY <2>2, <3>0, <1>1
    <3>2. buf'[i] = new[i - Len(kept)] /\ new[i - Len(kept)] = stream[fed + (i - Len(kept))]
      BY <2>2, <3>1, <1>1, <1>3, <1>6, <1>8, <1>a, <1>b
    <3>3. fed + (i - Len(kept)) = Base' + i
      BY <3>0, <1>9, <1>b
    <3> QED BY <3>2, <3>3
  <2> QED BY <2>1, <2>2
<1>12. ScanPoint' = Base' /\ origin' = origin /\ origin <= ScanPoint'
       /\ \A q \in origin..(ScanPoint' - 1) : RuledOut(stream, q, fed)
  <2>1. ScanPoint' = Base' /\ origin' = origin
    BY <1>9, <1>a, <1>b DEF ScanPoint, hist
  <2>2. CASE frame_drain > 0
    BY <2>1, <2>2, <1>9, <1>a, <1>b DEF IInv, DrainEnds
  <2>3. CASE frame_drain = 0
    <3>1. ScanPoint = Base
      BY <2>3, <1>a, <1>b DEF IInv, Parked, ScanPoint
    <3> QED BY <3>1, <2>1, <2>3, <1>9, <1>a, <1>b DEF IInv, Decided
  <2> QED BY <2>2, <2>3, <1>a, <1>b
<1>13. Decided'
  <2>1. ASSUME NEW q \in origin'..(ScanPoint' - 1) PROVE RuledOut(stream', q, fed')
    <3>1. RuledOut(stream, q, fed) /\ q \in Nat
      BY <1>12, <1>a, <1>b
    <3>2. fed + n \in Nat /\ fed <= fed + n /\ fed + n <= Len(stream)
      BY <1>1, <1>a, <1>b
    <3>3. RuledOut(stream, q, fed + n)
      BY <3>1, <3>2, <1>b, RuledOutMonotone
    <3> QED BY <3>3, <1>a
  <2> QED BY <2>1, <1>12 DEF Decided
<1>14. DrainEnds'
  BY <1>9, <1>12, <1>a, <1>b DEF DrainEnds
<1>15. CandidateSeen'
  <2>1. state' = state /\ frame_start' = 0
    BY <1>a
  <2>2. CASE state = "Idle"
    BY <2>1, <2>2 DEF CandidateSeen
  <2>3. CASE state # "Idle"
    <3>1. frame_start = 0 /\ frame_drain = 0
      BY <2>3, <1>a, <1>b DEF IInv, Parked, DrainEnds, ScanPoint
    <3>2. Len(kept) = Len(buf) /\ Len(buf) <= Len(buf')
      BY <3>1, <1>1, <1>3, <1>8, <1>a, <1>b
    <3>3. ASSUME NEW i \in 1..Len(buf) PROVE buf'[i] = buf[i]
      <4>1. i \in 1..(Len(kept) + n) /\ i <= Len(kept) /\ i \in 1..(Len(buf) - frame_drain)
        BY <3>1, <3>2, <1>1, <1>a, <1>b
      <4>2. buf'[i] = kept[i] /\ kept[i] = buf[i + frame_drain]
        BY <4>1, <1>3, <1>8
      <4>3. i + frame_drain = i
        BY <3>1
      <4> QED BY <4>2, <4>3
    <3>4. CASE state = "GotDollar"
      <4>1. 1 \in 1..Len(buf) /\ buf[1] = Dollar
        BY <3>1, <3>4, <1>a, <1>b DEF IInv, CandidateSeen
      <4>2. buf'[1] = Dollar /\ 0 < Len(buf')
        BY <4>1, <3>2, <3>3, <1>1, <1>8, <1>a, <1>b
      <4> QED BY <2>1, <3>4, <4>2 DEF CandidateSeen
    <3>5. CASE state \in {"ReadingHeader", "ReadingBody"}
      <4>1. 1 \in 1..Len(buf) /\ 2 \in 1..Len(buf) /\ buf[1] = Dollar /\ buf[2] = At
        BY <3>1, <3>5, <1>a, <1>b DEF IInv, CandidateSeen
      <4>2. state = "ReadingBody" =>
              /\ HeaderSize <= Len(buf)
              /\ LengthAt(buf, 0) = LengthAt(buf', 0)
              /\ LengthOk(LengthAt(buf, 0))
        <5> SUFFICES ASSUME state = "ReadingBody"
                     PROVE  /\ HeaderSize <= Len(buf)
                            /\ LengthAt(buf, 0) = LengthAt(buf', 0)
                            /\ LengthOk(LengthAt(buf, 0))
          OBVIOUS
        <5>1. HeaderSize <= Len(buf) /\ LengthOk(LengthAt(buf, 0))
          BY <3>1, <1>a, <1>b DEF IInv, CandidateSeen, HeaderSize
        <5>2. 7 \in 1..Len(buf) /\ 8 \in 1..Len(buf)
          BY <5>1, <1>a, <1>b DEF HeaderSize
        <5>3. buf'[7] = buf[7] /\ buf'[8] = buf[8]
          BY <5>2, <3>3
        <5>4. LengthAt(buf, 0) = LengthAt(buf', 0)
          <6>1. 0 + 6 + 1 = 7 /\ 0 + 6 + 2 = 8
            OBVIOUS
          <6> QED BY <6>1, <5>3 DEF LengthAt, U16
        <5> QED BY <5>1, <5>4
      <4>3. buf'[1] = Dollar /\ buf'[2] = At
        BY <4>1, <3>3
      <4>4. 1 < Len(buf') /\ Len(buf') \in Nat
        BY <4>1, <3>2, <1>1, <1>8, <1>a, <1>b
      <4> QED BY <2>1, <3>2, <4>2, <4>3, <4>4, <1>a, <1>b, SMTT(20) DEF CandidateSeen, HeaderSize
    <3> QED BY <2>3, <3>4, <3>5 DEF IInv, TypeOK, State
  <2> QED BY <2>2, <2>3
<1>16. Parked'
  BY <1>a DEF Parked
<1> QED BY <1>10, <1>11, <1>13, <1>14, <1>15, <1>16 DEF IInv

\* An iteration that only moves the scan forward, by at most one position
\* that the bytes rule out.
LEMMA ScanMoves ==
  ASSUME IInv, pc = "scan", pc' = "scan",
         stream' = stream, fed' = fed, buf' = buf, out' = out, origin' = origin,
         frame_drain' = frame_drain, state' \in State, stats' \in StatsType,
         pos' \in 0..Len(buf), frame_start' \in 0..Len(buf),
         fails' \in [0..(Len(stream) - 1) -> Nat],
         \/ ScanPoint' = ScanPoint
         \/ ScanPoint' = ScanPoint + 1 /\ RuledOut(stream, ScanPoint, fed),
         CandidateSeen'
  PROVE  IInv'
<1>1. TypeOK'
  BY DEF IInv, TypeOK
<1>2. Base' = Base
  BY DEF Base
<1>3. Window'
  BY <1>2 DEF IInv, Window
<1>4. Decided'
  BY Basics, SMTT(20) DEF IInv, Decided
<1>5. DrainEnds'
  <2>1. ScanPoint' >= ScanPoint /\ ScanPoint' \in Nat
    BY Basics
  <2> QED BY <1>2, <2>1, Basics, SMTT(20) DEF IInv, DrainEnds
<1>6. Parked'
  BY DEF Parked
<1> QED BY <1>1, <1>3, <1>4, <1>5, <1>6 DEF IInv

\* What buf_ shows at a position, the stream shows at the same position.
LEMMA WindowAt ==
  ASSUME IInv, NEW k \in Nat, k < Len(buf)
  PROVE  buf[k + 1] = stream[Base + k + 1] /\ Base + k < fed
<1>1. k + 1 \in 1..Len(buf) /\ Base + (k + 1) = Base + k + 1
  BY Basics
<1>2. buf[k + 1] = stream[Base + (k + 1)]
  BY <1>1 DEF IInv, Window
<1> QED BY <1>1, <1>2, Basics

\* Idle passes over a byte that is not '$', which that byte rules out.
LEMMA IdleSkipIInv == IInv /\ IdleSkip => IInv'
<1> SUFFICES ASSUME IInv, IdleSkip PROVE IInv'
  OBVIOUS
<1>1. /\ pc = "scan" /\ state = "Idle" /\ pos < Len(buf) /\ buf[pos + 1] # Dollar
      /\ pos' = pos + 1 /\ pc' = "scan" /\ state' = "Idle"
      /\ stream' = stream /\ fed' = fed /\ buf' = buf /\ out' = out
      /\ origin' = origin /\ frame_drain' = frame_drain /\ stats' = stats
      /\ frame_start' = frame_start /\ fails' = fails
  BY DEF IdleSkip, Scanning, env, members, hist
<1>2. ScanPoint = Base + pos /\ ScanPoint' = ScanPoint + 1
  BY <1>1, Basics DEF ScanPoint, Base
<1>3. RuledOut(stream, ScanPoint, fed)
  BY <1>1, <1>2, WindowAt, Basics DEF RuledOut
<1>4. CandidateSeen'
  BY <1>1 DEF CandidateSeen
<1>5. /\ pos' \in 0..Len(buf) /\ frame_start' \in 0..Len(buf)
      /\ state' \in State
  BY <1>1, Basics DEF State
<1>6. stats' \in StatsType /\ fails' \in [0..(Len(stream) - 1) -> Nat]
  BY <1>1 DEF IInv, TypeOK
<1> QED BY <1>1, <1>2, <1>3, <1>4, <1>5, <1>6, ScanMoves

\* Idle stops at a '$': nothing is decided yet.
LEMMA IdleFoundIInv == IInv /\ IdleFound => IInv'
<1> SUFFICES ASSUME IInv, IdleFound PROVE IInv'
  OBVIOUS
<1>1. /\ pc = "scan" /\ state = "Idle" /\ pos < Len(buf) /\ buf[pos + 1] = Dollar
      /\ pos' = pos /\ pc' = "scan" /\ state' = "GotDollar"
      /\ stream' = stream /\ fed' = fed /\ buf' = buf /\ out' = out
      /\ origin' = origin /\ frame_drain' = frame_drain /\ stats' = stats
      /\ frame_start' = pos /\ fails' = fails
  BY DEF IdleFound, Scanning, env, hist
<1>2. ScanPoint' = ScanPoint
  BY <1>1, Basics DEF ScanPoint, Base
<1>3. CandidateSeen'
  BY <1>1, Basics DEF CandidateSeen
<1>5. /\ pos' \in 0..Len(buf) /\ frame_start' \in 0..Len(buf)
      /\ state' \in State
  BY <1>1, Basics DEF State
<1>6. stats' \in StatsType /\ fails' \in [0..(Len(stream) - 1) -> Nat]
  BY <1>1 DEF IInv, TypeOK
<1> QED BY <1>1, <1>2, <1>3, <1>5, <1>6, ScanMoves

\* '$@' opens a header at the candidate.
LEMMA GotDollarAtIInv == IInv /\ GotDollarAt => IInv'
<1> SUFFICES ASSUME IInv, GotDollarAt PROVE IInv'
  OBVIOUS
<1>1. /\ pc = "scan" /\ state = "GotDollar" /\ frame_start + 1 < Len(buf)
      /\ buf[frame_start + 2] = At
      /\ pos' = frame_start + 2 /\ pc' = "scan" /\ state' = "ReadingHeader"
      /\ stream' = stream /\ fed' = fed /\ buf' = buf /\ out' = out
      /\ origin' = origin /\ frame_drain' = frame_drain /\ stats' = stats
      /\ frame_start' = frame_start /\ fails' = fails
  BY DEF GotDollarAt, Scanning, env, hist
<1>2. ScanPoint' = ScanPoint
  BY <1>1, Basics DEF ScanPoint, Base
<1>3. CandidateSeen'
  BY <1>1, Basics DEF IInv, CandidateSeen
<1>5. /\ pos' \in 0..Len(buf) /\ frame_start' \in 0..Len(buf)
      /\ state' \in State
  BY <1>1, Basics DEF State
<1>6. stats' \in StatsType /\ fails' \in [0..(Len(stream) - 1) -> Nat]
  BY <1>1 DEF IInv, TypeOK
<1> QED BY <1>1, <1>2, <1>3, <1>5, <1>6, ScanMoves

\* '$$' rules out the first '$' and makes the second the candidate.
LEMMA GotDollarDollarIInv == IInv /\ GotDollarDollar => IInv'
<1> SUFFICES ASSUME IInv, GotDollarDollar PROVE IInv'
  OBVIOUS
<1>1. /\ pc = "scan" /\ state = "GotDollar" /\ frame_start + 1 < Len(buf)
      /\ buf[frame_start + 2] = Dollar
      /\ pos' = frame_start + 1 /\ pc' = "scan" /\ state' = "GotDollar"
      /\ stream' = stream /\ fed' = fed /\ buf' = buf /\ out' = out
      /\ origin' = origin /\ frame_drain' = frame_drain /\ stats' = stats
      /\ frame_start' = frame_start + 1 /\ fails' = fails
  BY DEF GotDollarDollar, Scanning, env, members, hist
<1>2. ScanPoint = Base + frame_start /\ ScanPoint' = ScanPoint + 1
  BY <1>1, Basics DEF ScanPoint, Base
<1>3. RuledOut(stream, ScanPoint, fed)
  <2>1. /\ buf[(frame_start + 1) + 1] = stream[Base + (frame_start + 1) + 1]
        /\ Base + (frame_start + 1) < fed
    <3>1. frame_start + 1 \in Nat
      BY Basics
    <3> QED BY <1>1, <3>1, WindowAt
  <2>2. /\ (frame_start + 1) + 1 = frame_start + 2
        /\ Base + (frame_start + 1) + 1 = Base + frame_start + 2
        /\ Base + (frame_start + 1) = Base + frame_start + 1
    BY Basics
  <2> QED BY <1>1, <1>2, <2>1, <2>2 DEF RuledOut, Dollar, At
<1>4. CandidateSeen'
  <2>1. (frame_start + 1) + 1 = frame_start + 2
    BY Basics
  <2> QED BY <1>1, <2>1, Basics DEF CandidateSeen
<1>5. /\ pos' \in 0..Len(buf) /\ frame_start' \in 0..Len(buf)
      /\ state' \in State
  BY <1>1, Basics DEF State
<1>6. stats' \in StatsType /\ fails' \in [0..(Len(stream) - 1) -> Nat]
  BY <1>1 DEF IInv, TypeOK
<1> QED BY <1>1, <1>2, <1>3, <1>4, <1>5, <1>6, ScanMoves

\* A '$' followed by anything else is ruled out.
LEMMA GotDollarOtherIInv == IInv /\ GotDollarOther => IInv'
<1> SUFFICES ASSUME IInv, GotDollarOther PROVE IInv'
  OBVIOUS
<1>1. /\ pc = "scan" /\ state = "GotDollar" /\ frame_start + 1 < Len(buf)
      /\ buf[frame_start + 2] # At
      /\ pos' = frame_start + 1 /\ pc' = "scan" /\ state' = "Idle"
      /\ stream' = stream /\ fed' = fed /\ buf' = buf /\ out' = out
      /\ origin' = origin /\ frame_drain' = frame_drain /\ stats' = stats
      /\ frame_start' = 0 /\ fails' = fails
  BY DEF GotDollarOther, Scanning, Resync, ResyncPos, env, hist
<1>2. ScanPoint = Base + frame_start /\ ScanPoint' = ScanPoint + 1
  BY <1>1, Basics DEF ScanPoint, Base
<1>3. RuledOut(stream, ScanPoint, fed)
  <2>1. /\ buf[(frame_start + 1) + 1] = stream[Base + (frame_start + 1) + 1]
        /\ Base + (frame_start + 1) < fed
    <3>1. frame_start + 1 \in Nat
      BY Basics
    <3> QED BY <1>1, <3>1, WindowAt
  <2>2. /\ (frame_start + 1) + 1 = frame_start + 2
        /\ Base + (frame_start + 1) + 1 = Base + frame_start + 2
        /\ Base + (frame_start + 1) = Base + frame_start + 1
    BY Basics
  <2> QED BY <1>1, <1>2, <2>1, <2>2 DEF RuledOut
<1>4. CandidateSeen'
  BY <1>1 DEF CandidateSeen
<1>5. /\ pos' \in 0..Len(buf) /\ frame_start' \in 0..Len(buf)
      /\ state' \in State
  BY <1>1, Basics DEF State
<1>6. stats' \in StatsType /\ fails' \in [0..(Len(stream) - 1) -> Nat]
  BY <1>1 DEF IInv, TypeOK
<1> QED BY <1>1, <1>2, <1>3, <1>4, <1>5, <1>6, ScanMoves

\* A valid Length keeps the candidate.
LEMMA HeaderAcceptedIInv == IInv /\ HeaderAccepted => IInv'
<1> SUFFICES ASSUME IInv, HeaderAccepted PROVE IInv'
  OBVIOUS
<1>1. /\ pc = "scan" /\ state = "ReadingHeader"
      /\ frame_start + HeaderSize <= Len(buf) /\ LengthOk(LengthAt(buf, frame_start))
      /\ pos' = frame_start + HeaderSize /\ pc' = "scan" /\ state' = "ReadingBody"
      /\ stream' = stream /\ fed' = fed /\ buf' = buf /\ out' = out
      /\ origin' = origin /\ frame_drain' = frame_drain /\ stats' = stats
      /\ frame_start' = frame_start /\ fails' = fails
  BY DEF HeaderAccepted, HeaderComplete, Scanning, env, hist
<1>2. ScanPoint' = ScanPoint
  BY <1>1, Basics DEF ScanPoint, Base
<1>3. CandidateSeen'
  BY <1>1, Basics DEF IInv, CandidateSeen
<1>5. /\ pos' \in 0..Len(buf) /\ frame_start' \in 0..Len(buf)
      /\ state' \in State
  BY <1>1, Basics DEF State, HeaderSize
<1>6. stats' \in StatsType /\ fails' \in [0..(Len(stream) - 1) -> Nat]
  BY <1>1 DEF IInv, TypeOK
<1> QED BY <1>1, <1>2, <1>3, <1>5, <1>6, ScanMoves

\* Counting a rejection keeps the history function's type.
LEMMA RejectionType ==
  ASSUME IInv, frame_start < Len(buf),
         fails' = [fails EXCEPT ![Base + frame_start] = @ + 1]
  PROVE  fails' \in [0..(Len(stream) - 1) -> Nat]
<1>1. Base + frame_start \in 0..(Len(stream) - 1)
  BY Basics
<1>2. fails \in [0..(Len(stream) - 1) -> Nat]
  BY DEF IInv, TypeOK
<1> QED BY <1>1, <1>2

\* An invalid Length rules out one position, the candidate's.
LEMMA HeaderRejectedIInv == IInv /\ HeaderRejected => IInv'
<1> SUFFICES ASSUME IInv, HeaderRejected PROVE IInv'
  OBVIOUS
<1>1. /\ pc = "scan" /\ state = "ReadingHeader"
      /\ frame_start + HeaderSize <= Len(buf) /\ ~LengthOk(LengthAt(buf, frame_start))
      /\ pos' = frame_start + 1 /\ pc' = "scan" /\ state' = "Idle"
      /\ stream' = stream /\ fed' = fed /\ buf' = buf /\ out' = out
      /\ origin' = origin /\ frame_drain' = frame_drain
      /\ stats' = [stats EXCEPT !.length_invalid = @ + 1, !.resyncs = @ + 1]
      /\ frame_start' = 0 /\ fails' = [fails EXCEPT ![Base + frame_start] = @ + 1]
  BY DEF HeaderRejected, HeaderComplete, Scanning, Resync, ResyncPos, env, hist
<1>2. ScanPoint = Base + frame_start /\ ScanPoint' = ScanPoint + 1
  BY <1>1, Basics DEF ScanPoint, Base
<1>3. RuledOut(stream, ScanPoint, fed)
  <2>1. LengthAt(buf, frame_start) = LengthAt(stream, Base + frame_start)
    BY <1>1, Basics, WindowWire DEF IInv
  <2>2. ScanPoint + HeaderSize <= fed
    BY <1>1, <1>2, Basics DEF HeaderSize
  <2> QED BY <1>1, <1>2, <2>1, <2>2 DEF RuledOut
<1>4. CandidateSeen'
  BY <1>1 DEF CandidateSeen
<1>5. /\ pos' \in 0..Len(buf) /\ frame_start' \in 0..Len(buf)
      /\ state' \in State /\ frame_start < Len(buf)
  BY <1>1, Basics DEF State, HeaderSize
<1>6. stats' \in StatsType
  <2>1. stats \in StatsType
    BY DEF IInv, TypeOK
  <2>2. stats' = [stats EXCEPT !.length_invalid = @ + 1, !.resyncs = @ + 1]
    BY <1>1
  <2>3. stats.length_invalid + 1 \in Nat /\ stats.resyncs + 1 \in Nat
    BY <2>1 DEF StatsType
  <2> QED BY <2>1, <2>2, <2>3, Zenon DEF StatsType
<1>7. fails' \in [0..(Len(stream) - 1) -> Nat]
  BY <1>1, <1>5, RejectionType
<1> QED BY <1>1, <1>2, <1>3, <1>4, <1>5, <1>6, <1>7, ScanMoves

\* A CRC mismatch rules out one position, the candidate's.
LEMMA BodyRejectedIInv == IInv /\ BodyRejected => IInv'
<1> SUFFICES ASSUME IInv, BodyRejected PROVE IInv'
  OBVIOUS
<1>1. /\ pc = "scan" /\ state = "ReadingBody"
      /\ frame_start + LengthAt(buf, frame_start) <= Len(buf) /\ ~CrcOk(buf, frame_start)
      /\ pos' = frame_start + 1 /\ pc' = "scan" /\ state' = "Idle"
      /\ stream' = stream /\ fed' = fed /\ buf' = buf /\ out' = out
      /\ origin' = origin /\ frame_drain' = frame_drain
      /\ stats' = [stats EXCEPT !.crc_failed = @ + 1, !.resyncs = @ + 1]
      /\ frame_start' = 0 /\ fails' = [fails EXCEPT ![Base + frame_start] = @ + 1]
  BY DEF BodyRejected, BodyComplete, Scanning, Resync, ResyncPos, env, hist
<1>2. ScanPoint = Base + frame_start /\ ScanPoint' = ScanPoint + 1
  BY <1>1, Basics DEF ScanPoint, Base
<1>3. frame_start + HeaderSize <= Len(buf) /\ LengthOk(LengthAt(buf, frame_start))
  BY <1>1 DEF IInv, CandidateSeen
<1>4. RuledOut(stream, ScanPoint, fed)
  <2>1. /\ LengthAt(buf, frame_start) \in Nat
        /\ LengthAt(buf, frame_start) = LengthAt(stream, Base + frame_start)
        /\ ~CrcOk(stream, Base + frame_start)
    BY <1>1, <1>3, Basics, WindowWire DEF IInv
  <2>2. /\ ScanPoint + HeaderSize <= fed
        /\ ScanPoint + LengthAt(stream, Base + frame_start) <= fed
    BY <1>1, <1>2, <1>3, <2>1, Basics, SMTT(20) DEF HeaderSize
  <2> QED BY <1>2, <1>3, <2>1, <2>2 DEF RuledOut
<1>5. CandidateSeen'
  BY <1>1 DEF CandidateSeen
<1>6. /\ pos' \in 0..Len(buf) /\ frame_start' \in 0..Len(buf)
      /\ state' \in State /\ frame_start < Len(buf)
  BY <1>1, <1>3, Basics DEF State, HeaderSize
<1>7. stats' \in StatsType
  <2>1. stats \in StatsType
    BY DEF IInv, TypeOK
  <2>2. stats' = [stats EXCEPT !.crc_failed = @ + 1, !.resyncs = @ + 1]
    BY <1>1
  <2>3. stats.crc_failed + 1 \in Nat /\ stats.resyncs + 1 \in Nat
    BY <2>1 DEF StatsType
  <2> QED BY <2>1, <2>2, <2>3, Zenon DEF StatsType
<1>8. fails' \in [0..(Len(stream) - 1) -> Nat]
  BY <1>1, <1>6, RejectionType
<1> QED BY <1>1, <1>2, <1>4, <1>5, <1>6, <1>7, <1>8, ScanMoves

\* The block about to be emitted is a valid block of the stream at ScanPoint.
LEMMA EmittedIsBlock ==
  ASSUME IInv, FrameEmitted
  PROVE  /\ ScanPoint = Base + frame_start
         /\ BlockAt(stream, ScanPoint, fed)
         /\ LengthAt(buf, frame_start) \in Nat
         /\ LengthAt(buf, frame_start) = LengthAt(stream, ScanPoint)
         /\ FrameFields(buf, frame_start) = FrameFields(stream, ScanPoint)
<1>1. /\ pc = "scan" /\ state = "ReadingBody"
      /\ frame_start + LengthAt(buf, frame_start) <= Len(buf)
      /\ CrcOk(buf, frame_start)
  BY DEF FrameEmitted, BodyComplete, Scanning
<1>2. ScanPoint = Base + frame_start
  BY <1>1 DEF ScanPoint
<1>3. /\ frame_start + HeaderSize <= Len(buf) /\ LengthOk(LengthAt(buf, frame_start))
      /\ buf[frame_start + 1] = Dollar /\ buf[frame_start + 2] = At
  BY <1>1 DEF IInv, CandidateSeen
<1>4. /\ LengthAt(buf, frame_start) \in Nat
      /\ LengthAt(buf, frame_start) = LengthAt(stream, Base + frame_start)
      /\ CrcOk(stream, Base + frame_start)
      /\ FrameFields(buf, frame_start) = FrameFields(stream, Base + frame_start)
  BY <1>1, <1>3, Basics, WindowWire DEF IInv
<1>5. stream[ScanPoint + 1] = Dollar /\ stream[ScanPoint + 2] = At
  <2>1. frame_start < Len(buf) /\ frame_start + 1 < Len(buf) /\ frame_start + 1 \in Nat
    BY <1>3, Basics, SMTT(20) DEF HeaderSize
  <2>2. /\ buf[frame_start + 1] = stream[Base + frame_start + 1]
        /\ buf[(frame_start + 1) + 1] = stream[Base + (frame_start + 1) + 1]
    BY <2>1, Basics, WindowAt
  <2>3. /\ (frame_start + 1) + 1 = frame_start + 2
        /\ Base + (frame_start + 1) + 1 = Base + frame_start + 2
    BY Basics
  <2> QED BY <1>2, <1>3, <2>2, <2>3
<1>6. ScanPoint + HeaderSize <= fed /\ ScanPoint + LengthAt(stream, ScanPoint) <= fed
  <2>1. Base + frame_start + HeaderSize <= fed
    BY <1>3, Basics DEF HeaderSize
  <2>2. Base + frame_start + LengthAt(buf, frame_start) <= fed
    BY <1>1, <1>4, Basics
  <2> QED BY <1>2, <1>4, <2>1, <2>2
<1> QED BY <1>2, <1>3, <1>4, <1>5, <1>6 DEF BlockAt

\* Emitting a block moves the scan and the drain to its end.
LEMMA FrameEmittedIInv == IInv /\ FrameEmitted => IInv'
<1> SUFFICES ASSUME IInv, FrameEmitted PROVE IInv'
  OBVIOUS
<1> DEFINE len == LengthAt(buf, frame_start)
<1>1. /\ pc = "scan" /\ state = "ReadingBody" /\ frame_start + len <= Len(buf)
      /\ pos' = frame_start + len /\ pc' = "scan" /\ state' = "Idle"
      /\ stream' = stream /\ fed' = fed /\ buf' = buf
      /\ out' = Append(out, [at |-> Base + frame_start,
                             frame |-> FrameFields(buf, frame_start)])
      /\ origin' = Base + frame_start + len
      /\ frame_drain' = frame_start + len
      /\ stats' = [stats EXCEPT !.frames_emitted = @ + 1]
      /\ frame_start' = 0 /\ fails' = fails
  BY DEF FrameEmitted, BodyComplete, Scanning, DrainAfterBlock, env
<1>2. len \in Nat /\ len >= HeaderSize
  <2>1. LengthOk(len)
    BY <1>1 DEF IInv, CandidateSeen
  <2> QED BY <2>1, EmittedIsBlock DEF LengthOk
<1>3. frame_start + HeaderSize <= Len(buf)
  BY <1>1 DEF IInv, CandidateSeen
<1>4. FrameFields(buf, frame_start)
        \in [crc: Nat, raw_id: Nat, length: Nat, body: Seq(Byte)]
  <2>0. /\ frame_start \in Nat /\ Len(buf) \in Nat
        /\ frame_start + 8 <= Len(buf) /\ HeaderSize = 8
    BY <1>3, Basics DEF HeaderSize
  <2> HIDE DEF len
  <2>1. U16(buf, frame_start + 2) \in Nat /\ U16(buf, frame_start + 4) \in Nat
    <3>1. /\ frame_start + 2 \in Nat /\ frame_start + 2 + 2 <= Len(buf)
          /\ frame_start + 4 \in Nat /\ frame_start + 4 + 2 <= Len(buf)
      BY <2>0
    <3> QED BY <3>1, Basics, U16Type
  <2>2. SubSeq(buf, frame_start + HeaderSize + 1, frame_start + len) \in Seq(Byte)
    <3>1. /\ frame_start + HeaderSize + 1 \in Int /\ frame_start + len \in Int
          /\ (frame_start + HeaderSize + 1)..(frame_start + len) \subseteq 1..Len(buf)
      BY <1>1, <1>2, <2>0
    <3>2. \A i \in (frame_start + HeaderSize + 1)..(frame_start + len) : buf[i] \in Byte
      BY <3>1, Basics, ElementOfSeq
    <3> QED BY <3>1, <3>2, SubSeqProperties
  <2> QED BY <1>2, <2>1, <2>2 DEF FrameFields, len
<1> HIDE DEF len
<1>5. TypeOK'
  <2>1. Base + frame_start \in Nat
    BY Basics
  <2>2. out' \in Seq([at: Nat,
                  frame: [crc: Nat, raw_id: Nat, length: Nat, body: Seq(Byte)]])
    BY <1>1, <1>4, <2>1 DEF IInv, TypeOK
  <2>3. stats' \in StatsType
    <3>1. stats \in StatsType
      BY DEF IInv, TypeOK
    <3> QED BY <1>1, <3>1 DEF StatsType
  <2>4. /\ pos' \in 0..Len(buf') /\ frame_start' \in 0..Len(buf')
        /\ origin' \in Nat /\ frame_drain' \in Nat /\ state' \in State
    BY <1>1, <1>2, Basics DEF State
  <2> QED BY <1>1, <2>2, <2>3, <2>4 DEF IInv, TypeOK
<1>6. Base' = Base /\ ScanPoint' = Base + frame_start + len
  BY <1>1, <1>2, Basics DEF Base, ScanPoint
<1>7. Window'
  BY <1>1, <1>6 DEF IInv, Window
<1>8. Decided'
  <2>1. ScanPoint' = origin' /\ origin' \in Nat
    BY <1>1, <1>2, <1>6, Basics
  <2>2. \A x \in Nat : x <= x /\ x..(x - 1) = {}
    OBVIOUS
  <2>3. origin' <= ScanPoint' /\ origin'..(ScanPoint' - 1) = {}
    BY <2>1, <2>2
  <2> QED BY <2>3, Zenon DEF Decided
<1>9. DrainEnds'
  BY <1>1, <1>2, <1>6, Basics DEF DrainEnds
<1>10. CandidateSeen' /\ Parked'
  BY <1>1 DEF CandidateSeen, Parked
<1> QED BY <1>5, <1>7, <1>8, <1>9, <1>10 DEF IInv

\* What feed() erases on its way out lies before the scan, which stays where
\* it is in the stream.
LEMMA ReturnWindow ==
  ASSUME IInv, FeedReturn
  PROVE  /\ ExitErase \in 0..Len(buf) /\ ExitErase \in Nat /\ Base + ExitErase \in Nat
         /\ buf' \in Seq(Byte) /\ Len(buf') = Len(buf) - ExitErase
         /\ \A i \in 1..(Len(buf) - ExitErase) : buf'[i] = buf[i + ExitErase]
         /\ Base' = Base + ExitErase /\ Len(buf') <= fed' /\ Len(buf') \in Nat
         /\ ScanPoint' = ScanPoint
<1>1. /\ pc = "scan" /\ Stalled
      /\ buf' = EraseFront(ExitErase) /\ frame_drain' = ExitDrain
      /\ pc' = "ready" /\ pos' = 0 /\ frame_start' = 0
      /\ stream' = stream /\ fed' = fed /\ state' = state /\ stats' = stats
      /\ out' = out /\ origin' = origin /\ fails' = fails
  BY DEF FeedReturn, Stalled, env, hist
<1>2. ExitErase \in 0..Len(buf) /\ ExitErase \in Nat /\ Base + ExitErase \in Nat
  BY Basics DEF ExitErase
<1>3. /\ buf' \in Seq(Byte) /\ Len(buf') = Len(buf) - ExitErase
      /\ \A i \in 1..(Len(buf) - ExitErase) : buf'[i] = buf[i + ExitErase]
  BY <1>1, <1>2, EraseFrontProperties DEF IInv
<1>4. Base' = Base + ExitErase /\ Len(buf') <= fed' /\ Len(buf') \in Nat
  BY <1>1, <1>2, <1>3, Basics, SMTT(20) DEF Base
<1>5. ScanPoint' = ScanPoint
  <2>1. CASE state # "Idle"
    <3>1. ScanPoint = Base + frame_start /\ ExitErase = frame_start
      BY <2>1 DEF ScanPoint, ExitErase
    <3>2. ScanPoint' = Base' + 0
      BY <1>1, <2>1 DEF ScanPoint
    <3> QED BY <3>1, <3>2, <1>4, Basics
  <2>2. CASE state = "Idle"
    <3>1. ScanPoint = Base + pos /\ pos = Len(buf)
      BY <1>1, <2>2, Basics DEF ScanPoint, Stalled
    <3>2. ScanPoint' = Base' + Len(buf')
      BY <1>1, <2>2 DEF ScanPoint
    <3> QED BY <3>1, <3>2, <1>2, <1>3, <1>4, Basics, SMTT(20)
  <2> QED BY <2>1, <2>2
<1> QED BY <1>2, <1>3, <1>4, <1>5

\* Leaving feed().
LEMMA FeedReturnIInv == IInv /\ FeedReturn => IInv'
<1> SUFFICES ASSUME IInv, FeedReturn PROVE IInv'
  OBVIOUS
<1>1. /\ pc = "scan" /\ Stalled
      /\ buf' = EraseFront(ExitErase) /\ frame_drain' = ExitDrain
      /\ pc' = "ready" /\ pos' = 0 /\ frame_start' = 0
      /\ stream' = stream /\ fed' = fed /\ state' = state /\ stats' = stats
      /\ out' = out /\ origin' = origin /\ fails' = fails
  BY DEF FeedReturn, Stalled, env, hist
<1>2. ExitErase \in 0..Len(buf) /\ ExitErase \in Nat /\ Base + ExitErase \in Nat
  BY ReturnWindow
<1>3. /\ buf' \in Seq(Byte) /\ Len(buf') = Len(buf) - ExitErase
      /\ \A i \in 1..(Len(buf) - ExitErase) : buf'[i] = buf[i + ExitErase]
  BY ReturnWindow
<1>4. Base' = Base + ExitErase /\ Len(buf') <= fed' /\ Len(buf') \in Nat
  BY ReturnWindow
<1>5. Window'
  <2> SUFFICES ASSUME NEW i \in 1..Len(buf') PROVE buf'[i] = stream[Base' + i]
    BY <1>1, <1>4 DEF Window
  <2>1. i + ExitErase \in 1..Len(buf) /\ buf'[i] = buf[i + ExitErase]
    BY <1>2, <1>3, Basics, SMTT(20)
  <2>2. buf[i + ExitErase] = stream[Base + (i + ExitErase)]
    BY <2>1 DEF IInv, Window
  <2>3. Base + (i + ExitErase) = Base' + i
    BY <1>2, <1>4, Basics, SMTT(20)
  <2> QED BY <2>1, <2>2, <2>3
<1>6. TypeOK'
  <2>1. ExitDrain \in Nat
    BY Basics DEF ExitDrain
  <2> QED BY <1>1, <1>3, <1>4, <2>1 DEF IInv, TypeOK
<1>7. ScanPoint' = ScanPoint
  BY ReturnWindow
<1>8. Decided'
  BY <1>1, <1>7 DEF IInv, Decided
<1>9. DrainEnds'
  <2>1. /\ frame_drain <= ScanPoint - Base
        /\ frame_drain > 0 => origin = Base + frame_drain
    BY DEF IInv, DrainEnds
  <2>2. CASE state # "Idle"
    <3>1. ScanPoint = Base + frame_start /\ ExitErase = frame_start
      BY <2>2 DEF ScanPoint, ExitErase
    <3>2. ExitDrain = 0
      BY <2>1, <2>2, <3>1, Basics DEF ExitDrain
    <3> QED BY <1>1, <1>4, <1>7, <3>1, <3>2, Basics DEF DrainEnds
  <2>3. CASE state = "Idle" /\ frame_drain = 0
    <3>1. frame_drain' = 0
      BY <1>1, <2>3 DEF ExitDrain
    <3>2. ScanPoint = Base + pos /\ ExitErase = pos
      BY <1>1, <2>3 DEF ScanPoint, ExitErase
    <3> QED BY <1>4, <1>7, <3>1, <3>2, Basics DEF DrainEnds
  <2>4. CASE state = "Idle" /\ frame_drain # 0
    <3>1. frame_drain' = frame_drain /\ ExitErase = 0
      BY <1>1, <2>4 DEF ExitDrain, ExitErase
    <3>2. Base' = Base
      BY <1>4, <3>1, Basics
    <3> QED BY <1>1, <1>7, <2>1, <3>1, <3>2 DEF DrainEnds
  <2> QED BY <2>2, <2>3, <2>4
<1>10. CASE state = "Idle"
  <2>1. CandidateSeen'
    BY <1>1, <1>10 DEF CandidateSeen
  <2>2. Parked'
    <3>1. frame_drain' = 0 => Len(buf') = 0
      <4> SUFFICES ASSUME frame_drain' = 0 PROVE Len(buf') = 0
        OBVIOUS
      <4>1. frame_drain = 0 /\ ExitErase = pos /\ pos = Len(buf)
        BY <1>1, <1>10, Basics DEF ExitDrain, ExitErase, Stalled
      <4> QED BY <4>1, <1>3, Basics
    <3> QED BY <1>1, <1>10, <3>1 DEF Parked
  <2> QED BY <1>5, <1>6, <1>8, <1>9, <2>1, <2>2 DEF IInv
<1>11. CASE state # "Idle"
  <2>1. ExitErase = frame_start
    BY <1>11 DEF ExitErase
  <2>2. \A i \in 1..(Len(buf) - frame_start) : buf'[i] = buf[i + frame_start]
    BY <1>3, <2>1
  <2>3. Len(buf') = Len(buf) - frame_start
    BY <1>3, <2>1
  <2>4. 0 < Len(buf') /\ buf'[1] = Dollar
    <3>1. frame_start < Len(buf) /\ buf[frame_start + 1] = Dollar
      BY <1>11 DEF IInv, CandidateSeen
    <3>2. 1 \in 1..(Len(buf) - frame_start) /\ 1 + frame_start = frame_start + 1
      BY <3>1, Basics
    <3> QED BY <2>2, <2>3, <3>1, <3>2, Basics
  <2>5. state \in {"ReadingHeader", "ReadingBody"} => 1 < Len(buf') /\ buf'[2] = At
    <3> SUFFICES ASSUME state \in {"ReadingHeader", "ReadingBody"}
                 PROVE  1 < Len(buf') /\ buf'[2] = At
      OBVIOUS
    <3>1. frame_start + 1 < Len(buf) /\ buf[frame_start + 2] = At
      BY DEF IInv, CandidateSeen
    <3>2. 2 \in 1..(Len(buf) - frame_start) /\ 2 + frame_start = frame_start + 2
      BY <3>1, Basics
    <3> QED BY <2>2, <2>3, <3>1, <3>2, Basics
  <2>6. state = "ReadingBody" =>
          /\ HeaderSize <= Len(buf')
          /\ LengthAt(buf', 0) = LengthAt(buf, frame_start)
          /\ LengthOk(LengthAt(buf', 0))
    <3> SUFFICES ASSUME state = "ReadingBody"
                 PROVE  /\ HeaderSize <= Len(buf')
                        /\ LengthAt(buf', 0) = LengthAt(buf, frame_start)
                        /\ LengthOk(LengthAt(buf', 0))
      OBVIOUS
    <3>1. frame_start + HeaderSize <= Len(buf) /\ LengthOk(LengthAt(buf, frame_start))
      BY DEF IInv, CandidateSeen
    <3>2. /\ 7 \in 1..(Len(buf) - frame_start) /\ 7 + frame_start = frame_start + 6 + 1
          /\ 8 \in 1..(Len(buf) - frame_start) /\ 8 + frame_start = frame_start + 6 + 2
          /\ 0 + 6 + 1 = 7 /\ 0 + 6 + 2 = 8
      BY <3>1, Basics DEF HeaderSize
    <3>3. buf'[7] = buf[frame_start + 6 + 1] /\ buf'[8] = buf[frame_start + 6 + 2]
      BY <2>2, <3>2
    <3>4. LengthAt(buf', 0) = LengthAt(buf, frame_start)
      BY <3>2, <3>3 DEF LengthAt, U16
    <3> QED BY <2>3, <3>1, <3>4, Basics DEF HeaderSize
  <2>7. CandidateSeen'
    BY <1>1, <2>4, <2>5, <2>6 DEF CandidateSeen, HeaderSize
  <2>8. Parked'
    <3>1. /\ state = "GotDollar" => frame_start + 1 >= Len(buf)
          /\ state = "ReadingHeader" => frame_start + HeaderSize > Len(buf)
          /\ state = "ReadingBody" => frame_start + LengthAt(buf, frame_start) > Len(buf)
      BY <1>1 DEF Stalled
    <3>2. state = "ReadingBody" => LengthAt(buf', 0) \in Nat
      <4>1. ASSUME state = "ReadingBody" PROVE frame_start + HeaderSize <= Len(buf)
        BY <4>1 DEF IInv, CandidateSeen
      <4> QED BY <2>6, <4>1, Basics, WindowWire DEF IInv
    <3>3. /\ state = "GotDollar" => Len(buf') <= 1
          /\ state = "ReadingHeader" => Len(buf') < HeaderSize
          /\ state = "ReadingBody" => Len(buf') < LengthAt(buf', 0)
      BY <2>3, <2>6, <3>1, <3>2, Basics DEF HeaderSize
    <3> QED BY <1>1, <1>11, <3>3 DEF Parked
  <2> QED BY <1>5, <1>6, <1>8, <1>9, <2>7, <2>8 DEF IInv
<1> QED BY <1>10, <1>11

\* reset() forgets the candidate and starts at the end of what was fed.
LEMMA ResetIInv == IInv /\ Reset => IInv'
<1> SUFFICES ASSUME IInv, Reset PROVE IInv'
  OBVIOUS
<1>1. /\ pc = "ready" /\ pc' = "ready" /\ buf' = <<>> /\ state' = "Idle"
      /\ frame_drain' = 0 /\ origin' = fed /\ stream' = stream /\ fed' = fed
      /\ stats' = stats /\ pos' = pos /\ frame_start' = frame_start
      /\ out' = out /\ fails' = fails
  BY DEF Reset, env, locals
<1>2. Len(buf') = 0 /\ buf' \in Seq(Byte)
  BY <1>1, EmptySeq
<1>3. pos = 0 /\ frame_start = 0
  BY <1>1 DEF IInv, Parked
<1>4. Base' = fed /\ ScanPoint' = fed
  BY <1>1, <1>2, Basics DEF Base, ScanPoint
<1>5. TypeOK'
  <2>1. /\ 0 \in 0..Len(buf') /\ origin' \in Nat /\ frame_drain' \in Nat
    BY <1>1, <1>2, Basics
  <2> QED BY <1>1, <1>2, <1>3, <2>1 DEF IInv, TypeOK, State
<1>6. Window'
  BY <1>1, <1>2, Basics DEF Window
<1>7. Decided' /\ DrainEnds'
  BY <1>1, <1>4, Basics DEF Decided, DrainEnds
<1>8. CandidateSeen' /\ Parked'
  BY <1>1, <1>2, <1>3 DEF CandidateSeen, Parked
<1> QED BY <1>5, <1>6, <1>7, <1>8 DEF IInv

\* Every iteration of feed()'s loop, and its return, preserve the invariant.
LEMMA ScanIInv == IInv /\ Scan => IInv'
<1> SUFFICES ASSUME IInv, Scan PROVE IInv'
  OBVIOUS
<1>1. CASE IdleSkip
  BY <1>1, IdleSkipIInv
<1>2. CASE IdleFound
  BY <1>2, IdleFoundIInv
<1>3. CASE GotDollarAt
  BY <1>3, GotDollarAtIInv
<1>4. CASE GotDollarDollar
  BY <1>4, GotDollarDollarIInv
<1>5. CASE GotDollarOther
  BY <1>5, GotDollarOtherIInv
<1>6. CASE HeaderAccepted
  BY <1>6, HeaderAcceptedIInv
<1>7. CASE HeaderRejected
  BY <1>7, HeaderRejectedIInv
<1>8. CASE BodyRejected
  BY <1>8, BodyRejectedIInv
<1>9. CASE FrameEmitted
  BY <1>9, FrameEmittedIInv
<1>10. CASE FeedReturn
  BY <1>10, FeedReturnIInv
<1> QED BY <1>1, <1>2, <1>3, <1>4, <1>5, <1>6, <1>7, <1>8, <1>9, <1>10 DEF Scan

\* A step that changes nothing preserves it.
LEMMA StutterIInv == IInv /\ UNCHANGED vars => IInv'
BY DEF vars, env, members, locals, hist, IInv, TypeOK, Window, Decided,
       DrainEnds, CandidateSeen, Parked, ScanPoint, Base

\* Every step of the caller or of feed() preserves the invariant.
LEMMA NextIInv == IInv /\ [Next]_vars => IInv'
<1> SUFFICES ASSUME IInv, [Next]_vars PROVE IInv'
  OBVIOUS
<1>1. CASE \E n \in 0..MaxChunk : Feed(n)
  <2>1. PICK n \in 0..MaxChunk : Feed(n)
    BY <1>1
  <2>2. n \in Nat
    BY MaxChunkAssumption
  <2> QED BY <2>1, <2>2, FeedIInv
<1>2. CASE Reset
  BY <1>2, ResetIInv
<1>3. CASE Scan
  BY <1>3, ScanIInv
<1>4. CASE UNCHANGED vars
  BY <1>4, StutterIInv
<1> QED BY <1>1, <1>2, <1>3, <1>4 DEF Next

\* A block is emitted when everything from the last one on is ruled out: it is
\* the one a greedy left-to-right reading of the stream delivers next.
LEMMA EmitsNext ==
  ASSUME IInv, FrameEmitted
  PROVE  \E p \in origin..fed :
           /\ p \in Nat /\ BlockAt(stream, p, fed)
           /\ \A q \in origin..(p - 1) : RuledOut(stream, q, fed)
           /\ out' = Append(out, [at |-> p, frame |-> FrameFields(stream, p)])
           /\ origin' = p + LengthAt(stream, p)
           /\ stream' = stream /\ fed' = fed
<1> DEFINE len == LengthAt(buf, frame_start)
<1>1. /\ out' = Append(out, [at |-> Base + frame_start,
                             frame |-> FrameFields(buf, frame_start)])
      /\ origin' = Base + frame_start + len
      /\ stream' = stream /\ fed' = fed
  BY DEF FrameEmitted, env
<1>2. /\ ScanPoint = Base + frame_start
      /\ BlockAt(stream, ScanPoint, fed)
      /\ len = LengthAt(stream, ScanPoint)
      /\ FrameFields(buf, frame_start) = FrameFields(stream, ScanPoint)
  BY EmittedIsBlock
<1>3. /\ ScanPoint \in origin..fed /\ ScanPoint \in Nat
      /\ \A q \in origin..(ScanPoint - 1) : RuledOut(stream, q, fed)
  BY Basics DEF IInv, Decided
<1> HIDE DEF len
<1> QED BY <1>1, <1>2, <1>3

\* Nothing else in the loop delivers.
LEMMA ScanQuiet ==
  ASSUME Scan, ~FrameEmitted
  PROVE  stream' = stream /\ fed' = fed /\ out' = out /\ origin' = origin
BY DEF Scan, IdleSkip, IdleFound, GotDollarAt, GotDollarDollar, GotDollarOther,
       HeaderAccepted, HeaderRejected, BodyRejected, FeedReturn, env, hist

\* At every point of every sequence of feed() and reset() calls, the scan has
\* ruled out exactly the positions it has passed, and buf_ is the part of the
\* stream that is still needed.
THEOREM Inductive == Spec => []IInv
<1>1. Init => IInv
  BY InitIInv
<1>2. IInv /\ [Next]_vars => IInv'
  BY NextIInv
<1> QED BY <1>1, <1>2, PTL DEF Spec

-----------------------------------------------------------------------------
(* What follows from the invariant.                                        *)

\* Types and buffer indices, for every stream and chunking.
THEOREM TypeCorrect == Spec => []TypeOK
<1>1. IInv => TypeOK
  BY DEF IInv
<1> QED BY <1>1, Inductive, PTL

\* The assertions at frame_sync.cpp:95 and :351 never fail, so feed() never
\* erases more than buf_ holds.
THEOREM DrainSafe == Spec => []DrainWithinBuffer
<1>1. IInv => DrainWithinBuffer
  <2> SUFFICES ASSUME IInv PROVE DrainWithinBuffer
    OBVIOUS
  <2>1. frame_drain <= ScanPoint - Base
    BY DEF IInv, DrainEnds
  <2>2. frame_drain <= Len(buf)
    BY <2>1, Basics
  <2>3. state # "Idle" => frame_drain <= frame_start
    <3>1. state # "Idle" => ScanPoint = Base + frame_start
      BY DEF ScanPoint
    <3> QED BY <2>1, <3>1, Basics
  <2> QED BY <2>2, <2>3 DEF DrainWithinBuffer
<1> QED BY <1>1, Inductive, PTL

\* When feed() returns, no block decided by the bytes received so far is left
\* undelivered.
THEOREM Complete == Spec => []NothingOverlooked
<1>1. IInv => NothingOverlooked
  <2> SUFFICES ASSUME IInv, pc = "ready", NEW p \in origin..fed,
                      BlockAt(stream, p, fed),
                      \A q \in origin..(p - 1) : RuledOut(stream, q, fed)
               PROVE  FALSE
    BY DEF NothingOverlooked
  <2>1. p \in Nat /\ p + HeaderSize <= fed /\ ~RuledOut(stream, p, fed)
    BY Basics, BlockNotRuledOut DEF BlockAt
  <2>2. p >= ScanPoint
    <3> SUFFICES ASSUME p < ScanPoint PROVE FALSE
      BY <2>1, Basics
    <3>1. p \in origin..(ScanPoint - 1)
      BY <2>1, Basics
    <3> QED BY <3>1, <2>1 DEF IInv, Decided
  <2>3. CASE state = "Idle"
    <3>1. ScanPoint = fed
      BY <2>3, Basics DEF ScanPoint
    <3> QED BY <3>1, <2>1, <2>2, Basics DEF HeaderSize
  <2>4. CASE state # "Idle"
    <3>1. frame_start = 0 /\ ScanPoint = Base
      BY <2>4, Basics DEF IInv, Parked, ScanPoint
    <3>2. state # "ReadingBody" => Len(buf) < HeaderSize
      BY <2>4, Basics DEF IInv, Parked, HeaderSize, TypeOK, State
    <3>3. Base + HeaderSize <= fed
      BY <3>1, <2>1, <2>2, Basics DEF HeaderSize
    <3>4. state = "ReadingBody" /\ HeaderSize <= Len(buf) /\ 0 \in Nat
      BY <3>2, <3>3, Basics DEF HeaderSize
    <3>5. /\ LengthAt(buf, 0) \in Nat /\ Base + 0 = Base
          /\ LengthAt(buf, 0) = LengthAt(stream, Base + 0)
      <4>1. 0 + HeaderSize <= Len(buf)
        BY <3>4 DEF HeaderSize
      <4> QED BY <3>4, <4>1, Basics, WindowWire DEF IInv
    <3>6. Base + LengthAt(stream, Base) > fed
      BY <3>4, <3>5, Basics DEF IInv, Parked
    <3>7. CASE p = ScanPoint
      BY <3>1, <3>5, <3>6, <3>7, Basics DEF BlockAt
    <3>8. CASE p > ScanPoint
      <4>1. RuledOut(stream, Base, fed)
        BY <3>1, <3>8, Basics DEF IInv, Decided
      <4>2. buf[1] = Dollar /\ buf[2] = At /\ LengthOk(LengthAt(buf, 0))
        BY <3>1, <3>4 DEF IInv, CandidateSeen
      <4>3. stream[Base + 1] = Dollar /\ stream[Base + 2] = At
        <5>1. 1 \in 1..Len(buf) /\ 2 \in 1..Len(buf)
          BY <3>4, Basics DEF HeaderSize
        <5> QED BY <5>1, <4>2 DEF IInv, Window
      <4> QED BY <4>1, <4>2, <4>3, <3>5, <3>6, Basics DEF RuledOut
    <3> QED BY <2>1, <2>2, <3>7, <3>8, Basics
  <2> QED BY <2>3, <2>4
<1> QED BY <1>1, Inductive, PTL

\* The synchronizer implements the abstract stream specification: whatever the
\* chunks, the blocks delivered are the leftmost valid ones.
THEOREM Refinement == Spec => PromiseSpec
<1>1. Init => Promise!Init
  BY DEF Init, Promise!Init
<1>2. IInv /\ [Next]_vars => [Promise!Next]_Promise!vars
  <2> SUFFICES ASSUME IInv, [Next]_vars PROVE [Promise!Next]_Promise!vars
    OBVIOUS
  <2>1. CASE \E n \in 0..MaxChunk : Feed(n)
    <3>1. PICK n \in 0..MaxChunk : Feed(n)
      BY <2>1
    <3>2. /\ fed' = fed + n /\ fed + n <= Len(stream) /\ n \in Nat
          /\ stream' = stream /\ out' = out /\ origin' = origin
      BY <3>1, MaxChunkAssumption DEF Feed, hist
    <3>3. CASE n = 0
      BY <3>2, <3>3, Basics DEF Promise!vars
    <3>4. CASE n > 0
      <4>1. fed + n \in (fed + 1)..Len(stream)
        BY <3>2, <3>4, Basics
      <4> QED BY <3>2, <4>1 DEF Promise!Next, Promise!Arrive
    <3> QED BY <3>2, <3>3, <3>4
  <2>2. CASE Reset
    BY <2>2 DEF Reset, env, Promise!Next, Promise!GiveUp
  <2>3. CASE FrameEmitted
    <3>1. PICK p \in origin..fed :
            /\ p \in Nat /\ BlockAt(stream, p, fed)
            /\ \A q \in origin..(p - 1) : RuledOut(stream, q, fed)
            /\ out' = Append(out, [at |-> p, frame |-> FrameFields(stream, p)])
            /\ origin' = p + LengthAt(stream, p)
            /\ stream' = stream /\ fed' = fed
      BY <2>3, EmitsNext
    <3>2. /\ Promise!NextBlockAt(p)
          /\ Promise!FrameFields(stream, p) = FrameFields(stream, p)
          /\ Promise!LengthAt(stream, p) = LengthAt(stream, p)
      <4>1. \A q : RuledOut(stream, q, fed) => Promise!RuledOut(stream, q, fed)
        BY DEF RuledOut, Promise!RuledOut, HeaderSize, Promise!HeaderSize, Dollar, At,
               Promise!Dollar, Promise!At, LengthAt, Promise!LengthAt, U16, Promise!U16,
               LengthOk, Promise!LengthOk, CrcOk, Promise!CrcOk
      <4>2. Promise!BlockAt(stream, p, fed)
        BY <3>1 DEF BlockAt, Promise!BlockAt, HeaderSize, Promise!HeaderSize, Dollar, At,
               Promise!Dollar, Promise!At, LengthAt, Promise!LengthAt, U16, Promise!U16,
               LengthOk, Promise!LengthOk, CrcOk, Promise!CrcOk
      <4>3. /\ Promise!FrameFields(stream, p) = FrameFields(stream, p)
            /\ Promise!LengthAt(stream, p) = LengthAt(stream, p)
        BY DEF FrameFields, Promise!FrameFields, HeaderSize, Promise!HeaderSize,
               LengthAt, Promise!LengthAt, U16, Promise!U16
      <4> QED BY <3>1, <4>1, <4>2, <4>3 DEF Promise!NextBlockAt
    <3>3. Promise!Deliver
      BY <3>1, <3>2 DEF Promise!Deliver
    <3> QED BY <3>3 DEF Promise!Next
  <2>4. CASE Scan /\ ~FrameEmitted
    BY <2>4, ScanQuiet DEF Promise!vars
  <2>5. CASE UNCHANGED vars
    BY <2>5 DEF vars, env, hist, Promise!vars
  <2> QED BY <2>1, <2>2, <2>3, <2>4, <2>5 DEF Next
<1>3. Init /\ []IInv /\ [][Next]_vars => Promise!Init /\ [][Promise!Next]_Promise!vars
  BY <1>1, <1>2, PTL
<1> QED BY <1>3, Inductive, PTL DEF Spec, PromiseSpec, Promise!Spec

-----------------------------------------------------------------------------
(* What SbfFrameSync counts and keeps: how often a candidate is rejected,  *)
(* and how long buf_ gets.  Both come from the junk that feed() leaves in  *)
(* buf_ behind a block (frame_sync.cpp:346) and that the next call scans   *)
(* once more.  The inductive invariant, on top of IInv:                    *)

\* Delivered blocks lie before the point from which the next one is looked for.
OutBefore == \A i \in DOMAIN out : out[i].at + out[i].frame.length <= origin

\* The rejections counted are those of RejectionsAccounted, and no candidate
\* that the scan has passed is missing.
Rejected ==
  /\ \A p \in DOMAIN fails :
       fails[p] <= 2 /\ (fails[p] > 0 => BadCandidate(p) /\ ~InsideBlock(p))
  /\ \A p \in origin..(ScanPoint - 1) : BadCandidate(p) => fails[p] >= 1

\* Inside feed(): the bytes of buf_ before mark were scanned by the call
\* before as well, and ruled out.  So a block that is emitted ends behind
\* mark, and takes with it everything that has been scanned twice.
Rescan(mark) ==
  /\ mark \in Base..fed
  /\ \A q \in Base..(mark - 1) : RuledOut(stream, q, mark)
  /\ frame_drain > 0 => origin > mark
  /\ \A p \in DOMAIN fails :
       /\ p >= mark => fails[p] <= 1
       /\ p >= ScanPoint => fails[p] <= IF p < mark THEN 1 ELSE 0
  /\ Len(buf) < kMaxSbfLength + 2 * MaxChunk
  /\ Len(buf) < kMaxSbfLength + MaxChunk \/ fed - mark <= MaxChunk

\* Between two calls: what the next call scans again has been rejected at
\* most once, and is less than a block and a chunk long.
Settled ==
  /\ Len(buf) < kMaxSbfLength + 2 * MaxChunk
  /\ Len(buf) - frame_drain < kMaxSbfLength + MaxChunk
  /\ \A p \in DOMAIN fails :
       p >= Base + frame_drain => fails[p] <= IF p < ScanPoint THEN 1 ELSE 0

CInv ==
  /\ OutBefore /\ Rejected
  /\ pc = "scan" => \E mark \in Nat : Rescan(mark)
  /\ pc = "ready" => Settled

-----------------------------------------------------------------------------
(* Facts the steps share.                                                  *)

\* A sync pattern that has been ruled out is a bad candidate already.
LEMMA RuledOutSync ==
  ASSUME NEW p \in Nat, NEW n \in Nat, RuledOut(stream, p, n),
         stream[p + 1] = Dollar, stream[p + 2] = At
  PROVE  p + HeaderSize <= n
BY DEF RuledOut

\* A block does not lie where earlier bytes have ruled it out.
LEMMA BlockBehindMark ==
  ASSUME IInv, NEW mark \in Nat, Rescan(mark), NEW p \in Nat, p >= Base,
         BlockAt(stream, p, fed)
  PROVE  p >= mark
<1> SUFFICES ASSUME p < mark PROVE FALSE
  BY Basics DEF Rescan
<1>1. p \in Base..(mark - 1) /\ mark <= fed /\ fed <= Len(stream) /\ fed \in Nat
      /\ stream \in Seq(Byte)
  BY Basics DEF Rescan
<1>2. RuledOut(stream, p, mark)
  BY <1>1 DEF Rescan
<1>3. RuledOut(stream, p, fed)
  BY <1>1, <1>2, RuledOutMonotone
<1> QED BY <1>1, <1>3, BlockNotRuledOut

\* What lies at or behind origin is in none of the blocks delivered.
LEMMA NotInside ==
  ASSUME TypeOK, OutBefore, NEW p \in Nat, p >= origin
  PROVE  ~InsideBlock(p)
<1> SUFFICES ASSUME NEW i \in DOMAIN out,
                    p \in out[i].at..(out[i].at + out[i].frame.length - 1)
             PROVE  FALSE
  BY DEF InsideBlock
<1> DEFINE Entry == [at: Nat, frame: [crc: Nat, raw_id: Nat, length: Nat, body: Seq(Byte)]]
<1>1. out[i].at \in Nat /\ out[i].frame.length \in Nat /\ origin \in Nat
  <2>1. out \in Seq(Entry) /\ origin \in Nat
    BY DEF TypeOK
  <2>2. out[i] \in Entry
    <3> HIDE DEF Entry
    <3> QED BY <2>1, LenProperties, ElementOfSeq
  <2> QED BY <2>1, <2>2
<1>2. out[i].at + out[i].frame.length <= origin
  BY DEF OutBefore
<1> QED BY <1>1, <1>2

\* An iteration that leaves the bytes and the blocks alone and moves the scan
\* on by nothing, by a position that is no sync pattern, or by a bad
\* candidate that it counts.
LEMMA ScanCounts ==
  ASSUME IInv, CInv, pc = "scan", pc' = "scan",
         stream' = stream, fed' = fed, buf' = buf, out' = out, origin' = origin,
         frame_drain' = frame_drain,
         \/ fails' = fails /\ ScanPoint' = ScanPoint
         \/ /\ fails' = fails /\ ScanPoint' = ScanPoint + 1
            /\ ~(stream[ScanPoint + 1] = Dollar /\ stream[ScanPoint + 2] = At)
         \/ /\ fails' = [fails EXCEPT ![ScanPoint] = @ + 1] /\ ScanPoint' = ScanPoint + 1
            /\ BadCandidate(ScanPoint)
  PROVE  CInv'
<1> DEFINE SP == ScanPoint
<1>1. /\ SP \in Nat /\ SP' \in Nat /\ SP' \in {SP, SP + 1} /\ origin \in Nat /\ fed \in Nat
      /\ fed <= Len(stream) /\ Len(stream) \in Nat /\ origin <= SP
  BY Basics DEF IInv, Decided
<1>2. fails \in [0..(Len(stream) - 1) -> Nat] /\ DOMAIN fails = 0..(Len(stream) - 1)
  BY DEF IInv, TypeOK
<1>3. PICK mark \in Nat : Rescan(mark)
  BY DEF CInv
<1>4. Base' = Base /\ Base \in Nat
  BY Basics DEF Base
<1>5. \A p : (BadCandidate(p)' <=> BadCandidate(p)) /\ (InsideBlock(p)' <=> InsideBlock(p))
  BY DEF BadCandidate, InsideBlock
<1>6. OutBefore'
  BY DEF CInv, OutBefore
<1>7. CASE /\ fails' = fails
           /\ SP' = SP \/ ~(stream[SP + 1] = Dollar /\ stream[SP + 2] = At)
  <2>1. Rejected'
    <3>1. \A p \in DOMAIN fails' :
            fails'[p] <= 2 /\ (fails'[p] > 0 => BadCandidate(p)' /\ ~InsideBlock(p)')
      BY <1>5, <1>7 DEF CInv, Rejected
    <3>2. ASSUME NEW p \in origin..(SP' - 1), BadCandidate(p) PROVE fails[p] >= 1
      <4>1. p \in origin..(SP - 1) \/ (p = SP /\ SP' = SP + 1)
        <5>1. CASE SP' = SP
          BY <5>1
        <5>2. CASE SP' = SP + 1
          <6>1. p \in Int /\ p >= origin /\ p <= SP
            BY <1>1, <5>2
          <6> QED BY <1>1, <5>2, <6>1
        <5> QED BY <1>1, <5>1, <5>2
      <4>2. ~(p = SP /\ SP' = SP + 1)
        BY <1>1, <1>7, <3>2 DEF BadCandidate
      <4> QED BY <3>2, <4>1, <4>2 DEF CInv, Rejected
    <3> QED BY <1>5, <1>7, <3>1, <3>2 DEF Rejected
  <2>2. Rescan(mark)'
    <3>1. \A p \in DOMAIN fails' :
             /\ p >= mark => fails'[p] <= 1
             /\ p >= SP' => fails'[p] <= IF p < mark THEN 1 ELSE 0
      BY <1>1, <1>2, <1>3, <1>7 DEF Rescan
    <3> QED BY <1>3, <1>4, <3>1 DEF Rescan
  <2> QED BY <1>6, <2>1, <2>2 DEF CInv
<1>8. CASE /\ fails' = [fails EXCEPT ![SP] = @ + 1] /\ SP' = SP + 1
           /\ BadCandidate(SP)
  <2>1. SP \in DOMAIN fails
    BY <1>1, <1>2, <1>8 DEF BadCandidate, HeaderSize
  <2>2. /\ DOMAIN fails' = DOMAIN fails
        /\ fails'[SP] = fails[SP] + 1 /\ fails[SP] \in Nat
        /\ \A p \in DOMAIN fails : p # SP => fails'[p] = fails[p]
    BY <1>2, <1>8, <2>1
  <2>3. fails[SP] <= IF SP < mark THEN 1 ELSE 0
    BY <1>1, <1>3, <2>1 DEF Rescan
  <2>4. ~InsideBlock(SP)
    BY <1>1, NotInside DEF IInv, CInv
  <2>5. Rejected'
    <3>1. ASSUME NEW p \in DOMAIN fails
          PROVE  fails'[p] <= 2 /\ (fails'[p] > 0 => BadCandidate(p) /\ ~InsideBlock(p))
      <4>1. CASE p = SP
        BY <1>3, <1>8, <2>2, <2>3, <2>4, <4>1
      <4>2. CASE p # SP
        BY <2>2, <4>2 DEF CInv, Rejected
      <4> QED BY <4>1, <4>2
    <3>2. ASSUME NEW p \in origin..(SP' - 1), BadCandidate(p) PROVE fails'[p] >= 1
      <4>1. CASE p = SP
        BY <2>2, <4>1
      <4>2. CASE p # SP
        <5>1. p \in origin..(SP - 1) /\ p \in DOMAIN fails
          BY <1>1, <1>2, <1>8, <2>1, <4>2
        <5> QED BY <2>2, <3>2, <4>2, <5>1 DEF CInv, Rejected
      <4> QED BY <4>1, <4>2
    <3> QED BY <1>5, <2>2, <3>1, <3>2 DEF Rejected
  <2>6. Rescan(mark)'
    <3>1. ASSUME NEW p \in DOMAIN fails
          PROVE  /\ p >= mark => fails'[p] <= 1
                 /\ p >= SP' => fails'[p] <= IF p < mark THEN 1 ELSE 0
      <4>1. CASE p = SP
        BY <1>1, <1>3, <1>8, <2>2, <2>3, <4>1
      <4>2. CASE p # SP
        BY <1>1, <1>2, <1>3, <2>2, <4>2 DEF Rescan
      <4> QED BY <4>1, <4>2
    <3> QED BY <1>3, <1>4, <2>2, <3>1 DEF Rescan
  <2> QED BY <1>6, <2>5, <2>6 DEF CInv
<1> QED BY <1>7, <1>8

-----------------------------------------------------------------------------
(* The iterations of feed()'s loop.                                        *)

\* Iterations that decide nothing.
LEMMA UndecidedCInv ==
  ASSUME IInv, CInv, IdleFound \/ GotDollarAt \/ HeaderAccepted
  PROVE  CInv'
<1>1. /\ pc = "scan" /\ pc' = "scan" /\ stream' = stream /\ fed' = fed /\ buf' = buf
      /\ out' = out /\ origin' = origin /\ frame_drain' = frame_drain /\ fails' = fails
  BY DEF IdleFound, GotDollarAt, HeaderAccepted, HeaderComplete, Scanning, env, hist
<1>2. \/ state = "Idle" /\ state' # "Idle" /\ frame_start' = pos
      \/ state # "Idle" /\ state' # "Idle" /\ frame_start' = frame_start
  BY DEF IdleFound, GotDollarAt, HeaderAccepted, HeaderComplete, Scanning
<1>3. ScanPoint' = ScanPoint
  BY <1>1, <1>2 DEF ScanPoint, Base
<1> QED BY <1>1, <1>3, ScanCounts

\* Iterations that pass over a byte at which no sync pattern starts.
LEMMA NoiseCInv ==
  ASSUME IInv, CInv, IdleSkip \/ GotDollarDollar \/ GotDollarOther
  PROVE  CInv'
<1>1. /\ pc = "scan" /\ pc' = "scan" /\ stream' = stream /\ fed' = fed /\ buf' = buf
      /\ out' = out /\ origin' = origin /\ frame_drain' = frame_drain /\ fails' = fails
  BY DEF IdleSkip, GotDollarDollar, GotDollarOther, Scanning, env, members, hist
<1>2. CASE IdleSkip
  <2>1. /\ state = "Idle" /\ state' = "Idle" /\ pos < Len(buf) /\ buf[pos + 1] # Dollar
        /\ pos' = pos + 1
    BY <1>2 DEF IdleSkip, Scanning, members
  <2>2. ScanPoint = Base + pos /\ ScanPoint' = ScanPoint + 1
    BY <1>1, <2>1, Basics DEF ScanPoint, Base
  <2>3. stream[ScanPoint + 1] # Dollar
    BY <2>1, <2>2, WindowAt, Basics
  <2> QED BY <1>1, <2>2, <2>3, ScanCounts
<1>3. CASE GotDollarDollar \/ GotDollarOther
  <2>1. /\ state = "GotDollar" /\ frame_start + 1 < Len(buf) /\ buf[frame_start + 2] # At
        /\ \/ state' = "GotDollar" /\ frame_start' = frame_start + 1
           \/ state' = "Idle" /\ pos' = frame_start + 1
    BY <1>3 DEF GotDollarDollar, GotDollarOther, Resync, ResyncPos, Scanning, members, At, Dollar
  <2>2. ScanPoint = Base + frame_start /\ ScanPoint' = ScanPoint + 1
    BY <1>1, <2>1, Basics, SMTT(20) DEF ScanPoint, Base
  <2>3. stream[ScanPoint + 2] # At
    <3>1. /\ frame_start + 1 \in Nat /\ frame_start + 1 + 1 = frame_start + 2
          /\ Base + (frame_start + 1) + 1 = Base + frame_start + 2
      BY Basics, SMTT(20)
    <3>2. buf[(frame_start + 1) + 1] = stream[Base + (frame_start + 1) + 1]
      BY <2>1, <3>1, WindowAt
    <3> QED BY <2>1, <2>2, <3>1, <3>2
  <2> QED BY <1>1, <2>2, <2>3, ScanCounts
<1> QED BY <1>2, <1>3

\* What the two rejections count is a bad candidate.
LEMMA RejectedCInv ==
  ASSUME IInv, CInv, HeaderRejected \/ BodyRejected
  PROVE  CInv'
<1>1. /\ pc = "scan" /\ pc' = "scan" /\ stream' = stream /\ fed' = fed /\ buf' = buf
      /\ out' = out /\ origin' = origin /\ frame_drain' = frame_drain
      /\ fails' = [fails EXCEPT ![Base + frame_start] = @ + 1]
      /\ state \in {"ReadingHeader", "ReadingBody"} /\ state' = "Idle"
      /\ pos' = frame_start + 1
  BY DEF HeaderRejected, BodyRejected, HeaderComplete, BodyComplete, Resync, ResyncPos,
         Scanning, env
<1>2. ScanPoint = Base + frame_start /\ ScanPoint' = ScanPoint + 1
  BY <1>1, Basics DEF ScanPoint, Base
<1>3. /\ frame_start + HeaderSize <= Len(buf)
      /\ buf[frame_start + 1] = Dollar /\ buf[frame_start + 2] = At
  BY <1>1 DEF IInv, CandidateSeen, HeaderRejected, BodyRejected, HeaderComplete, BodyComplete,
              Scanning
<1>4. ScanPoint + HeaderSize <= fed
  BY <1>2, <1>3, Basics, SMTT(20) DEF HeaderSize
<1>5. stream[ScanPoint + 1] = Dollar /\ stream[ScanPoint + 2] = At
  <2>0. frame_start + 8 <= Len(buf) /\ frame_start \in Nat /\ Len(buf) \in Nat /\ Base \in Nat
    BY <1>3, Basics DEF HeaderSize
  <2>1. /\ frame_start \in Nat /\ frame_start < Len(buf)
        /\ frame_start + 1 \in Nat /\ frame_start + 1 < Len(buf)
        /\ frame_start + 1 + 1 = frame_start + 2
        /\ Base + (frame_start + 1) + 1 = Base + frame_start + 2
    BY <2>0
  <2>2. /\ buf[frame_start + 1] = stream[Base + frame_start + 1]
        /\ buf[(frame_start + 1) + 1] = stream[Base + (frame_start + 1) + 1]
    BY <2>1, WindowAt
  <2> QED BY <1>2, <1>3, <2>1, <2>2
<1>6. RuledOut(stream, ScanPoint, fed)
  <2>0. frame_start \in Nat
    BY Basics
  <2>1. /\ LengthAt(buf, frame_start) \in Nat
        /\ LengthAt(buf, frame_start) = LengthAt(stream, ScanPoint)
        /\ frame_start + LengthAt(buf, frame_start) <= Len(buf) =>
             (CrcOk(buf, frame_start) <=> CrcOk(stream, ScanPoint))
    BY <1>2, <1>3, <2>0, WindowWire DEF IInv
  <2>2. CASE HeaderRejected
    BY <1>4, <2>1, <2>2 DEF HeaderRejected, RuledOut
  <2>3. CASE BodyRejected
    <3>1. /\ frame_start + LengthAt(buf, frame_start) <= Len(buf)
          /\ ~CrcOk(buf, frame_start) /\ state = "ReadingBody"
      BY <2>3 DEF BodyRejected, BodyComplete, Scanning
    <3>2. LengthOk(LengthAt(stream, ScanPoint))
      BY <2>1, <3>1 DEF IInv, CandidateSeen
    <3>3. ScanPoint + LengthAt(stream, ScanPoint) <= fed
      BY <1>2, <2>1, <3>1, Basics, SMTT(20)
    <3> QED BY <1>4, <2>1, <3>1, <3>2, <3>3 DEF RuledOut
  <2> QED BY <2>2, <2>3
<1>7. BadCandidate(ScanPoint)
  BY <1>4, <1>5, <1>6 DEF BadCandidate
<1> QED BY <1>1, <1>2, <1>7, ScanCounts

\* A block that is emitted covers no rejected candidate, and ends behind what
\* has been scanned twice.
LEMMA FrameEmittedCInv ==
  ASSUME IInv, CInv, FrameEmitted
  PROVE  CInv'
<1> DEFINE SP == ScanPoint
           len == LengthAt(buf, frame_start)
           block == [at |-> Base + frame_start, frame |-> FrameFields(buf, frame_start)]
<1>1. /\ pc = "scan" /\ state = "ReadingBody" /\ pc' = "scan" /\ state' = "Idle"
      /\ stream' = stream /\ fed' = fed /\ buf' = buf /\ fails' = fails
      /\ out' = Append(out, block) /\ origin' = Base + frame_start + len
      /\ frame_drain' = frame_start + len /\ pos' = frame_start + len
  BY DEF FrameEmitted, BodyComplete, Scanning, DrainAfterBlock, env
<1>2. SP = Base + frame_start /\ BlockAt(stream, SP, fed)
  BY EmittedIsBlock
<1>3. len \in Nat /\ len >= 1
  <2>1. LengthOk(len)
    BY <1>1 DEF IInv, CandidateSeen
  <2> QED BY <2>1, EmittedIsBlock DEF LengthOk, HeaderSize
<1>4. block.at = SP /\ block.frame.length = len
  BY <1>2 DEF FrameFields
<1> HIDE DEF len, block
<1>5. /\ SP \in Nat /\ Base \in Nat /\ origin \in Nat /\ frame_start \in Nat /\ SP >= Base
      /\ fed \in Nat /\ Len(buf) \in Nat
      /\ Base' = Base /\ SP' = SP + len /\ origin' = SP + len /\ origin <= SP
  <2>1. /\ SP \in Nat /\ Base \in Nat /\ origin \in Nat /\ frame_start \in Nat
        /\ fed \in Nat /\ Len(buf) \in Nat
    BY Basics
  <2>2. Base' = Base
    BY <1>1 DEF Base
  <2>3. SP' = Base' + (frame_start + len)
    BY <1>1 DEF ScanPoint
  <2>4. origin <= SP
    BY DEF IInv, Decided
  <2> HIDE DEF SP
  <2> QED BY <1>1, <1>2, <1>3, <2>1, <2>2, <2>3, <2>4
<1> DEFINE Entry == [at: Nat, frame: [crc: Nat, raw_id: Nat, length: Nat, body: Seq(Byte)]]
<1>6. /\ DOMAIN out' = (DOMAIN out) \cup {Len(out) + 1}
      /\ Len(out) + 1 \in DOMAIN out' /\ out'[Len(out) + 1] = block
      /\ \A i \in DOMAIN out : out'[i] = out[i] /\ out[i].at \in Nat /\ out[i].frame.length \in Nat
  <2>1. out \in Seq(Entry)
    BY DEF IInv, TypeOK
  <2>2. \A i \in DOMAIN out : out[i] \in Entry
    <3> HIDE DEF Entry
    <3> QED BY <2>1, LenProperties, ElementOfSeq
  <2>3. /\ Len(out) \in Nat /\ DOMAIN out = 1..Len(out)
        /\ DOMAIN out' = 1..(Len(out) + 1)
        /\ out'[Len(out) + 1] = block
        /\ \A i \in 1..Len(out) : out'[i] = out[i]
    <3> HIDE DEF Entry
    <3> QED BY <1>1, <2>1, LenProperties
  <2>4. \A i \in DOMAIN out : out[i].at \in Nat /\ out[i].frame.length \in Nat
    BY <2>2
  <2> HIDE DEF Entry
  <2> QED BY <2>3, <2>4
<1> HIDE DEF Entry
<1>7. PICK mark \in Nat : Rescan(mark)
  BY <1>1 DEF CInv
<1>8. SP >= mark
  BY <1>2, <1>5, <1>7, BlockBehindMark
<1>9. OutBefore'
  <2> SUFFICES ASSUME NEW i \in DOMAIN out' PROVE out'[i].at + out'[i].frame.length <= SP + len
    BY <1>5 DEF OutBefore
  <2>1. CASE i \in DOMAIN out
    <3>1. out[i].at + out[i].frame.length <= origin
      BY <2>1 DEF CInv, OutBefore
    <3> QED BY <1>3, <1>5, <1>6, <2>1, <3>1
  <2>2. CASE i = Len(out) + 1
    BY <1>3, <1>4, <1>5, <1>6, <2>2
  <2> QED BY <1>6, <2>1, <2>2
<1>10. Rejected'
  <2>1. ASSUME NEW p \in DOMAIN fails
        PROVE  fails[p] <= 2 /\ (fails[p] > 0 => BadCandidate(p)' /\ ~InsideBlock(p)')
    <3>1. fails[p] <= 2 /\ (fails[p] > 0 => BadCandidate(p) /\ ~InsideBlock(p))
      BY DEF CInv, Rejected
    <3>2. BadCandidate(p)' <=> BadCandidate(p)
      BY <1>1 DEF BadCandidate
    <3>3. ASSUME fails[p] > 0, NEW i \in DOMAIN out',
                 p \in out'[i].at..(out'[i].at + out'[i].frame.length - 1)
          PROVE  FALSE
      <4>1. CASE i \in DOMAIN out
        BY <1>6, <3>1, <3>3, <4>1 DEF InsideBlock
      <4>2. CASE i = Len(out) + 1
        <5>1. p >= SP
          BY <1>3, <1>4, <1>5, <1>6, <3>3, <4>2
        <5>2. p \in Nat /\ fails[p] \in Nat
          <6>1. fails \in [0..(Len(stream) - 1) -> Nat]
            BY DEF IInv, TypeOK
          <6> QED BY <6>1
        <5>3. fails[p] <= 0
          BY <1>5, <1>7, <1>8, <5>1, <5>2 DEF Rescan
        <5> QED BY <3>3, <5>2, <5>3
      <4> QED BY <1>6, <4>1, <4>2
    <3> QED BY <3>1, <3>2, <3>3 DEF InsideBlock
  <2>2. origin'..(SP' - 1) = {}
    BY <1>3, <1>5
  <2> QED BY <1>1, <2>1, <2>2 DEF Rejected
<1>11. Rescan(mark)'
  <2>1. \A p \in DOMAIN fails :
          /\ p >= mark => fails[p] <= 1
          /\ p >= SP + len => fails[p] <= IF p < mark THEN 1 ELSE 0
    <3>1. \A p \in DOMAIN fails : p \in Nat
      BY DEF IInv, TypeOK
    <3> QED BY <1>3, <1>5, <1>7, <3>1 DEF Rescan
  <2>2. origin' > mark
    BY <1>3, <1>5, <1>8
  <2>3. /\ mark \in Base..fed
        /\ \A q \in Base..(mark - 1) : RuledOut(stream, q, mark)
        /\ Len(buf) < kMaxSbfLength + 2 * MaxChunk
        /\ Len(buf) < kMaxSbfLength + MaxChunk \/ fed - mark <= MaxChunk
    BY <1>7 DEF Rescan
  <2> QED BY <1>1, <1>5, <2>1, <2>2, <2>3 DEF Rescan
<1> QED BY <1>1, <1>9, <1>10, <1>11 DEF CInv

-----------------------------------------------------------------------------
(* Entering and leaving feed(), and reset().                               *)

\* A candidate that feed() leaves in buf_ is undecided.
LEMMA ParkedUndecided ==
  IInv /\ pc = "ready" /\ state # "Idle" => ~RuledOut(stream, ScanPoint, fed)
<1> SUFFICES ASSUME IInv, pc = "ready", state # "Idle" PROVE ~RuledOut(stream, ScanPoint, fed)
  OBVIOUS
<1>1. frame_start = 0 /\ ScanPoint = Base /\ Base \in Nat /\ Len(buf) \in Nat
      /\ fed = Base + Len(buf)
  BY Basics DEF IInv, Parked, ScanPoint
<1>2. Len(buf) > 0 /\ buf[1] = Dollar
  BY <1>1 DEF IInv, CandidateSeen
<1>3. stream[Base + 1] = Dollar
  BY <1>1, <1>2 DEF IInv, Window
<1>4. CASE state = "GotDollar"
  BY <1>1, <1>3, <1>4 DEF IInv, Parked, RuledOut, HeaderSize
<1>5. CASE state \in {"ReadingHeader", "ReadingBody"}
  <2>1. 1 < Len(buf) /\ buf[2] = At
    BY <1>1, <1>5 DEF IInv, CandidateSeen
  <2>2. stream[Base + 2] = At
    BY <1>1, <2>1 DEF IInv, Window
  <2>3. CASE state = "ReadingHeader"
    BY <1>1, <1>3, <2>2, <2>3 DEF IInv, Parked, RuledOut, HeaderSize
  <2>4. CASE state = "ReadingBody"
    <3>1. /\ 0 + HeaderSize <= Len(buf) /\ LengthOk(LengthAt(buf, 0))
          /\ Len(buf) < LengthAt(buf, 0)
      BY <1>1, <2>4 DEF IInv, CandidateSeen, Parked
    <3>2. LengthAt(buf, 0) \in Nat /\ LengthAt(buf, 0) = LengthAt(stream, Base + 0)
          /\ Base + 0 = Base
      BY <1>1, <3>1, WindowWire DEF IInv
    <3>3. Base + LengthAt(stream, Base) > fed /\ LengthOk(LengthAt(stream, Base))
      BY <1>1, <3>1, <3>2
    <3> QED BY <1>1, <1>3, <2>2, <3>2, <3>3 DEF RuledOut
  <2> QED BY <1>5, <2>3, <2>4
<1> QED BY <1>4, <1>5 DEF IInv, TypeOK, State

\* Without a pending drain feed() leaves less than a block in buf_.
LEMMA ParkedBound ==
  IInv /\ pc = "ready" /\ frame_drain = 0 => Len(buf) < kMaxSbfLength
<1> SUFFICES ASSUME IInv, pc = "ready", frame_drain = 0 PROVE Len(buf) < kMaxSbfLength
  OBVIOUS
<1>1. Len(buf) \in Nat /\ kMaxSbfLength \in Nat /\ kMaxSbfLength >= 8
  BY Basics, MaxLengthAssumption
<1>2. CASE state \in {"Idle", "GotDollar", "ReadingHeader"}
  BY <1>1, <1>2 DEF IInv, Parked, HeaderSize
<1>3. CASE state = "ReadingBody"
  <2>1. /\ 0 + HeaderSize <= Len(buf) /\ LengthOk(LengthAt(buf, 0))
        /\ Len(buf) < LengthAt(buf, 0)
    BY <1>3 DEF IInv, CandidateSeen, Parked
  <2>2. LengthAt(buf, 0) \in Nat /\ LengthAt(buf, 0) <= kMaxSbfLength
    BY <2>1, WindowWire DEF IInv, LengthOk
  <2> QED BY <1>1, <2>1, <2>2
<1> QED BY <1>2, <1>3 DEF IInv, TypeOK, State

\* A position that has been rejected has its header in the bytes received.
LEMMA RejectedBefore ==
  ASSUME IInv, CInv, NEW p \in DOMAIN fails, p >= fed
  PROVE  fails[p] = 0
<1>1. p \in Nat /\ fails[p] \in Nat /\ fed \in Nat
  <2>1. fails \in [0..(Len(stream) - 1) -> Nat] /\ fed \in Nat
    BY Basics DEF IInv, TypeOK
  <2> QED BY <2>1
<1>2. ~BadCandidate(p)
  BY <1>1 DEF BadCandidate, HeaderSize
<1> QED BY <1>1, <1>2 DEF CInv, Rejected

\* Leaving feed(): what stays in buf_ behind a block was scanned for the
\* first time in this call, and is shorter than the chunk.
LEMMA FeedReturnCInv ==
  ASSUME IInv, CInv, FeedReturn
  PROVE  CInv'
<1>1. /\ pc = "scan" /\ pc' = "ready" /\ frame_drain' = ExitDrain /\ Stalled
      /\ stream' = stream /\ fed' = fed /\ state' = state
      /\ out' = out /\ origin' = origin /\ fails' = fails
  BY DEF FeedReturn, Stalled, env, hist
<1>2. /\ ExitErase \in Nat /\ Len(buf') = Len(buf) - ExitErase /\ Len(buf') \in Nat
      /\ Base' = Base + ExitErase /\ ScanPoint' = ScanPoint
  BY ReturnWindow
<1>3. /\ Base \in Nat /\ Len(buf) \in Nat /\ Base + Len(buf) = fed /\ fed \in Nat
      /\ frame_start \in Nat /\ frame_drain \in Nat /\ origin \in Nat /\ ScanPoint \in Nat
      /\ fed <= Len(stream) /\ Len(stream) \in Nat /\ stream \in Seq(Byte) /\ ScanPoint <= fed
      /\ kMaxSbfLength \in Nat /\ MaxChunk \in Nat /\ kMaxSbfLength >= 8
  BY Basics, MaxLengthAssumption, MaxChunkAssumption
<1>4. IInv'
  BY FeedReturnIInv
<1>5. /\ frame_drain' = 0 => Len(buf') < kMaxSbfLength
      /\ state' # "Idle" => ~RuledOut(stream', ScanPoint', fed')
  <2>1. (IInv /\ pc = "ready" /\ frame_drain = 0 => Len(buf) < kMaxSbfLength)'
    BY ParkedBound, PTL
  <2>2. (IInv /\ pc = "ready" /\ state # "Idle" => ~RuledOut(stream, ScanPoint, fed))'
    BY ParkedUndecided, PTL
  <2> QED BY <1>1, <1>4, <2>1, <2>2
<1>6. OutBefore' /\ Rejected'
  BY <1>1, <1>2 DEF CInv, OutBefore, Rejected, BadCandidate, InsideBlock
<1>7. PICK mark \in Nat : Rescan(mark)
  BY <1>1 DEF CInv
<1>8. \A p \in DOMAIN fails : p \in Nat /\ fails[p] \in Nat /\ (p >= fed => fails[p] = 0)
  <2>1. fails \in [0..(Len(stream) - 1) -> Nat]
    BY DEF IInv, TypeOK
  <2> QED BY <1>3, <2>1, RejectedBefore
<1>9. Len(buf') < kMaxSbfLength + 2 * MaxChunk
  BY <1>2, <1>3, <1>7 DEF Rescan
<1>10. CASE state # "Idle"
  <2>1. ScanPoint = Base + frame_start /\ ExitErase = frame_start
    BY <1>10 DEF ScanPoint, ExitErase
  <2>2. ExitDrain = 0
    BY <1>10, <1>3, <2>1 DEF ExitDrain, IInv, DrainEnds
  <2>3. ScanPoint >= mark
    <3> SUFFICES ASSUME ScanPoint < mark PROVE FALSE
      BY <1>3
    <3>1. RuledOut(stream, ScanPoint, mark) /\ mark <= fed
      BY <1>3, <1>7, <2>1 DEF Rescan
    <3>2. RuledOut(stream, ScanPoint, fed)
      BY <1>3, <3>1, RuledOutMonotone
    <3> QED BY <1>1, <1>2, <1>5, <1>10, <3>2
  <2>4. \A p \in DOMAIN fails : p >= ScanPoint => fails[p] <= 0
    BY <1>3, <1>7, <1>8, <2>3 DEF Rescan
  <2>5. Settled'
    BY <1>1, <1>2, <1>3, <1>5, <1>8, <1>9, <2>1, <2>2, <2>4 DEF Settled
  <2> QED BY <1>1, <1>6, <2>5 DEF CInv
<1>11. CASE state = "Idle" /\ frame_drain = 0
  <2>1. ExitErase = Len(buf) /\ ExitDrain = 0
    BY <1>1, <1>11, Basics DEF ExitErase, ExitDrain, Stalled
  <2>2. Base' = fed
    BY <1>2, <1>3, <2>1
  <2>3. Settled'
    BY <1>1, <1>2, <1>3, <1>5, <1>8, <1>9, <2>1, <2>2 DEF Settled
  <2> QED BY <1>1, <1>6, <2>3 DEF CInv
<1>12. CASE state = "Idle" /\ frame_drain > 0
  <2>1. ExitErase = 0 /\ ExitDrain = frame_drain /\ ScanPoint = fed
    <3>1. ScanPoint = Base + pos /\ pos = Len(buf)
      BY <1>1, <1>12, Basics DEF ScanPoint, Stalled
    <3> QED BY <1>3, <1>12, <3>1 DEF ExitErase, ExitDrain
  <2>2. origin = Base + frame_drain /\ origin > mark
    BY <1>7, <1>12 DEF IInv, DrainEnds, Rescan
  <2>3. Len(buf) - frame_drain < kMaxSbfLength + MaxChunk
    <3>1. CASE Len(buf) < kMaxSbfLength + MaxChunk
      BY <1>3, <3>1
    <3>2. CASE fed - mark <= MaxChunk
      BY <1>3, <2>2, <3>2
    <3> QED BY <1>7, <3>1, <3>2 DEF Rescan
  <2>4. \A p \in DOMAIN fails : p >= origin => fails[p] <= IF p < fed THEN 1 ELSE 0
    BY <1>3, <1>7, <1>8, <2>2 DEF Rescan
  <2>5. /\ Base' = Base /\ Len(buf') = Len(buf) /\ frame_drain' = frame_drain
        /\ ScanPoint' = fed
    BY <1>1, <1>2, <1>3, <2>1
  <2>6. Settled'
    BY <1>1, <1>9, <2>2, <2>3, <2>4, <2>5 DEF Settled
  <2> QED BY <1>1, <1>6, <2>6 DEF CInv
<1> QED BY <1>3, <1>10, <1>11, <1>12

\* Entering feed(): the drain goes, the chunk is appended, and the scan is at
\* the front of buf_.
LEMMA FeedWindow ==
  ASSUME IInv, NEW n \in 0..MaxChunk, Feed(n)
  PROVE  /\ frame_drain \in 0..Len(buf) /\ Len(buf') = Len(buf) - frame_drain + n
         /\ Base' = Base + frame_drain /\ ScanPoint' = Base'
<1>1. /\ fed + n <= Len(stream) /\ fed' = fed + n /\ pos' = 0 /\ frame_start' = 0 /\ pc' = "scan"
      /\ buf' = EraseFront(frame_drain) \o SubSeq(stream, fed + 1, fed + n)
  BY DEF Feed
<1>2. /\ Len(buf) \in Nat /\ stream \in Seq(Byte) /\ Len(stream) \in Nat /\ n \in Nat
      /\ fed \in Nat /\ Base \in Nat /\ Base + Len(buf) = fed /\ frame_drain \in Nat
      /\ ScanPoint \in Nat /\ ScanPoint <= fed
  BY Basics, MaxChunkAssumption
<1>3. frame_drain \in 0..Len(buf)
  BY <1>2 DEF IInv, DrainEnds
<1>4. EraseFront(frame_drain) \in Seq(Byte) /\ Len(EraseFront(frame_drain)) = Len(buf) - frame_drain
  BY <1>3, EraseFrontProperties DEF IInv
<1>5. /\ SubSeq(stream, fed + 1, fed + n) \in Seq(Byte)
      /\ Len(SubSeq(stream, fed + 1, fed + n)) = n
  <2>1. \A i \in (fed + 1)..(fed + n) : i \in 1..Len(stream)
    BY <1>1, <1>2
  <2>2. \A i \in (fed + 1)..(fed + n) : stream[i] \in Byte
    BY <1>2, <2>1, ElementOfSeq
  <2>3. fed + 1 \in Int /\ fed + n \in Int
    BY <1>2
  <2>4. /\ SubSeq(stream, fed + 1, fed + n) \in Seq(Byte)
        /\ Len(SubSeq(stream, fed + 1, fed + n)) =
             IF fed + 1 <= fed + n THEN (fed + n) - (fed + 1) + 1 ELSE 0
    BY <2>2, <2>3, SubSeqProperties
  <2> QED BY <1>2, <2>4
<1>6. Len(buf') = Len(buf) - frame_drain + n
  BY <1>1, <1>4, <1>5, ConcatProperties
<1>7. Base' = Base + frame_drain
  <2>1. Base' = fed' - Len(buf') /\ fed' = fed + n
    BY <1>1 DEF Base
  <2> QED BY <1>2, <1>3, <1>6, <2>1
<1>8. ScanPoint' = Base' + 0
  BY <1>1 DEF ScanPoint
<1> QED BY <1>2, <1>3, <1>6, <1>7, <1>8

\* The call that begins scans what the last one left behind a block again;
\* without a drain nothing in buf_ has been decided.
LEMMA FeedCInv ==
  ASSUME IInv, CInv, NEW n \in 0..MaxChunk, Feed(n)
  PROVE  CInv'
<1>1. /\ pc = "ready" /\ pc' = "scan" /\ fed' = fed + n /\ fed + n <= Len(stream)
      /\ frame_drain' = 0
      /\ stream' = stream /\ out' = out /\ origin' = origin /\ fails' = fails
  BY DEF Feed, hist
<1>2. /\ frame_drain \in 0..Len(buf) /\ Len(buf') = Len(buf) - frame_drain + n
      /\ Base' = Base + frame_drain /\ ScanPoint' = Base'
  BY FeedWindow
<1>3. /\ Base \in Nat /\ Len(buf) \in Nat /\ Base + Len(buf) = fed /\ fed \in Nat
      /\ frame_drain \in Nat /\ origin \in Nat /\ ScanPoint \in Nat /\ n \in Nat /\ n <= MaxChunk
      /\ Len(stream) \in Nat /\ stream \in Seq(Byte) /\ ScanPoint <= fed
      /\ kMaxSbfLength \in Nat /\ MaxChunk \in Nat
  BY Basics, MaxLengthAssumption, MaxChunkAssumption
<1>4. Settled
  BY <1>1 DEF CInv
<1>5. \A p \in DOMAIN fails : p \in Nat /\ fails[p] \in Nat /\ (p >= fed => fails[p] = 0)
  <2>1. fails \in [0..(Len(stream) - 1) -> Nat]
    BY DEF IInv, TypeOK
  <2> QED BY <1>3, <2>1, RejectedBefore
<1>6. Base' <= ScanPoint
  BY <1>2, <1>3 DEF IInv, DrainEnds
<1>7. ASSUME NEW p \in Nat, p < ScanPoint, p >= origin
      PROVE  BadCandidate(p)' => BadCandidate(p)
  <2> SUFFICES ASSUME BadCandidate(p)' PROVE BadCandidate(p)
    OBVIOUS
  <2>1. stream[p + 1] = Dollar /\ stream[p + 2] = At
    BY <1>1 DEF BadCandidate
  <2>2. RuledOut(stream, p, fed)
    BY <1>3, <1>7 DEF IInv, Decided
  <2> QED BY <1>3, <2>1, <2>2, RuledOutSync DEF BadCandidate
<1>8. ASSUME NEW p \in Nat, BadCandidate(p) PROVE BadCandidate(p)'
  <2>1. RuledOut(stream, p, fed + n)
    BY <1>1, <1>3, <1>8, RuledOutMonotone DEF BadCandidate
  <2> QED BY <1>1, <1>3, <1>8, <2>1 DEF BadCandidate, HeaderSize
<1>9. OutBefore'
  BY <1>1 DEF CInv, OutBefore
<1>10. Rejected'
  <2>1. \A p : InsideBlock(p)' <=> InsideBlock(p)
    BY <1>1 DEF InsideBlock
  <2>2. \A p \in DOMAIN fails :
          fails[p] <= 2 /\ (fails[p] > 0 => BadCandidate(p)' /\ ~InsideBlock(p)')
    BY <1>5, <1>8, <2>1 DEF CInv, Rejected
  <2>3. ASSUME NEW p \in origin..(ScanPoint' - 1), BadCandidate(p)' PROVE fails[p] >= 1
    <3>1. p \in Nat /\ p \in origin..(ScanPoint - 1)
      BY <1>2, <1>3, <1>6
    <3>2. BadCandidate(p)
      BY <1>3, <1>7, <2>3, <3>1
    <3> QED BY <3>1, <3>2 DEF CInv, Rejected
  <2> QED BY <1>1, <2>2, <2>3 DEF Rejected
<1>11. CASE frame_drain = 0
  <2>1. ScanPoint = Base
    <3>1. CASE state = "Idle"
      <4>1. Len(buf) = 0
        BY <1>1, <1>11, <3>1 DEF IInv, Parked
      <4> QED BY <1>1, <1>3, <3>1, <4>1 DEF ScanPoint
    <3>2. CASE state # "Idle"
      <4>1. ScanPoint = Base + frame_start /\ frame_start = 0
        BY <1>1, <3>2 DEF ScanPoint, IInv, Parked
      <4> QED BY <1>3, <4>1
    <3> QED BY <3>1, <3>2
  <2>2. \A p \in DOMAIN fails : p >= Base => fails[p] <= 0
    BY <1>3, <1>4, <1>5, <1>11, <2>1 DEF Settled
  <2>3. Base' = Base /\ Base \in Base'..fed' /\ Base'..(Base - 1) = {}
    BY <1>1, <1>2, <1>3, <1>11
  <2>4. Len(buf') < kMaxSbfLength + MaxChunk
    <3>1. Len(buf) < kMaxSbfLength
      BY <1>1, <1>11, ParkedBound
    <3> QED BY <1>2, <1>3, <1>11, <3>1
  <2>5. Rescan(Base)'
    <3>1. Len(buf') < kMaxSbfLength + 2 * MaxChunk
      BY <1>2, <1>3, <2>4
    <3>2. \A p \in DOMAIN fails :
             /\ p >= Base' => fails[p] <= 1
             /\ p >= ScanPoint' => fails[p] <= IF p < Base' THEN 1 ELSE 0
      BY <1>2, <1>3, <1>5, <2>2, <2>3
    <3> QED BY <1>1, <2>3, <2>4, <3>1, <3>2 DEF Rescan
  <2>6. \E mark \in Nat : Rescan(mark)'
    BY <1>3, <2>3, <2>5
  <2> QED BY <1>1, <1>9, <1>10, <2>6 DEF CInv
<1>12. CASE frame_drain > 0
  <2>1. state = "Idle"
    <3> SUFFICES ASSUME state # "Idle" PROVE FALSE
      OBVIOUS
    <3>1. ScanPoint = Base
      BY <1>1, <1>3 DEF ScanPoint, IInv, Parked
    <3> QED BY <1>3, <1>12, <3>1 DEF IInv, DrainEnds
  <2>2. ScanPoint = fed /\ Base' = origin
    BY <1>1, <1>2, <1>3, <1>12, <2>1 DEF ScanPoint, IInv, DrainEnds
  <2>3. \A q \in Base'..(fed - 1) : RuledOut(stream, q, fed)
    BY <2>2 DEF IInv, Decided
  <2>4. \A p \in DOMAIN fails :
          /\ p >= fed => fails[p] <= 1
          /\ p >= ScanPoint' => fails[p] <= IF p < fed THEN 1 ELSE 0
    BY <1>2, <1>3, <1>4, <1>5, <2>2 DEF Settled
  <2>5. Len(buf') < kMaxSbfLength + 2 * MaxChunk
    BY <1>2, <1>3, <1>4 DEF Settled
  <2>6. fed \in Base'..fed' /\ fed' - fed <= MaxChunk
    BY <1>1, <1>2, <1>3, <1>6, <2>2
  <2>7. \E mark \in Nat : Rescan(mark)'
    <3> DEFINE old == fed
    <3>0. /\ old \in Nat /\ old \in Base'..fed' /\ fed' - old <= MaxChunk
          /\ \A q \in Base'..(old - 1) : RuledOut(stream, q, old)
          /\ \A p \in DOMAIN fails :
               /\ p >= old => fails[p] <= 1
               /\ p >= ScanPoint' => fails[p] <= IF p < old THEN 1 ELSE 0
      BY <1>3, <2>3, <2>4, <2>6
    <3>1. PICK mark \in Nat :
            /\ mark \in Base'..fed' /\ fed' - mark <= MaxChunk
            /\ \A q \in Base'..(mark - 1) : RuledOut(stream, q, mark)
            /\ \A p \in DOMAIN fails :
                 /\ p >= mark => fails[p] <= 1
                 /\ p >= ScanPoint' => fails[p] <= IF p < mark THEN 1 ELSE 0
      <4> HIDE DEF old
      <4> QED BY <3>0
    <3>2. Rescan(mark)'
      BY <1>1, <2>5, <3>1 DEF Rescan
    <3> QED BY <3>2
  <2> QED BY <1>1, <1>9, <1>10, <2>7 DEF CInv
<1> QED BY <1>3, <1>11, <1>12

\* reset() starts behind everything that has been counted.
LEMMA ResetCInv ==
  ASSUME IInv, CInv, Reset
  PROVE  CInv'
<1>1. /\ pc = "ready" /\ pc' = "ready" /\ buf' = <<>> /\ state' = "Idle"
      /\ frame_drain' = 0 /\ origin' = fed /\ stream' = stream /\ fed' = fed
      /\ out' = out /\ fails' = fails
  BY DEF Reset, env, locals
<1>2. /\ fed \in Nat /\ origin \in Nat /\ ScanPoint \in Nat /\ ScanPoint <= fed /\ origin <= fed
      /\ kMaxSbfLength \in Nat /\ MaxChunk \in Nat /\ kMaxSbfLength >= 8
  BY Basics, MaxLengthAssumption, MaxChunkAssumption DEF IInv, Decided
<1>3. Len(buf') = 0 /\ Base' = fed /\ ScanPoint' = fed
  BY <1>1, <1>2, EmptySeq DEF Base, ScanPoint
<1>4. OutBefore'
  <2> SUFFICES ASSUME NEW i \in DOMAIN out PROVE out[i].at + out[i].frame.length <= fed
    BY <1>1 DEF OutBefore
  <2> DEFINE Entry == [at: Nat, frame: [crc: Nat, raw_id: Nat, length: Nat, body: Seq(Byte)]]
  <2>1. out \in Seq(Entry)
    BY DEF IInv, TypeOK
  <2>2. out[i] \in Entry
    <3> HIDE DEF Entry
    <3> QED BY <2>1, LenProperties, ElementOfSeq
  <2>3. out[i].at \in Nat /\ out[i].frame.length \in Nat
    BY <2>2
  <2>4. out[i].at + out[i].frame.length <= origin
    BY DEF CInv, OutBefore
  <2> QED BY <1>2, <2>3, <2>4
<1>5. Rejected'
  <2>1. \A p : (BadCandidate(p)' <=> BadCandidate(p)) /\ (InsideBlock(p)' <=> InsideBlock(p))
    BY <1>1 DEF BadCandidate, InsideBlock
  <2>2. origin'..(ScanPoint' - 1) = {}
    BY <1>1, <1>2, <1>3
  <2> QED BY <1>1, <2>1, <2>2 DEF CInv, Rejected
<1>6. Settled'
  <2>1. \A p \in DOMAIN fails : p \in Nat /\ (p >= fed => fails[p] = 0)
    <3>1. fails \in [0..(Len(stream) - 1) -> Nat]
      BY DEF IInv, TypeOK
    <3> QED BY <1>2, <3>1, RejectedBefore
  <2> QED BY <1>1, <1>2, <1>3, <2>1 DEF Settled
<1> QED BY <1>1, <1>4, <1>5, <1>6 DEF CInv

-----------------------------------------------------------------------------
(* The theorems.                                                           *)

\* A fresh synchronizer has counted nothing.
LEMMA InitCInv == Init => CInv
<1> SUFFICES ASSUME Init PROVE CInv
  OBVIOUS
<1>1. IInv
  BY InitIInv
<1>2. /\ fed = 0 /\ buf = <<>> /\ Len(buf) = 0 /\ state = "Idle" /\ pc = "ready" /\ origin = 0
      /\ frame_drain = 0 /\ out = <<>> /\ DOMAIN out = {}
      /\ fails = [p \in 0..(Len(stream) - 1) |-> 0]
  BY EmptySeq DEF Init
<1>3. Base = 0 /\ ScanPoint = 0
  <2>1. fed = 0 /\ Len(buf) = 0 /\ state = "Idle" /\ pc = "ready"
    BY <1>2
  <2> QED BY <2>1 DEF Base, ScanPoint
<1>4. OutBefore
  BY <1>2 DEF OutBefore
<1>5. Rejected
  BY <1>2, <1>3 DEF Rejected
<1>6. Settled
  BY <1>2, <1>3, MaxLengthAssumption, MaxChunkAssumption DEF Settled
<1> QED BY <1>2, <1>4, <1>5, <1>6 DEF CInv

\* Every step of the caller or of feed() keeps the invariant.
LEMMA NextCInv == IInv /\ CInv /\ [Next]_vars => CInv'
<1> SUFFICES ASSUME IInv, CInv, [Next]_vars PROVE CInv'
  OBVIOUS
<1>1. CASE \E n \in 0..MaxChunk : Feed(n)
  BY <1>1, FeedCInv
<1>2. CASE Reset
  BY <1>2, ResetCInv
<1>3. CASE IdleFound \/ GotDollarAt \/ HeaderAccepted
  BY <1>3, UndecidedCInv
<1>4. CASE IdleSkip \/ GotDollarDollar \/ GotDollarOther
  BY <1>4, NoiseCInv
<1>5. CASE HeaderRejected \/ BodyRejected
  BY <1>5, RejectedCInv
<1>6. CASE FrameEmitted
  BY <1>6, FrameEmittedCInv
<1>7. CASE FeedReturn
  BY <1>7, FeedReturnCInv
<1>8. CASE UNCHANGED vars
  <2>1. /\ stream' = stream /\ fed' = fed /\ buf' = buf /\ out' = out /\ origin' = origin
        /\ frame_drain' = frame_drain /\ fails' = fails /\ pc' = pc
        /\ Base' = Base /\ ScanPoint' = ScanPoint
    BY <1>8 DEF vars, env, members, locals, hist, Base, ScanPoint
  <2>2. OutBefore' /\ Rejected' /\ (Settled => Settled')
    BY <2>1 DEF CInv, OutBefore, Rejected, BadCandidate, InsideBlock, Settled
  <2>3. \A mark \in Nat : Rescan(mark) => Rescan(mark)'
    BY <2>1 DEF Rescan
  <2> QED BY <2>1, <2>2, <2>3 DEF CInv
<1> QED BY <1>1, <1>2, <1>3, <1>4, <1>5, <1>6, <1>7, <1>8 DEF Next, Scan

\* What has been scanned twice leaves buf_ with the next block, in every
\* sequence of feed() and reset() calls.
THEOREM CountInductive == Spec => []CInv
BY InitCInv, NextCInv, Inductive, PTL DEF Spec

\* crc_failed and length_invalid count true bad candidates only, each one that
\* a left-to-right reading meets at least once, and none more than twice.
THEOREM Accounted == Spec => []RejectionsAccounted
<1>1. IInv /\ CInv => RejectionsAccounted
  <2> SUFFICES ASSUME IInv, CInv PROVE RejectionsAccounted
    OBVIOUS
  <2>1. ASSUME pc = "ready", NEW p \in origin..(fed - 1), BadCandidate(p),
               \A q \in origin..(p - 1) : RuledOut(stream, q, fed)
        PROVE  fails[p] >= 1
    <3>1. p < ScanPoint
      <4>1. CASE state = "Idle"
        <5>1. ScanPoint = fed
          BY <2>1, <4>1, Basics DEF ScanPoint
        <5> QED BY <5>1, Basics
      <4>2. CASE state # "Idle"
        <5>1. ~RuledOut(stream, ScanPoint, fed) /\ RuledOut(stream, p, fed)
          BY <2>1, <4>2, ParkedUndecided DEF BadCandidate
        <5>2. ~(ScanPoint \in origin..(p - 1)) /\ ScanPoint # p
          BY <2>1, <5>1
        <5> QED BY <5>2, Basics DEF IInv, Decided
      <4> QED BY <4>1, <4>2
    <3>2. p \in origin..(ScanPoint - 1)
      BY <3>1, Basics
    <3> QED BY <2>1, <3>2 DEF CInv, Rejected
  <2> QED BY <2>1 DEF CInv, Rejected, RejectionsAccounted
<1> QED BY <1>1, Inductive, CountInductive, PTL

\* buf_ stays shorter than a block and two chunks, and between calls without
\* a pending drain shorter than a block: the deferred drain is no leak.
THEOREM Bounded == Spec => []RetainedBound
<1>1. IInv /\ CInv => RetainedBound
  <2> SUFFICES ASSUME IInv, CInv PROVE RetainedBound
    OBVIOUS
  <2>1. pc = "ready" /\ frame_drain = 0 => Len(buf) < kMaxSbfLength
    BY ParkedBound
  <2>2. Len(buf) < kMaxSbfLength + 2 * MaxChunk
    <3>1. pc \in {"ready", "scan"}
      BY DEF IInv, TypeOK
    <3> QED BY <3>1 DEF CInv, Settled, Rescan
  <2> QED BY <2>1, <2>2 DEF RetainedBound
<1> QED BY <1>1, Inductive, CountInductive, PTL
=============================================================================
