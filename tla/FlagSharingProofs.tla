-------------------------- MODULE FlagSharingProofs --------------------------
(***************************************************************************)
(* Proofs about FlagSharing for every length of telemetry, every buffer    *)
(* and every width of the counters.  The wrapped count of what is left     *)
(* keeps one fact: with frames one byte shorter than the counter's range,  *)
(* it is the length plus the number of frames made, modulo U8.             *)
(***************************************************************************)
EXTENDS FlagSharing, TLAPS

\* Quotient and remainder.
LEMMA Quotient ==
  ASSUME NEW m \in Nat \ {0}, NEW y \in Int
  PROVE  /\ y \div m \in Int /\ y % m \in 0..(m - 1)
         /\ y = m * (y \div m) + (y % m)
  OBVIOUS

\* They are the only ones.
LEMMA Remainder ==
  ASSUME NEW m \in Nat \ {0}, NEW a \in Int, NEW r \in 0..(m - 1)
  PROVE  (m * a + r) % m = r
<1>. DEFINE y == m * a + r
            q == y \div m
            s == y % m
<1>1. y \in Int
  OBVIOUS
<1>2. q \in Int /\ s \in 0..(m - 1) /\ y = m * q + s
  BY <1>1, Quotient
<1>. HIDE DEF q, s
<1>3. m * (a - q) = s - r
  BY <1>2
<1>4. a - q >= 1 => m * (a - q) >= m
  BY <1>2
<1>5. a - q <= -1 => m * (a - q) <= -m
  BY <1>2
<1>6. a - q = 0
  BY <1>2, <1>3, <1>4, <1>5
<1>7. s = r
  BY <1>2, <1>3, <1>6
<1>. QED
  BY <1>7 DEF s

\* y is a multiples of m and r more.
Splits(m, y, a, r) == y = m * a + r

\* Remainder, in the form the steps below cite.
LEMMA SplitRemainder ==
  ASSUME NEW m \in Nat \ {0}, NEW y \in Int, NEW a \in Int, NEW r \in 0..(m - 1),
         Splits(m, y, a, r)
  PROVE  y % m = r
<1>1. y = m * a + r
  BY DEF Splits
<1>2. (m * a + r) % m = r
  BY Remainder
<1>. QED
  BY <1>1, <1>2

\* What remainingDataBytes does in one frame.
LEMMA OneFrameOff ==
  ASSUME NEW m \in Nat \ {0}, NEW y \in Nat
  PROVE  ((y % m) - (m - 1)) % m = (y + 1) % m
<1>. DEFINE q == y \div m
            s == y % m
<1>1. q \in Int /\ s \in 0..(m - 1) /\ y = m * q + s
  BY Quotient
<1>. HIDE DEF q, s
<1>2. CASE s = m - 1
  <2>1. /\ y + 1 \in Int /\ q + 1 \in Int /\ 0 \in 0..(m - 1)
        /\ Splits(m, y + 1, q + 1, 0)
    BY <1>1, <1>2 DEF Splits
  <2>2. (y + 1) % m = 0
    BY <2>1, SplitRemainder
  <2>3. s - (m - 1) \in Int /\ 0 \in Int /\ Splits(m, s - (m - 1), 0, 0)
    BY <1>1, <1>2 DEF Splits
  <2>4. (s - (m - 1)) % m = 0
    BY <2>1, <2>3, SplitRemainder
  <2>. QED
    BY <2>2, <2>4 DEF s
<1>3. CASE s < m - 1
  <2>1. /\ y + 1 \in Int /\ s + 1 \in 0..(m - 1)
        /\ Splits(m, y + 1, q, s + 1)
    BY <1>1, <1>3 DEF Splits
  <2>2. (y + 1) % m = s + 1
    BY <1>1, <2>1, SplitRemainder
  <2>3. s - (m - 1) \in Int /\ -1 \in Int /\ Splits(m, s - (m - 1), -1, s + 1)
    BY <1>1, <1>3 DEF Splits
  <2>4. (s - (m - 1)) % m = s + 1
    BY <2>1, <2>3, SplitRemainder
  <2>. QED
    BY <2>2, <2>4 DEF s
<1>. QED
  BY <1>1, <1>2, <1>3

-----------------------------------------------------------------------------
(* One frame *)

\* The frames the telemetry needs, before the count is cut to a byte.
Needed == (telemDataLen + InfoBytes - 1) \div InfoBytes

\* Rounding up covers the telemetry, and no frame of it would be empty.
LEMMA NeededFrames ==
  ASSUME telemDataLen \in Nat
  PROVE  /\ Needed \in Nat
         /\ telemDataLen <= InfoBytes * Needed
         /\ InfoBytes * (Needed - 1) <= telemDataLen - 1
         /\ FramesFor(telemDataLen) = Needed % U8
         /\ FramesFor(telemDataLen) \in 0..(U8 - 1)
         /\ FramesFor(telemDataLen) <= Needed
<1>. DEFINE y == telemDataLen + InfoBytes - 1
            t == y % InfoBytes
<1>1. Needed \in Int /\ t \in 0..(InfoBytes - 1) /\ y = InfoBytes * Needed + t
  <2>1. y \in Int /\ InfoBytes \in Nat \ {0}
    BY SharingAssumption
  <2>2. /\ y \div InfoBytes \in Int /\ t \in 0..(InfoBytes - 1)
        /\ y = InfoBytes * (y \div InfoBytes) + t
    BY <2>1, Quotient
  <2>. QED
    BY <2>2 DEF Needed
<1>. HIDE DEF t
<1>2. InfoBytes * Needed >= telemDataLen
  BY <1>1, SharingAssumption
<1>3. InfoBytes * (Needed - 1) <= telemDataLen - 1
  BY <1>1, SharingAssumption
<1>4. Needed \in Nat
  <2>1. Needed <= -1 => InfoBytes * Needed <= -InfoBytes
    BY <1>1, SharingAssumption
  <2>2. InfoBytes * Needed >= 0
    BY <1>1, <1>2, SharingAssumption
  <2>. QED
    BY <1>1, <2>1, <2>2, SharingAssumption
<1>5. FramesFor(telemDataLen) = Needed % U8
  BY DEF FramesFor, Needed
<1>. DEFINE q == Needed \div U8
            s == Needed % U8
<1>6. q \in Int /\ s \in 0..(U8 - 1) /\ Needed = U8 * q + s
  <2>1. Needed \in Int /\ U8 \in Nat \ {0}
    BY <1>4, SharingAssumption
  <2>. QED
    BY <2>1, Quotient
<1>. HIDE DEF q, s
<1>7. s <= Needed
  <2>1. q < 0 => U8 * q <= -U8
    BY <1>6, SharingAssumption
  <2>2. q >= 0
    BY <1>4, <1>6, <2>1, SharingAssumption
  <2>3. U8 * q >= 0
    BY <1>6, <2>2, SharingAssumption
  <2>. QED
    BY <1>4, <1>6, <2>3, SharingAssumption
<1>. QED
  BY <1>2, <1>3, <1>4, <1>5, <1>6, <1>7 DEF s

\* A frame reads inside the telemetry although the count of what is left has
\* wrapped, and the last one needed reads to its end.
LEMMA FrameReads ==
  ASSUME telemDataLen \in Nat, frameStart \in Nat, frameStart < Needed,
         remainingDataBytes = (telemDataLen + frameStart) % U8
  PROVE  /\ Copied \in 0..InfoBytes
         /\ frameStart * InfoBytes + Copied <= telemDataLen
         /\ frameStart + 1 = Needed => frameStart * InfoBytes + Copied = telemDataLen
<1>1. /\ Needed \in Nat /\ telemDataLen <= InfoBytes * Needed
      /\ InfoBytes * (Needed - 1) <= telemDataLen - 1
  BY NeededFrames
<1>2. remainingDataBytes \in 0..(U8 - 1)
  BY SharingAssumption, Quotient
<1>3. Copied \in 0..InfoBytes
  BY <1>2, SharingAssumption DEF Copied
<1>4. CASE frameStart + 1 < Needed
  <2>1. frameStart + 1 <= Needed - 1
    BY <1>1, <1>4
  <2>2. InfoBytes * (frameStart + 1) <= InfoBytes * (Needed - 1)
    BY <1>1, <2>1, SharingAssumption
  <2>3. InfoBytes * (frameStart + 1) = frameStart * InfoBytes + InfoBytes
    BY SharingAssumption
  <2>. QED
    BY <1>1, <1>3, <1>4, <2>2, <2>3, SharingAssumption
<1>5. CASE frameStart + 1 = Needed
  <2>. DEFINE r == telemDataLen - frameStart * InfoBytes
  <2>1. r \in 1..InfoBytes
    <3>1. InfoBytes * (Needed - 1) = frameStart * InfoBytes
      BY <1>1, <1>5, SharingAssumption
    <3>2. InfoBytes * Needed = frameStart * InfoBytes + InfoBytes
      BY <1>1, <1>5, SharingAssumption
    <3>. QED
      BY <1>1, <3>1, <3>2, SharingAssumption
  <2>2. /\ Splits(U8, telemDataLen + frameStart, frameStart, r)
        /\ telemDataLen + frameStart \in Int
    BY <2>1, SharingAssumption DEF Splits
  <2>3. r \in 0..(U8 - 1) /\ U8 \in Nat \ {0} /\ frameStart \in Int
    BY <2>1, SharingAssumption
  <2>. HIDE DEF r
  <2>4. remainingDataBytes = r
    BY <2>2, <2>3, SplitRemainder
  <2>5. Copied = r
    BY <2>1, <2>4, SharingAssumption DEF Copied
  <2>6. frameStart * InfoBytes \in Nat
    BY SharingAssumption
  <2>7. frameStart * InfoBytes + r = telemDataLen
    BY <2>6 DEF r
  <2>. QED
    BY <1>3, <2>5, <2>6, <2>7
<1>. QED
  BY <1>1, <1>3, <1>4, <1>5

-----------------------------------------------------------------------------
(* The inductive invariant *)

Untouched ==
  phase \in {"called", "refused"} =>
    frameStart = 0 /\ numOfFrames = 0 /\ readFrom = 0 /\ readCount = 0 /\ top = 0

Counting ==
  phase \in {"framing", "done"} =>
    /\ numOfFrames = FramesFor(telemDataLen) /\ BufferHolds(numOfFrames)
    /\ remainingDataBytes = (telemDataLen + frameStart) % U8

\* readFrom and readCount of the last frame that was needed
ReadToEnd ==
  phase \in {"framing", "done"} /\ frameStart > 0 /\ frameStart = Needed =>
    readFrom + readCount = telemDataLen

Ended == phase = "done" => frameStart = numOfFrames

IInv ==
  TypeOK /\ Untouched /\ Counting /\ ReadToEnd /\ Ended /\ StaysInside

LEMMA IInvInit == Init => IInv
  BY SharingAssumption
  DEF Init, IInv, TypeOK, Untouched, Counting, ReadToEnd, Ended, StaysInside

LEMMA StartKeeps == IInv /\ Start => IInv'
<1>. SUFFICES ASSUME IInv, Start PROVE IInv'
  OBVIOUS
<1>1. telemDataLen \in Nat /\ ax25DataLen \in Nat /\ frameStart = 0
  BY SharingAssumption DEF IInv, TypeOK, Untouched, Start
<1>2. FramesFor(telemDataLen) \in 0..(U8 - 1)
  BY <1>1, NeededFrames
<1>3. telemDataLen % U8 \in 0..(U8 - 1)
  BY <1>1, SharingAssumption, Quotient
<1>4. TypeOK'
  BY <1>1, <1>2, <1>3 DEF IInv, TypeOK, Start, args, touched
<1>5. Counting'
  BY <1>1 DEF Start, Counting, BufferHolds, FramesFor, args
<1>6. StaysInside' /\ Untouched' /\ ReadToEnd' /\ Ended'
  BY <1>1 DEF Start, IInv, StaysInside, Untouched, ReadToEnd, Ended, args, touched
<1>. QED
  BY <1>4, <1>5, <1>6 DEF IInv

LEMMA FrameKeeps == IInv /\ Frame => IInv'
<1>. SUFFICES ASSUME IInv, Frame PROVE IInv'
  OBVIOUS
<1>1. /\ telemDataLen \in Nat /\ ax25DataLen \in Nat /\ phase = "framing"
      /\ numOfFrames \in 0..(U8 - 1) /\ frameStart \in 0..numOfFrames
      /\ frameStart < numOfFrames
  BY SharingAssumption DEF IInv, TypeOK, Frame
<1>2. /\ numOfFrames = FramesFor(telemDataLen) /\ BufferHolds(numOfFrames)
      /\ remainingDataBytes = (telemDataLen + frameStart) % U8
  BY <1>1 DEF IInv, Counting
<1>3. Needed \in Nat /\ frameStart < Needed
  BY <1>1, <1>2, NeededFrames
<1>4. /\ Copied \in 0..InfoBytes
      /\ frameStart * InfoBytes + Copied <= telemDataLen
      /\ frameStart + 1 = Needed => frameStart * InfoBytes + Copied = telemDataLen
  BY <1>1, <1>2, <1>3, FrameReads
<1>5. (frameStart + 1) % U8 = frameStart + 1
  <2>1. /\ Splits(U8, frameStart + 1, 0, frameStart + 1) /\ 0 \in Int
        /\ frameStart + 1 \in Int /\ frameStart + 1 \in 0..(U8 - 1)
        /\ U8 \in Nat \ {0}
    BY <1>1, SharingAssumption DEF Splits
  <2>. QED
    BY <2>1, SplitRemainder
<1>6. /\ frameStart' = frameStart + 1
      /\ readFrom' = frameStart * InfoBytes /\ readCount' = Copied
      /\ top' = frameStart * FrameLen + FcsPosition + 2
      /\ UNCHANGED <<telemDataLen, ax25DataLen, numOfFrames, phase>>
  BY <1>5 DEF Frame, args
<1>7. /\ remainingDataBytes' = (telemDataLen + frameStart + 1) % U8
      /\ remainingDataBytes' \in 0..(U8 - 1)
  <2>1. remainingDataBytes' = (((telemDataLen + frameStart) % U8) - (U8 - 1)) % U8
    BY <1>2, SharingAssumption DEF Frame
  <2>2. telemDataLen + frameStart \in Nat
    BY <1>1, SharingAssumption
  <2>3. remainingDataBytes' = (telemDataLen + frameStart + 1) % U8
    BY <2>1, <2>2, SharingAssumption, OneFrameOff
  <2>. QED
    <3>1. telemDataLen + frameStart + 1 \in Int /\ U8 \in Nat \ {0}
      BY <2>2, SharingAssumption
    <3>. QED
      BY <2>3, <3>1, Quotient
<1>8. top' <= ax25DataLen /\ top' \in Nat
  <2>1. FrameLen \in Nat /\ FcsPosition + 2 <= FrameLen /\ FcsPosition \in Nat
    BY SharingAssumption DEF FrameLen, FcsPosition, InfoPosition
  <2>. HIDE DEF FrameLen, FcsPosition
  <2>2. (frameStart + 1) * FrameLen <= numOfFrames * FrameLen
    BY <1>1, <2>1, SharingAssumption
  <2>3. (frameStart + 1) * FrameLen = frameStart * FrameLen + FrameLen
    BY <1>1, <2>1, SharingAssumption
  <2>4. numOfFrames * FrameLen + 1 <= ax25DataLen
    BY <1>2 DEF BufferHolds
  <2>5. numOfFrames * FrameLen \in Nat /\ frameStart * FrameLen \in Nat
    BY <1>1, <2>1, SharingAssumption
  <2>. QED
    BY <1>1, <1>6, <2>1, <2>2, <2>3, <2>4, <2>5
<1>9. frameStart * InfoBytes \in Nat
  BY <1>1, SharingAssumption
<1>10. TypeOK'
  BY <1>1, <1>4, <1>6, <1>7, <1>8, <1>9, SharingAssumption DEF TypeOK, IInv
<1>11. Counting'
  BY <1>1, <1>2, <1>6, <1>7 DEF Counting, BufferHolds, FramesFor
<1>12. ReadToEnd'
  BY <1>3, <1>4, <1>6 DEF ReadToEnd, Needed
<1>13. StaysInside' /\ Untouched' /\ Ended'
  BY <1>1, <1>4, <1>6, <1>8 DEF StaysInside, Untouched, Ended
<1>. QED
  BY <1>10, <1>11, <1>12, <1>13 DEF IInv

LEMMA LastFlagKeeps == IInv /\ LastFlag => IInv'
<1>. SUFFICES ASSUME IInv, LastFlag PROVE IInv'
  OBVIOUS
<1>1. /\ ax25DataLen \in Nat /\ numOfFrames \in 0..(U8 - 1)
      /\ frameStart = numOfFrames /\ BufferHolds(numOfFrames)
  BY SharingAssumption DEF IInv, TypeOK, Counting, LastFlag
<1>2. FrameLen \in Nat /\ numOfFrames * FrameLen \in Nat
  BY <1>1, SharingAssumption DEF FrameLen
<1>3. top' \in Nat /\ top' <= ax25DataLen
  BY <1>1, <1>2 DEF LastFlag, BufferHolds
<1>4. TypeOK' /\ StaysInside'
  BY <1>3 DEF LastFlag, IInv, TypeOK, StaysInside, args
<1>5. Counting'
  BY DEF LastFlag, IInv, Counting, BufferHolds, FramesFor, args
<1>6. ReadToEnd' /\ Untouched' /\ Ended'
  BY <1>1 DEF LastFlag, IInv, ReadToEnd, Needed, Untouched, Ended, args
<1>. QED
  BY <1>4, <1>5, <1>6 DEF IInv

LEMMA IInvNext == IInv /\ [Next]_vars => IInv'
<1>. SUFFICES ASSUME IInv, [Next]_vars PROVE IInv'
  OBVIOUS
<1>1. CASE Refuse
  BY <1>1 DEF Refuse, IInv, TypeOK, Untouched, Counting, ReadToEnd, Ended,
              StaysInside, args, touched
<1>2. CASE Start
  BY <1>2, StartKeeps
<1>3. CASE Frame
  BY <1>3, FrameKeeps
<1>4. CASE LastFlag
  BY <1>4, LastFlagKeeps
<1>5. CASE UNCHANGED vars
  BY <1>5 DEF vars, args, touched, IInv, TypeOK, Untouched, Counting, ReadToEnd,
              Needed, Ended, StaysInside, BufferHolds, FramesFor
<1>. QED
  BY <1>1, <1>2, <1>3, <1>4, <1>5 DEF Next

LEMMA Inductive == Spec => []IInv
  BY IInvInit, IInvNext, PTL DEF Spec

-----------------------------------------------------------------------------
(* Theorems *)

\* The byte-wide counters of ax25SendIFrameWithFlagSharing hold what they are
\* given, for telemetry of every length.
THEOREM TypeCorrect == Spec => []TypeOK
<1>1. IInv => TypeOK
  BY DEF IInv
<1>. QED
  BY <1>1, Inductive, PTL

\* A burst never reads beyond the telemetry or writes beyond its buffer, with
\* counters wrapped as they may be.
THEOREM BurstStaysInside == Spec => []StaysInside
<1>1. IInv => StaysInside
  BY DEF IInv
<1>. QED
  BY <1>1, Inductive, PTL

\* Telemetry of up to U8 - 1 full frames is read to its last byte.
THEOREM LastFrameIsExact == Spec => []LastFrameExact
<1>1. ASSUME IInv, phase = "done", telemDataLen \in 1..(InfoBytes * (U8 - 1))
      PROVE  readFrom + readCount = telemDataLen
  <2>1. /\ Needed \in Nat /\ telemDataLen <= InfoBytes * Needed
        /\ InfoBytes * (Needed - 1) <= telemDataLen - 1
        /\ FramesFor(telemDataLen) = Needed % U8
    BY <1>1, NeededFrames, SharingAssumption DEF IInv, TypeOK
  <2>2. Needed # 0
    BY <1>1, <2>1, SharingAssumption
  <2>3. Needed - 1 >= U8 - 1 => InfoBytes * (Needed - 1) >= InfoBytes * (U8 - 1)
    BY <2>1, SharingAssumption
  <2>4. Needed \in 0..(U8 - 1)
    BY <1>1, <2>1, <2>3, SharingAssumption
  <2>5. /\ Splits(U8, Needed, 0, Needed) /\ Needed \in Int /\ 0 \in Int
        /\ U8 \in Nat \ {0}
    BY <2>1, SharingAssumption DEF Splits
  <2>6. Needed % U8 = Needed
    BY <2>4, <2>5, SplitRemainder
  <2>7. frameStart = Needed
    BY <1>1, <2>1, <2>6 DEF IInv, Counting, Ended
  <2>. QED
    BY <1>1, <2>1, <2>2, <2>7 DEF IInv, ReadToEnd
<1>2. IInv => LastFrameExact
  BY <1>1 DEF LastFrameExact
<1>. QED
  BY <1>2, Inductive, PTL
=============================================================================
