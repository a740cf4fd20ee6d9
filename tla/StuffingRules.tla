---------------------------- MODULE StuffingRules ----------------------------
(***************************************************************************)
(* What the stuffing and unstuffing loops of obc_gs_ax25.c and of the      *)
(* Python AX25 class do with one bit, and how many bytes each of them      *)
(* makes of the bits at the end.  Both C functions | their bits into a     *)
(* buffer the caller has zeroed.                                           *)
(***************************************************************************)
EXTENDS Integers, Sequences, FiniteSetsExt

CONSTANTS
  InfoBytes,          \* AX25_INFO_BYTES, the most tail bytes ax25Unstuff drops
  RsEncodedDataSize,  \* RS_ENCODED_DATA_SIZE of the Python side
  NonInfoBytes        \* AX25_NON_INFO_BYTES

Bit == {0, 1}

\* slip: the run of ones is never taken to be full
EndlessCount(bit, ones) == IF bit = 0 THEN 0 ELSE ones + 1

\* the ones in a row after bit, 0 again once there are five
NextCount(bit, ones) == IF bit = 0 \/ ones = 4 THEN 0 ELSE ones + 1

\* is bit the fifth one?
Fifth(bit, ones) == bit = 1 /\ ones = 4
Flagged(bit, ones) == IF Fifth(bit, ones) THEN 1 ELSE 0

\* the first k bytes of a zeroed buffer that bits were written into
Bytes(bits, k) ==
  [i \in 1..(8 * k) |-> IF i <= Len(bits) THEN bits[i] ELSE 0]

\* byte b of a packet whose byte 0 is the flag
ZeroByte(bits, b) ==
  b > 0 /\ \A i \in (8 * b - 7)..(8 * b) : i <= Len(bits) => bits[i] = 0

\* slips: nothing is stuffed; a bit is stuffed one too early
EmittedUnstuffed(bit, ones) == <<bit>>
EmittedEarly(bit, ones) == IF bit = 1 /\ ones = 3 THEN <<1, 0>> ELSE <<bit>>

Emitted(bit, ones) == IF Fifth(bit, ones) THEN <<1, 0>> ELSE <<bit>>

\* ax25Stuff ends with the byte that holds the last bit; AX25.stuff pads, then
\* strips every zero byte at the end
WireBytes(by, bits, k) ==
  IF by = "c"
  THEN k = (Len(bits) + 7) \div 8
  ELSE ~ZeroByte(bits, k) /\ \A b \in (k + 1)..(Len(bits) \div 8 + 1) : ZeroByte(bits, b)

\* slip: the byte that is only partly filled is cut off
CDeliveredFloor(bits) ==
  LET written == (8 + Len(bits)) \div 8
  IN  written - Min({t \in 0..InfoBytes :
                       t = InfoBytes \/ ~ZeroByte(bits, written - t)})
      - (IF Len(bits) % 8 # 0 /\ ~ZeroByte(bits, written) THEN 1 ELSE 0)

\* ax25Unstuff drops the zero bytes at the end, InfoBytes at most; the flag
\* follows the byte of the last bit when there is none to drop
CDelivered(bits) ==
  LET written == (8 + Len(bits)) \div 8
      tailBytes == Min({t \in 0..InfoBytes :
                          t = InfoBytes \/ ~ZeroByte(bits, written - t)})
  IN  IF tailBytes = 0 THEN (8 + Len(bits) + 7) \div 8 - 1
                       ELSE written - tailBytes

\* slip: only short frames lose the byte the padding added
PythonDeliveredShort(bits) ==
  LET padded == Len(bits) \div 8 + 1
  IN  IF ZeroByte(bits, padded) /\ padded < RsEncodedDataSize
      THEN padded - 1 ELSE padded

\* AX25.unstuff pads with 1 to 8 zeros and drops one zero byte at the end of
\* a packet longer than an I frame or shorter than its information
PythonDelivered(bits) ==
  LET padded == Len(bits) \div 8 + 1
  IN  IF /\ ZeroByte(bits, padded)
         /\ \/ padded > RsEncodedDataSize + NonInfoBytes
            \/ padded < RsEncodedDataSize
      THEN padded - 1 ELSE padded
=============================================================================
