----------------------------- MODULE BitStuffing -----------------------------
(***************************************************************************)
(* A frame on its way through ax25Stuff and ax25Unstuff, or through stuff  *)
(* and unstuff of the Python AX25 class, one bit at a time.  raw is what   *)
(* the sender has between the two flags, wire what goes over the air       *)
(* between them, delivered what the receiver puts between two new flags.   *)
(***************************************************************************)
EXTENDS StuffingRules

CONSTANTS
  Contents,           \* the frames, as sequences of bits
  Stuffers,           \* who may send: a subset of {"c", "python"}
  Unstuffers          \* who may receive

ASSUME StuffingAssumption ==
  /\ Contents \subseteq Seq(Bit)
  /\ \A c \in Contents : Len(c) % 8 = 0

\* a frame is at least an I frame, or shorter than an I frame's information; the code
\* has 17 bytes and 273
ASSUME SizesAssumption ==
  /\ InfoBytes \in Nat \ {0} /\ RsEncodedDataSize \in Nat /\ NonInfoBytes \in Nat
  /\ \A c \in Contents :
       \/ Len(c) \div 8 >= RsEncodedDataSize + NonInfoBytes
       \/ Len(c) \div 8 + 1 < RsEncodedDataSize

VARIABLES
  raw, stuffer, unstuffer,  \* the frame and its two ends, fixed
  phase,
  rawOffset, oneCount,      \* ax25Stuff
  stuffed,
  wire,
  readOffset, bitCount, stuffingFlag,   \* ax25Unstuff
  unstuffed,
  delivered,
  at      \* history: at[p] is the state an unstuffer should be in when it
          \* reads bit p: bits kept, ones in a row, and whether p is stuffed

ends == <<raw, stuffer, unstuffer>>
sending == <<rawOffset, oneCount, stuffed, at>>
receiving == <<readOffset, bitCount, stuffingFlag, unstuffed>>
vars == <<ends, phase, sending, wire, receiving, delivered>>

Init ==
  /\ raw \in Contents /\ stuffer \in Stuffers /\ unstuffer \in Unstuffers
  /\ phase = "stuffing"
  /\ rawOffset = 0 /\ oneCount = 0 /\ stuffed = <<>>
  /\ at = <<[kept |-> 0, ones |-> 0, extra |-> 0]>>
  /\ wire = <<>>
  /\ readOffset = 0 /\ bitCount = 0 /\ stuffingFlag = 0 /\ unstuffed = <<>>
  /\ delivered = <<>>

-----------------------------------------------------------------------------
(* Stuffing *)

StuffBit ==
  LET bit == raw[rawOffset + 1]
      next(extra) == [kept |-> rawOffset + 1,
                      ones |-> NextCount(bit, oneCount), extra |-> extra]
  IN  /\ phase = "stuffing" /\ rawOffset < Len(raw)
      /\ rawOffset' = rawOffset + 1
      /\ oneCount' = NextCount(bit, oneCount)
      /\ stuffed' = stuffed \o Emitted(bit, oneCount)
      /\ at' = at \o (IF Fifth(bit, oneCount)
                      THEN <<next(1), next(0)>>
                      ELSE <<next(0)>>)
      /\ UNCHANGED <<ends, phase, wire, receiving, delivered>>

SendWire ==
  /\ phase = "stuffing" /\ rawOffset = Len(raw)
  /\ \E k \in 0..(Len(stuffed) \div 8 + 1) :
        WireBytes(stuffer, stuffed, k) /\ wire' = Bytes(stuffed, k)
  /\ phase' = "unstuffing"
  /\ UNCHANGED <<ends, sending, receiving, delivered>>

-----------------------------------------------------------------------------
(* Unstuffing *)

SkipStuffedBit ==
  /\ phase = "unstuffing" /\ readOffset < Len(wire)
  /\ stuffingFlag = 1
  /\ readOffset' = readOffset + 1
  /\ bitCount' = 0 /\ stuffingFlag' = 0
  /\ UNCHANGED <<ends, phase, sending, wire, unstuffed, delivered>>

\* slip: a zero does not end the run of ones
KeepBitRunOn ==
  LET bit == wire[readOffset + 1] IN
    /\ phase = "unstuffing" /\ readOffset < Len(wire)
    /\ stuffingFlag = 0
    /\ readOffset' = readOffset + 1
    /\ bitCount' = IF bit = 0 THEN bitCount ELSE NextCount(bit, bitCount)
    /\ stuffingFlag' = Flagged(bit, bitCount)
    /\ unstuffed' = Append(unstuffed, bit)
    /\ UNCHANGED <<ends, phase, sending, wire, delivered>>

KeepBit ==
  LET bit == wire[readOffset + 1] IN
    /\ phase = "unstuffing" /\ readOffset < Len(wire)
    /\ stuffingFlag = 0
    /\ readOffset' = readOffset + 1
    /\ bitCount' = NextCount(bit, bitCount)
    /\ stuffingFlag' = Flagged(bit, bitCount)
    /\ unstuffed' = Append(unstuffed, bit)
    /\ UNCHANGED <<ends, phase, sending, wire, delivered>>

Deliver ==
  /\ phase = "unstuffing" /\ readOffset = Len(wire)
  /\ delivered' = Bytes(unstuffed, IF unstuffer = "c" THEN CDelivered(unstuffed)
                                               ELSE PythonDelivered(unstuffed))
  /\ phase' = "done"
  /\ UNCHANGED <<ends, sending, wire, receiving>>

Next == StuffBit \/ SendWire \/ SkipStuffedBit \/ KeepBit \/ Deliver

Spec == Init /\ [][Next]_vars

-----------------------------------------------------------------------------
(* Properties *)

\* The runs of ones both loops count stay below five, and every buffer holds
\* bits.
TypeOK ==
  /\ raw \in Contents /\ stuffer \in Stuffers /\ unstuffer \in Unstuffers
  /\ phase \in {"stuffing", "unstuffing", "done"}
  /\ rawOffset \in 0..Len(raw) /\ oneCount \in 0..4
  /\ stuffed \in Seq(Bit) /\ wire \in Seq(Bit) /\ unstuffed \in Seq(Bit)
  /\ readOffset \in 0..Len(wire) /\ bitCount \in 0..4
  /\ stuffingFlag \in 0..1
  /\ at \in Seq([kept : 0..Len(raw), ones : 0..4, extra : 0..1])

\* Between its flags a packet never has six ones in a row, so that 0x7E is
\* read nowhere but at its two ends (what ax25Stuff is for).
FlagFree ==
  \A p \in 1..(Len(wire) - 5) : \E i \in p..(p + 5) : wire[i] = 0

\* Stuffing adds at most one bit to five: what AX25_MAXIMUM_PKT_LEN, 6/5 of
\* the frame, has room for whatever the frame holds.
StuffedFits == 5 * (Len(stuffed) - rawOffset) <= rawOffset

\* The receiver's bits are the sender's, in order, none missing, none extra,
\* and after the last of them fewer than eight zeros: the partial byte stays
\* inside a buffer as large as the frame.
BitsKept ==
  /\ \A i \in 1..Len(unstuffed) :
       unstuffed[i] = IF i <= Len(raw) THEN raw[i] ELSE 0
  /\ Len(unstuffed) <= Len(raw) + 7

\* A frame whose last byte is not zero arrives as it was sent, whichever of
\* the two implementations is at either end.
FrameDelivered ==
  phase = "done" /\ ~ZeroByte(raw, Len(raw) \div 8) => delivered = raw

\* What the C library sends, the Python class receives unchanged, with any
\* last byte: AX25.unstuff tells a padding byte from an FCS byte by the length.
DownlinkExact ==
  phase = "done" /\ stuffer = "c" /\ unstuffer = "python" => delivered = raw

\* What the comments of ax25Unstuff say: the zeros taken off the end are "a
\* result of the unstuffing process", never bytes of the frame.
OnlyPaddingRemoved ==
  phase = "done" /\ unstuffer = "c" => Len(delivered) >= Len(raw)
=============================================================================
