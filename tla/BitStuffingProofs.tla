-------------------------- MODULE BitStuffingProofs --------------------------
(***************************************************************************)
(* Proofs about BitStuffing, for frames of every length and content.  The  *)
(* history at is a chain: Link says how each bit on the wire takes the     *)
(* unstuffer from one of its states to the next.  Chain says that stuffing *)
(* builds such a chain, InStep that unstuffing walks along it.             *)
(***************************************************************************)
EXTENDS BitStuffing, SequenceTheorems, TLAPS

State == [kept : 0..Len(raw), ones : 0..4, extra : 0..1]

Start == [kept |-> 0, ones |-> 0, extra |-> 0]

Link(p) ==
  IF at[p].extra = 1
  THEN /\ stuffed[p] = 0
       /\ at[p + 1] = [kept |-> at[p].kept, ones |-> 0, extra |-> 0]
  ELSE /\ at[p].kept < Len(raw)
       /\ stuffed[p] = raw[at[p].kept + 1]
       /\ at[p + 1] = [kept |-> at[p].kept + 1,
                       ones |-> NextCount(stuffed[p], at[p].ones),
                       extra |-> Flagged(stuffed[p], at[p].ones)]

Chain ==
  /\ Len(at) = Len(stuffed) + 1
  /\ at[1] = Start
  /\ at[Len(at)] = [kept |-> rawOffset, ones |-> oneCount, extra |-> 0]
  /\ \A p \in 1..Len(stuffed) : Link(p)

OnWire ==
  IF phase = "stuffing"
  THEN wire = <<>> /\ readOffset = 0 /\ unstuffed = <<>>
       /\ bitCount = 0 /\ stuffingFlag = 0
  ELSE /\ rawOffset = Len(raw)
       /\ Len(wire) <= Len(stuffed) + 7
       /\ \A p \in 1..Len(wire) :
            wire[p] = IF p <= Len(stuffed) THEN stuffed[p] ELSE 0

InStep ==
  IF readOffset <= Len(stuffed)
  THEN at[readOffset + 1] = [kept |-> Len(unstuffed), ones |-> bitCount,
                             extra |-> stuffingFlag]
  ELSE /\ stuffingFlag = 0
       /\ Len(unstuffed) = Len(raw) + (readOffset - Len(stuffed))

Kept ==
  \A i \in 1..Len(unstuffed) :
    unstuffed[i] = IF i <= Len(raw) THEN raw[i] ELSE 0

Paid == 5 * (Len(stuffed) - rawOffset) + oneCount <= rawOffset

IInv == TypeOK /\ Chain /\ OnWire /\ InStep /\ Kept /\ Paid

-----------------------------------------------------------------------------
(* The buffers *)

\* Counting on after a bit stays below five.
LEMMA CountRange ==
  ASSUME NEW bit \in Bit, NEW ones \in 0..4
  PROVE  NextCount(bit, ones) \in 0..4
  BY DEF NextCount

\* Any number of bytes of a bit buffer is a sequence of bits.
LEMMA BytesType ==
  ASSUME NEW bits \in Seq(Bit), NEW k \in Nat
  PROVE  /\ Bytes(bits, k) \in Seq(Bit)
         /\ Len(Bytes(bits, k)) = 8 * k
         /\ \A i \in 1..(8 * k) :
              Bytes(bits, k)[i] = IF i <= Len(bits) THEN bits[i] ELSE 0
<1>. DEFINE b == Bytes(bits, k)
<1>1. 8 * k \in Nat
  OBVIOUS
<1>2. b = [i \in 1..(8 * k) |-> IF i <= Len(bits) THEN bits[i] ELSE 0]
  BY DEF Bytes
<1>3. \A i \in 1..(8 * k) : (IF i <= Len(bits) THEN bits[i] ELSE 0) \in Bit
  BY DEF Bit
<1>4. b \in [1..(8 * k) -> Bit]
  BY <1>2, <1>3
<1>5. b \in Seq(Bit)
  BY <1>1, <1>4
<1>6. Len(b) = 8 * k
  BY <1>1, <1>2
<1>. QED
  BY <1>2, <1>5, <1>6

\* Either sender ends its packet less than a byte after the last stuffed bit.
LEMMA WireLength ==
  ASSUME NEW by, NEW bits \in Seq(Bit), NEW k \in 0..(Len(bits) \div 8 + 1),
         WireBytes(by, bits, k)
  PROVE  8 * k <= Len(bits) + 7
<1>1. CASE by = "c"
  BY <1>1 DEF WireBytes
<1>2. CASE by # "c"
  <2>1. ~ZeroByte(bits, k)
    BY <1>2 DEF WireBytes
  <2>2. k = 0 \/ \E i \in (8 * k - 7)..(8 * k) : i <= Len(bits)
    BY <2>1 DEF ZeroByte
  <2>. QED
    BY <2>2
<1>. QED
  BY <1>1, <1>2

-----------------------------------------------------------------------------
(* The chain *)

\* Reading a frame back gives bits.
LEMMA RawBits ==
  ASSUME TypeOK
  PROVE  /\ raw \in Seq(Bit)
         /\ \A i \in 1..Len(raw) : raw[i] \in Bit
  BY StuffingAssumption, ElementOfSeq DEF TypeOK

\* The initial state is the start of the chain.
LEMMA IInvInit == Init => IInv
<1>. SUFFICES ASSUME Init PROVE IInv
  OBVIOUS
<1>1. Len(raw) \in Nat
  BY StuffingAssumption DEF Init
<1>2. TypeOK
  BY <1>1 DEF Init, TypeOK
<1>3. Chain
  BY DEF Init, Chain, Start
<1>4. OnWire /\ Kept /\ Paid
  BY DEF Init, OnWire, Kept, Paid
<1>5. InStep
  BY DEF Init, InStep
<1>. QED
  BY <1>2, <1>3, <1>4, <1>5 DEF IInv

\* A bit that is not the fifth one in a row adds one link.
LEMMA PlainLink ==
  ASSUME IInv, StuffBit, ~Fifth(raw[rawOffset + 1], oneCount)
  PROVE  Chain' /\ stuffed' \in Seq(Bit) /\ at' \in Seq(State)
<1>. DEFINE bit == raw[rawOffset + 1]
            L == Len(stuffed)
            next == [kept |-> rawOffset + 1, ones |-> NextCount(bit, oneCount),
                     extra |-> 0]
<1>1. /\ rawOffset \in Nat /\ rawOffset < Len(raw) /\ bit \in Bit
      /\ oneCount \in 0..4 /\ stuffed \in Seq(Bit) /\ at \in Seq(State)
      /\ Len(raw) \in Nat /\ L \in Nat /\ raw' = raw
  BY RawBits DEF IInv, TypeOK, StuffBit, State, ends
<1>2. stuffed' = stuffed \o <<bit>> /\ at' = at \o <<next>>
      /\ rawOffset' = rawOffset + 1 /\ oneCount' = NextCount(bit, oneCount)
  BY DEF StuffBit, Emitted
<1>3. next \in State
  BY <1>1, CountRange DEF State
<1>4. stuffed' \in Seq(Bit) /\ at' \in Seq(State')
  BY <1>1, <1>2, <1>3 DEF State
<1>5. /\ Len(at) = L + 1 /\ at[1] = Start
      /\ at[L + 1] = [kept |-> rawOffset, ones |-> oneCount, extra |-> 0]
      /\ \A p \in 1..L : Link(p)
  BY DEF IInv, Chain
<1>6. /\ Len(stuffed') = L + 1 /\ stuffed'[L + 1] = bit
      /\ \A p \in 1..L : stuffed'[p] = stuffed[p]
      /\ Len(at') = L + 2 /\ at'[L + 2] = next
      /\ \A p \in 1..(L + 1) : at'[p] = at[p]
  BY <1>1, <1>2, <1>3, <1>5
<1>7. ASSUME NEW p \in 1..(L + 1) PROVE Link(p)'
  <2>1. CASE p <= L
    <3>1. p \in 1..L /\ p \in 1..(L + 1) /\ p + 1 \in 1..(L + 1)
      BY <2>1, <1>1
    <3>2. Link(p)
      BY <3>1, <1>5
    <3>3. stuffed'[p] = stuffed[p] /\ at'[p] = at[p] /\ at'[p + 1] = at[p + 1]
      BY <3>1, <1>6
    <3>. QED
      BY <3>2, <3>3, <1>1 DEF Link
  <2>2. CASE p = L + 1
    <3>1. /\ at'[p] = [kept |-> rawOffset, ones |-> oneCount, extra |-> 0]
          /\ at'[p + 1] = next /\ stuffed'[p] = bit
      BY <2>2, <1>1, <1>5, <1>6, SMTT(30)
    <3>2. Flagged(bit, oneCount) = 0
      BY DEF Flagged
    <3>. QED
      BY <3>1, <3>2, <1>1 DEF Link
  <2>. QED
    BY <2>1, <2>2, <1>1
<1>8. Chain'
  BY <1>1, <1>2, <1>5, <1>6, <1>7 DEF Chain, Start
<1>. QED
  BY <1>4, <1>8, <1>1 DEF State

\* The fifth one in a row adds two links, its own and the stuffed zero's.
LEMMA StuffedLinks ==
  ASSUME IInv, StuffBit, Fifth(raw[rawOffset + 1], oneCount)
  PROVE  Chain' /\ stuffed' \in Seq(Bit) /\ at' \in Seq(State)
<1>. DEFINE L == Len(stuffed)
            mid == [kept |-> rawOffset + 1, ones |-> 0, extra |-> 1]
            next == [kept |-> rawOffset + 1, ones |-> 0, extra |-> 0]
<1>1. /\ rawOffset \in Nat /\ rawOffset < Len(raw)
      /\ raw[rawOffset + 1] = 1 /\ oneCount = 4
      /\ stuffed \in Seq(Bit) /\ at \in Seq(State)
      /\ Len(raw) \in Nat /\ L \in Nat /\ raw' = raw
  BY SMTT(30) DEF IInv, TypeOK, StuffBit, State, ends, Fifth
<1>2. NextCount(1, 4) = 0 /\ Flagged(1, 4) = 1 /\ Emitted(1, 4) = <<1, 0>>
  BY DEF NextCount, Flagged, Fifth, Emitted
<1>3. stuffed' = stuffed \o <<1, 0>> /\ at' = at \o <<mid, next>>
      /\ rawOffset' = rawOffset + 1 /\ oneCount' = 0
  BY <1>1, <1>2 DEF StuffBit
<1>4. mid \in State /\ next \in State
  BY <1>1 DEF State
<1>5. stuffed' \in Seq(Bit) /\ at' \in Seq(State)
  BY <1>1, <1>3, <1>4 DEF Bit
<1>6. /\ Len(at) = L + 1 /\ at[1] = Start
      /\ at[L + 1] = [kept |-> rawOffset, ones |-> oneCount, extra |-> 0]
      /\ \A p \in 1..L : Link(p)
  BY DEF IInv, Chain
<1>7. /\ Len(stuffed') = L + 2
      /\ stuffed'[L + 1] = 1 /\ stuffed'[L + 2] = 0
      /\ \A p \in 1..L : stuffed'[p] = stuffed[p]
      /\ Len(at') = L + 3 /\ at'[L + 2] = mid /\ at'[L + 3] = next
      /\ \A p \in 1..(L + 1) : at'[p] = at[p]
  BY <1>1, <1>3, <1>4, <1>6, SMTT(30)
<1>8. ASSUME NEW p \in 1..(L + 2) PROVE Link(p)'
  <2>1. CASE p <= L
    <3>1. p \in 1..L /\ p \in 1..(L + 1) /\ p + 1 \in 1..(L + 1)
      BY <2>1, <1>1
    <3>2. Link(p)
      BY <3>1, <1>6
    <3>3. stuffed'[p] = stuffed[p] /\ at'[p] = at[p] /\ at'[p + 1] = at[p + 1]
      BY <3>1, <1>7
    <3>. QED
      BY <3>2, <3>3, <1>1 DEF Link
  <2>2. CASE p = L + 1
    <3>1. /\ at'[p] = [kept |-> rawOffset, ones |-> 4, extra |-> 0]
          /\ at'[p + 1] = mid /\ stuffed'[p] = 1
      BY <2>2, <1>1, <1>6, <1>7, SMTT(30)
    <3>. QED
      BY <3>1, <1>1, <1>2 DEF Link
  <2>3. CASE p = L + 2
    <3>1. at'[p] = mid /\ at'[p + 1] = next /\ stuffed'[p] = 0
      BY <2>3, <1>1, <1>7
    <3>. QED
      BY <3>1 DEF Link
  <2>. QED
    BY <2>1, <2>2, <2>3, <1>1
<1>9. Chain'
  BY <1>1, <1>3, <1>6, <1>7, <1>8 DEF Chain, Start
<1>. QED
  BY <1>5, <1>9

\* Stuffing keeps the invariant.
LEMMA StuffBitStep == IInv /\ StuffBit => IInv'
<1>. SUFFICES ASSUME IInv, StuffBit PROVE IInv'
  OBVIOUS
<1>. DEFINE bit == raw[rawOffset + 1]
<1>1. /\ rawOffset \in 0..Len(raw) /\ rawOffset < Len(raw) /\ bit \in Bit
      /\ oneCount \in 0..4 /\ stuffed \in Seq(Bit) /\ Len(raw) \in Nat
  BY RawBits DEF IInv, TypeOK, StuffBit
<1>2. Chain' /\ stuffed' \in Seq(Bit) /\ at' \in Seq(State)
  BY PlainLink, StuffedLinks
<1>3. /\ rawOffset' = rawOffset + 1 /\ oneCount' = NextCount(bit, oneCount)
      /\ stuffed' = stuffed \o Emitted(bit, oneCount)
      /\ UNCHANGED <<ends, phase, wire, receiving, delivered>>
      /\ phase = "stuffing"
  BY DEF StuffBit
<1>4. /\ oneCount' \in 0..4
      /\ rawOffset' \in 0..Len(raw)
  BY <1>1, <1>3, CountRange
<1>5. TypeOK'
  BY <1>2, <1>3, <1>4 DEF IInv, TypeOK, State, ends, receiving
<1>6. OnWire' /\ Kept'
  BY <1>3 DEF IInv, OnWire, Kept, ends, receiving
<1>7. InStep'
  <2>1. readOffset' = 0 /\ unstuffed' = <<>> /\ bitCount' = 0
        /\ stuffingFlag' = 0
    BY <1>3 DEF IInv, OnWire, receiving
  <2>2. at'[1] = [kept |-> 0, ones |-> 0, extra |-> 0]
    BY <1>2 DEF Chain, Start
  <2>. QED
    BY <2>1, <2>2, <1>2 DEF InStep
<1>8. Paid'
  <2>0. 5 * (Len(stuffed) - rawOffset) + oneCount <= rawOffset
        /\ Len(stuffed) \in Nat
    BY <1>1 DEF IInv, Paid
  <2>1. CASE Fifth(bit, oneCount)
    <3>1. Len(stuffed') = Len(stuffed) + 2 /\ oneCount = 4 /\ oneCount' = 0
      BY <2>1, <1>1, <1>3 DEF Emitted, Fifth, NextCount
    <3>. QED
      BY <3>1, <2>0, <1>1, <1>3 DEF Paid
  <2>2. CASE ~Fifth(bit, oneCount)
    <3>1. Len(stuffed') = Len(stuffed) + 1
      BY <2>2, <1>1, <1>3 DEF Emitted
    <3>2. oneCount' <= oneCount + 1 /\ oneCount' \in Nat
      BY <1>1, <1>3 DEF NextCount
    <3>. QED
      BY <3>1, <3>2, <2>0, <1>1, <1>3 DEF Paid
  <2>. QED
    BY <2>1, <2>2
<1>. QED
  BY <1>2, <1>5, <1>6, <1>7, <1>8 DEF IInv

-----------------------------------------------------------------------------
(* The walk *)

\* Putting the stuffed bits on the wire keeps the invariant.
LEMMA SendWireStep == IInv /\ SendWire => IInv'
<1>. SUFFICES ASSUME IInv, SendWire PROVE IInv'
  OBVIOUS
<1>1. /\ stuffed \in Seq(Bit) /\ at \in Seq(State)
      /\ phase = "stuffing" /\ rawOffset = Len(raw)
      /\ phase' = "unstuffing"
      /\ UNCHANGED <<ends, sending, receiving, delivered>>
  BY DEF IInv, TypeOK, SendWire, State
<1>2. PICK k \in 0..(Len(stuffed) \div 8 + 1) :
        WireBytes(stuffer, stuffed, k) /\ wire' = Bytes(stuffed, k)
  BY DEF SendWire
<1>3. k \in Nat /\ 8 * k <= Len(stuffed) + 7
  BY <1>1, <1>2, WireLength
<1>4. /\ wire' \in Seq(Bit) /\ Len(wire') = 8 * k
      /\ \A i \in 1..(8 * k) :
           wire'[i] = IF i <= Len(stuffed) THEN stuffed[i] ELSE 0
  BY <1>1, <1>2, <1>3, BytesType
<1>5. readOffset = 0
  BY <1>1 DEF IInv, OnWire
<1>6. TypeOK'
  BY <1>1, <1>3, <1>4, <1>5 DEF IInv, TypeOK, ends, sending, receiving
<1>7. OnWire'
  BY <1>1, <1>3, <1>4 DEF OnWire, sending, ends
<1>8. Chain' /\ InStep' /\ Kept' /\ Paid'
  BY <1>1 DEF IInv, Chain, Link, InStep, Kept, Paid, Start, ends, sending,
              receiving
<1>. QED
  BY <1>6, <1>7, <1>8 DEF IInv

\* What the unstuffer reads, and the link of the chain it is at.
LEMMA Reading ==
  ASSUME IInv, phase = "unstuffing", readOffset < Len(wire)
  PROVE  /\ readOffset \in Nat /\ Len(stuffed) \in Nat /\ Len(raw) \in Nat
         /\ Len(unstuffed) \in Nat /\ bitCount \in 0..4 /\ stuffingFlag \in 0..1
         /\ wire[readOffset + 1] \in Bit
         /\ readOffset < Len(stuffed) =>
              /\ wire[readOffset + 1] = stuffed[readOffset + 1]
              /\ Link(readOffset + 1)
              /\ at[readOffset + 1] = [kept |-> Len(unstuffed),
                                       ones |-> bitCount, extra |-> stuffingFlag]
         /\ readOffset >= Len(stuffed) =>
              /\ wire[readOffset + 1] = 0
              /\ stuffingFlag = 0
              /\ Len(unstuffed) = Len(raw) + (readOffset - Len(stuffed))
<1>1. /\ readOffset \in 0..Len(wire) /\ wire \in Seq(Bit)
      /\ stuffed \in Seq(Bit) /\ unstuffed \in Seq(Bit)
      /\ bitCount \in 0..4 /\ stuffingFlag \in 0..1 /\ raw \in Seq(Bit)
  BY RawBits DEF IInv, TypeOK
<1>2. readOffset \in Nat /\ readOffset + 1 \in 1..Len(wire)
  BY <1>1
<1>3. wire[readOffset + 1] \in Bit
  BY <1>1, <1>2, ElementOfSeq
<1>4. wire[readOffset + 1] =
        IF readOffset + 1 <= Len(stuffed) THEN stuffed[readOffset + 1] ELSE 0
  BY <1>2 DEF IInv, OnWire
<1>5. ASSUME readOffset < Len(stuffed)
      PROVE  /\ Link(readOffset + 1)
             /\ at[readOffset + 1] = [kept |-> Len(unstuffed),
                                      ones |-> bitCount, extra |-> stuffingFlag]
  <2>1. readOffset + 1 \in 1..Len(stuffed)
    BY <1>1, <1>2, <1>5
  <2>2. Link(readOffset + 1)
    BY <2>1 DEF IInv, Chain
  <2>. QED
    BY <1>1, <1>2, <1>5, <2>2 DEF IInv, InStep
<1>6. ASSUME readOffset >= Len(stuffed)
      PROVE  /\ stuffingFlag = 0
             /\ Len(unstuffed) = Len(raw) + (readOffset - Len(stuffed))
  <2>1. CASE readOffset > Len(stuffed)
    BY <2>1, <1>1, <1>2 DEF IInv, InStep
  <2>2. CASE readOffset = Len(stuffed)
    <3>1. at[readOffset + 1] = [kept |-> Len(unstuffed), ones |-> bitCount,
                                extra |-> stuffingFlag]
      BY <2>2, <1>1 DEF IInv, InStep
    <3>2. at[readOffset + 1] = [kept |-> rawOffset, ones |-> oneCount, extra |-> 0]
      BY <2>2, <1>1 DEF IInv, Chain
    <3>3. rawOffset = Len(raw)
      BY DEF IInv, OnWire
    <3>. QED
      BY <3>1, <3>2, <3>3, <2>2, <1>1
  <2>. QED
    BY <2>1, <2>2, <1>1, <1>2, <1>6
<1>. QED
  BY <1>1, <1>2, <1>3, <1>4, <1>5, <1>6

\* Skipping a stuffed bit takes the unstuffer to the next state of the chain.
LEMMA SkipStep == IInv /\ SkipStuffedBit => IInv'
<1>. SUFFICES ASSUME IInv, SkipStuffedBit PROVE IInv'
  OBVIOUS
<1>1. /\ phase = "unstuffing" /\ readOffset < Len(wire) /\ stuffingFlag = 1
      /\ readOffset' = readOffset + 1 /\ bitCount' = 0 /\ stuffingFlag' = 0
      /\ UNCHANGED <<ends, phase, sending, wire, unstuffed, delivered>>
  BY DEF SkipStuffedBit
<1>2. /\ readOffset \in Nat /\ Len(stuffed) \in Nat /\ readOffset < Len(stuffed)
      /\ Link(readOffset + 1)
      /\ at[readOffset + 1] = [kept |-> Len(unstuffed),
                               ones |-> bitCount, extra |-> stuffingFlag]
  BY <1>1, Reading
<1>3. at[readOffset + 2] = [kept |-> Len(unstuffed), ones |-> 0, extra |-> 0]
  BY <1>1, <1>2 DEF Link
<1>4. TypeOK'
  BY <1>1, <1>2 DEF IInv, TypeOK, ends, sending
<1>5. InStep'
  BY <1>1, <1>2, <1>3 DEF InStep, sending
<1>6. OnWire'
  BY <1>1 DEF IInv, OnWire, ends, sending
<1>7. Chain' /\ Kept' /\ Paid'
  BY <1>1 DEF IInv, Chain, Link, Kept, Paid, Start, ends, sending
<1>. QED
  BY <1>4, <1>5, <1>6, <1>7 DEF IInv

\* So does keeping a bit, which is the next bit of the frame, or a zero.
LEMMA KeepStep == IInv /\ KeepBit => IInv'
<1>. SUFFICES ASSUME IInv, KeepBit PROVE IInv'
  OBVIOUS
<1>. DEFINE bit == wire[readOffset + 1]
            n == Len(unstuffed) + 1
<1>1. /\ phase = "unstuffing" /\ readOffset < Len(wire) /\ stuffingFlag = 0
      /\ readOffset' = readOffset + 1
      /\ bitCount' = NextCount(bit, bitCount)
      /\ stuffingFlag' = Flagged(bit, bitCount)
      /\ unstuffed' = Append(unstuffed, bit)
      /\ UNCHANGED <<ends, phase, sending, wire, delivered>>
  BY DEF KeepBit
<1>2. /\ readOffset \in Nat /\ Len(stuffed) \in Nat /\ Len(raw) \in Nat
      /\ Len(unstuffed) \in Nat /\ bitCount \in 0..4 /\ bit \in Bit
      /\ unstuffed \in Seq(Bit)
  BY <1>1, Reading DEF IInv, TypeOK
<1>3. /\ Len(unstuffed') = n /\ unstuffed'[n] = bit /\ unstuffed' \in Seq(Bit)
      /\ \A i \in 1..Len(unstuffed) : unstuffed'[i] = unstuffed[i]
  BY <1>1, <1>2
<1>4. TypeOK'
  <2>1. bitCount' \in 0..4
    BY <1>1, <1>2, CountRange
  <2>2. stuffingFlag' \in 0..1 /\ readOffset' \in 0..Len(wire)
    BY <1>1, <1>2 DEF Flagged
  <2>. QED
    BY <2>1, <2>2, <1>1, <1>3 DEF IInv, TypeOK, ends, sending
<1>5. bit = (IF n <= Len(raw) THEN raw[n] ELSE 0) /\ InStep'
  <2>1. CASE readOffset < Len(stuffed)
    <3>1. /\ bit = stuffed[readOffset + 1] /\ Link(readOffset + 1)
          /\ at[readOffset + 1] = [kept |-> Len(unstuffed),
                                   ones |-> bitCount, extra |-> stuffingFlag]
      BY <1>1, <2>1, Reading
    <3>2. /\ Len(unstuffed) < Len(raw) /\ bit = raw[n]
          /\ at[readOffset + 2] = [kept |-> n, ones |-> NextCount(bit, bitCount),
                                   extra |-> Flagged(bit, bitCount)]
      BY <3>1, <1>1, <1>2 DEF Link
    <3>3. InStep'
      BY <3>2, <2>1, <1>1, <1>2, <1>3 DEF InStep, sending
    <3>. QED
      BY <3>2, <3>3, <1>2
  <2>2. CASE readOffset >= Len(stuffed)
    <3>1. /\ bit = 0
          /\ Len(unstuffed) = Len(raw) + (readOffset - Len(stuffed))
      BY <1>1, <2>2, Reading
    <3>2. stuffingFlag' = 0
      BY <3>1, <1>1 DEF Flagged, Fifth
    <3>3. InStep'
      BY <3>1, <3>2, <2>2, <1>1, <1>2, <1>3 DEF InStep, sending, ends
    <3>. QED
      BY <3>1, <3>3, <2>2, <1>2
  <2>. QED
    BY <2>1, <2>2, <1>2
<1>6. Kept'
  BY <1>1, <1>2, <1>3, <1>5, SMTT(30) DEF IInv, Kept, ends
<1>7. OnWire'
  BY <1>1 DEF IInv, OnWire, ends, sending
<1>8. Chain' /\ Paid'
  BY <1>1 DEF IInv, Chain, Link, Paid, Start, ends, sending
<1>. QED
  BY <1>4, <1>5, <1>6, <1>7, <1>8 DEF IInv

\* Delivery and stuttering leave all of it alone, so every step keeps it.
LEMMA IInvNext == IInv /\ [Next]_vars => IInv'
<1>. SUFFICES ASSUME IInv, [Next]_vars PROVE IInv'
  OBVIOUS
<1>1. CASE StuffBit
  BY <1>1, StuffBitStep
<1>2. CASE SendWire
  BY <1>2, SendWireStep
<1>3. CASE SkipStuffedBit
  BY <1>3, SkipStep
<1>4. CASE KeepBit
  BY <1>4, KeepStep
<1>5. CASE Deliver
  BY <1>5 DEF Deliver, IInv, TypeOK, Chain, Link, OnWire, InStep, Kept, Paid,
              Start, ends, sending, receiving
<1>6. CASE UNCHANGED vars
  BY <1>6 DEF vars, IInv, TypeOK, Chain, Link, OnWire, InStep, Kept, Paid,
              Start, ends, sending, receiving
<1>. QED
  BY <1>1, <1>2, <1>3, <1>4, <1>5, <1>6 DEF Next

\* The chain and the walk along it hold in every behaviour.
LEMMA Inductive == Spec => []IInv
  BY IInvInit, IInvNext, PTL DEF Spec

-----------------------------------------------------------------------------
(* Theorems *)

\* Both loops count below five and every buffer holds bits, for every frame.
THEOREM TypeCorrect == Spec => []TypeOK
<1>1. IInv => TypeOK
  BY DEF IInv
<1>. QED
  BY <1>1, Inductive, PTL

\* However many ones a frame has, stuffing adds at most a fifth of its bits:
\* the buffers of AX25_MAXIMUM_PKT_LEN are large enough.
THEOREM StuffingFits == Spec => []StuffedFits
<1>1. IInv => StuffedFits
  <2>. SUFFICES ASSUME IInv PROVE StuffedFits
    OBVIOUS
  <2>1. /\ oneCount \in 0..4 /\ Len(stuffed) \in Nat /\ rawOffset \in 0..Len(raw)
        /\ Len(raw) \in Nat
    BY RawBits DEF IInv, TypeOK
  <2>. QED
    BY <2>1 DEF IInv, Paid, StuffedFits
<1>. QED
  BY <1>1, Inductive, PTL

\* The unstuffer gets every bit of every frame back, in order, and less than
\* a byte of zeros after them.
THEOREM UnstuffingInverts == Spec => []BitsKept
<1>1. IInv => BitsKept
  <2>. SUFFICES ASSUME IInv PROVE BitsKept
    OBVIOUS
  <2>1. /\ readOffset \in 0..Len(wire) /\ Len(wire) \in Nat
        /\ Len(stuffed) \in Nat /\ Len(raw) \in Nat /\ Len(unstuffed) \in Nat
        /\ at \in Seq(State)
    BY RawBits DEF IInv, TypeOK, State
  <2>2. CASE readOffset <= Len(stuffed)
    <3>1. Len(at) = Len(stuffed) + 1
      BY DEF IInv, Chain
    <3>2. at[readOffset + 1] \in State
      BY <3>1, <2>1, <2>2, ElementOfSeq
    <3>3. at[readOffset + 1].kept = Len(unstuffed)
      BY <2>2 DEF IInv, InStep
    <3>4. Len(unstuffed) <= Len(raw)
      BY <3>2, <3>3, <2>1 DEF State
    <3>. QED
      BY <3>4, <2>1 DEF BitsKept, IInv, Kept
  <2>3. CASE readOffset > Len(stuffed)
    <3>1. Len(unstuffed) = Len(raw) + (readOffset - Len(stuffed))
      BY <2>1, <2>3 DEF IInv, InStep
    <3>2. Len(wire) <= Len(stuffed) + 7
      BY <2>1, <2>3 DEF IInv, OnWire
    <3>3. Len(unstuffed) <= Len(raw) + 7
      BY <3>1, <3>2, <2>1
    <3>. QED
      BY <3>3 DEF BitsKept, IInv, Kept
  <2>. QED
    BY <2>1, <2>2, <2>3
<1>. QED
  BY <1>1, Inductive, PTL

\* Between two ones in a row the count goes up by one, and stays below four.
LEMMA OneCounted ==
  ASSUME IInv, NEW p \in 1..(Len(stuffed) - 1),
         stuffed[p] = 1, stuffed[p + 1] = 1
  PROVE  /\ at[p].ones \in 0..3
         /\ at[p + 1].ones = at[p].ones + 1
<1>1. /\ Len(stuffed) \in Nat /\ at \in Seq(State) /\ Len(at) = Len(stuffed) + 1
  BY DEF IInv, TypeOK, Chain, State
<1>2. p \in 1..Len(stuffed) /\ p + 1 \in 1..Len(stuffed) /\ p \in 1..Len(at)
  BY <1>1
<1>3. Link(p) /\ Link(p + 1)
  BY <1>2 DEF IInv, Chain
<1>4. at[p] \in State
  BY <1>1, <1>2, ElementOfSeq
<1>5. at[p + 1].extra # 1
  BY <1>3 DEF Link
<1>6. at[p + 1] = [kept |-> at[p].kept + 1, ones |-> NextCount(1, at[p].ones),
                   extra |-> Flagged(1, at[p].ones)]
  BY <1>3 DEF Link
<1>7. at[p].ones # 4
  BY <1>5, <1>6 DEF Flagged, Fifth
<1>. QED
  BY <1>4, <1>6, <1>7 DEF State, NextCount

\* No frame puts six ones in a row on the wire: 0x7E appears only as a flag.
THEOREM NoFlagInside == Spec => []FlagFree
<1>1. IInv => FlagFree
  <2>. SUFFICES ASSUME IInv, NEW p \in 1..(Len(wire) - 5),
                       \A i \in p..(p + 5) : wire[i] # 0
                PROVE  FALSE
    BY DEF FlagFree
  <2>1. Len(wire) \in Nat /\ Len(stuffed) \in Nat /\ wire \in Seq(Bit)
    BY DEF IInv, TypeOK
  <2>2. phase # "stuffing"
    BY DEF IInv, OnWire
  <2>3. \A i \in p..(p + 5) :
           i \in 1..Len(wire) /\ i <= Len(stuffed) /\ stuffed[i] = 1
    <3>. SUFFICES ASSUME NEW i \in p..(p + 5)
                  PROVE  i \in 1..Len(wire) /\ i <= Len(stuffed) /\ stuffed[i] = 1
      OBVIOUS
    <3>1. i \in 1..Len(wire)
      BY <2>1
    <3>2. wire[i] = IF i <= Len(stuffed) THEN stuffed[i] ELSE 0
      BY <3>1, <2>2 DEF IInv, OnWire
    <3>3. wire[i] \in Bit /\ wire[i] # 0
      BY <3>1, <2>1, ElementOfSeq
    <3>. QED
      BY <3>1, <3>2, <3>3 DEF Bit
  <2>4. \A i \in p..(p + 4) : i \in 1..(Len(stuffed) - 1)
    BY <2>1, <2>3
  <2>5. \A i \in p..(p + 4) :
           at[i].ones \in 0..3 /\ at[i + 1].ones = at[i].ones + 1
    BY <2>3, <2>4, OneCounted
  <2>6. /\ at[p + 1].ones = at[p].ones + 1
        /\ at[p + 2].ones = at[p + 1].ones + 1
        /\ at[p + 3].ones = at[p + 2].ones + 1
        /\ at[p + 4].ones = at[p + 3].ones + 1
        /\ at[p].ones \in 0..3 /\ at[p + 4].ones \in 0..3
    BY <2>5
  <2>. DEFINE a == at[p].ones        b == at[p + 1].ones    c == at[p + 2].ones
              d == at[p + 3].ones    e == at[p + 4].ones
  <2>7. b = a + 1 /\ c = b + 1 /\ d = c + 1 /\ e = d + 1 /\ a \in 0..3 /\ e \in 0..3
    BY <2>6, Zenon
  <2>. HIDE DEF a, b, c, d, e
  <2>. QED
    BY <2>7
<1>. QED
  BY <1>1, Inductive, PTL

-----------------------------------------------------------------------------
(* How many bytes come out: frames of the lengths the code has arrive as they   *)
(* were sent.  A wire that was cut short has lost zeros only (Cut), and every   *)
(* bit of the frame has its place in the stuffed bits (Placed), in order        *)
(* (Rising); so what the unstuffer never read of the frame is zeros, and the    *)
(* counts at the end of both unstuffers put them back.                          *)

Rising == \A p, q \in 1..Len(at) : p <= q => at[p].kept <= at[q].kept

Placed ==
  \A i \in 1..rawOffset :
    \E p \in 1..Len(stuffed) : at[p + 1].kept = i /\ stuffed[p] = raw[i]

Cut ==
  phase # "stuffing" =>
    /\ stuffer = "c" => Len(wire) >= Len(stuffed)
    /\ \A p \in 1..Len(stuffed) : p > Len(wire) => stuffed[p] = 0

Finished ==
  phase = "done" =>
    /\ readOffset = Len(wire)
    /\ delivered = Bytes(unstuffed, IF unstuffer = "c" THEN CDelivered(unstuffed)
                                    ELSE PythonDelivered(unstuffed))

DInv == IInv /\ Rising /\ Placed /\ Cut /\ Finished

-----------------------------------------------------------------------------
(* The places of the frame's bits *)

LEMMA DInvInit == Init => DInv
<1>. SUFFICES ASSUME Init PROVE DInv
  OBVIOUS
<1>1. IInv
  BY IInvInit
<1>2. Rising /\ Placed
  BY DEF Init, Rising, Placed
<1>3. Cut /\ Finished
  BY DEF Init, Cut, Finished
<1>. QED
  BY <1>1, <1>2, <1>3 DEF DInv

\* One bit more of the frame: the states that are added have kept all of it.
LEMMA Added ==
  ASSUME IInv, StuffBit
  PROVE  LET L == Len(stuffed) IN
           /\ L \in Nat /\ Len(at) = L + 1 /\ Len(at') \in Nat /\ Len(at') >= L + 2
           /\ Len(stuffed') \in Nat /\ Len(stuffed') >= L + 1
           /\ at[L + 1].kept = rawOffset /\ stuffed'[L + 1] = raw[rawOffset + 1]
           /\ \A p \in 1..L : stuffed'[p] = stuffed[p]
           /\ \A p \in 1..(L + 1) : at'[p] = at[p]
           /\ \A p \in (L + 2)..Len(at') : at'[p].kept = rawOffset + 1
<1>. DEFINE L == Len(stuffed)
            bit == raw[rawOffset + 1]
            next(extra) == [kept |-> rawOffset + 1,
                            ones |-> NextCount(bit, oneCount), extra |-> extra]
<1>1. /\ stuffed \in Seq(Bit) /\ at \in Seq(State) /\ L \in Nat /\ rawOffset \in Nat
      /\ rawOffset < Len(raw) /\ bit \in Bit
  BY RawBits DEF IInv, TypeOK, StuffBit, State
<1>2. Len(at) = L + 1 /\ at[L + 1].kept = rawOffset
  BY DEF IInv, Chain
<1>3. CASE Fifth(bit, oneCount)
  <2>1. stuffed' = stuffed \o <<1, 0>> /\ at' = at \o <<next(1), next(0)>>
    BY <1>3 DEF StuffBit, Emitted
  <2>2. bit = 1
    BY <1>3 DEF Fifth
  <2>. HIDE DEF next
  <2>3. /\ Len(at') = L + 3 /\ at'[L + 2] = next(1) /\ at'[L + 3] = next(0)
        /\ \A p \in 1..(L + 1) : at'[p] = at[p]
    BY <2>1, <1>1, <1>2, SMTT(30)
  <2>4. /\ Len(stuffed') = L + 2 /\ stuffed'[L + 1] = 1
        /\ \A p \in 1..L : stuffed'[p] = stuffed[p]
    BY <2>1, <1>1
  <2>5. next(1).kept = rawOffset + 1 /\ next(0).kept = rawOffset + 1
    BY DEF next
  <2>6. ASSUME NEW p \in (L + 2)..Len(at') PROVE at'[p].kept = rawOffset + 1
    <3>1. p = L + 2 \/ p = L + 3
      BY <2>3, <1>1
    <3>. QED
      BY <3>1, <2>3, <2>5
  <2>. QED
    BY <1>1, <1>2, <2>2, <2>3, <2>4, <2>6
<1>4. CASE ~Fifth(bit, oneCount)
  <2>1. stuffed' = stuffed \o <<bit>> /\ at' = at \o <<next(0)>>
    BY <1>4 DEF StuffBit, Emitted
  <2>. HIDE DEF next
  <2>3. /\ Len(at') = L + 2 /\ at'[L + 2] = next(0)
        /\ \A p \in 1..(L + 1) : at'[p] = at[p]
    BY <2>1, <1>1, <1>2
  <2>4. /\ Len(stuffed') = L + 1 /\ stuffed'[L + 1] = bit
        /\ \A p \in 1..L : stuffed'[p] = stuffed[p]
    BY <2>1, <1>1
  <2>5. next(0).kept = rawOffset + 1
    BY DEF next
  <2>6. ASSUME NEW p \in (L + 2)..Len(at') PROVE at'[p].kept = rawOffset + 1
    <3>1. p = L + 2
      BY <2>3, <1>1
    <3>. QED
      BY <3>1, <2>3, <2>5
  <2>. QED
    BY <1>1, <1>2, <2>3, <2>4, <2>6
<1>. QED
  BY <1>3, <1>4

\* Stuffing keeps the places of the bits and their order.
LEMMA StuffBitPlaces == DInv /\ StuffBit => DInv'
<1>. SUFFICES ASSUME DInv, StuffBit PROVE DInv'
  OBVIOUS
<1>. DEFINE L == Len(stuffed)
<1>0. IInv /\ Rising /\ Placed /\ IInv'
  BY StuffBitStep DEF DInv
<1>1. /\ L \in Nat /\ Len(at) = L + 1 /\ Len(at') \in Nat /\ Len(at') >= L + 2
      /\ Len(stuffed') \in Nat /\ Len(stuffed') >= L + 1
      /\ at[L + 1].kept = rawOffset /\ stuffed'[L + 1] = raw[rawOffset + 1]
      /\ \A p \in 1..L : stuffed'[p] = stuffed[p]
      /\ \A p \in 1..(L + 1) : at'[p] = at[p]
      /\ \A p \in (L + 2)..Len(at') : at'[p].kept = rawOffset + 1
  BY <1>0, Added
<1>2. rawOffset \in Nat /\ rawOffset' = rawOffset + 1 /\ raw' = raw
  BY <1>0, RawBits DEF IInv, TypeOK, StuffBit, ends
<1>3. ASSUME NEW p \in 1..(L + 1) PROVE at[p].kept <= rawOffset
  <2>1. p \in 1..Len(at) /\ L + 1 \in 1..Len(at) /\ p <= L + 1
    BY <1>1
  <2>. QED
    BY <2>1, <1>0, <1>1 DEF Rising
<1>4. ASSUME NEW p \in 1..Len(at'), NEW q \in 1..Len(at'), p <= q
      PROVE  at'[p].kept <= at'[q].kept
  <2>1. CASE q <= L + 1
    <3>1. p \in 1..(L + 1) /\ q \in 1..(L + 1)
      BY <2>1, <1>1, <1>4
    <3>2. at[p].kept <= at[q].kept
      BY <3>1, <1>0, <1>1, <1>4 DEF Rising
    <3>. QED
      BY <3>1, <3>2, <1>1
  <2>2. CASE q > L + 1 /\ p <= L + 1
    <3>1. p \in 1..(L + 1) /\ q \in (L + 2)..Len(at')
      BY <2>2, <1>1
    <3>2. at'[q].kept = rawOffset + 1 /\ at'[p] = at[p]
      BY <3>1, <1>1
    <3>3. at[p] \in State
      <4>1. at \in Seq(State) /\ p \in 1..Len(at)
        BY <3>1, <1>0, <1>1 DEF IInv, TypeOK, State
      <4>. QED
        BY <4>1, ElementOfSeq
    <3>4. at[p].kept \in Int
      BY <3>3, <1>0, RawBits DEF State, IInv
    <3>. QED
      BY <3>1, <3>2, <3>4, <1>2, <1>3
  <2>3. CASE p > L + 1
    <3>1. p \in (L + 2)..Len(at') /\ q \in (L + 2)..Len(at')
      BY <2>3, <1>1, <1>4
    <3>. QED
      BY <3>1, <1>1, <1>2
  <2>. QED
    BY <2>1, <2>2, <2>3, <1>1
<1>5. ASSUME NEW i \in 1..rawOffset'
      PROVE  \E p \in 1..Len(stuffed') : at'[p + 1].kept = i /\ stuffed'[p] = raw'[i]
  <2>1. CASE i <= rawOffset
    <3>1. PICK p \in 1..L : at[p + 1].kept = i /\ stuffed[p] = raw[i]
      BY <2>1, <1>0, <1>2, SMTT(30) DEF Placed
    <3>2. p \in 1..Len(stuffed') /\ p + 1 \in 1..(L + 1)
      BY <1>1
    <3>. QED
      BY <3>1, <3>2, <1>1, <1>2
  <2>2. CASE i = rawOffset + 1
    <3>1. L + 1 \in 1..Len(stuffed') /\ L + 2 \in (L + 2)..Len(at')
      BY <1>1
    <3>2. at'[(L + 1) + 1].kept = i
      BY <3>1, <2>2, <1>1
    <3>. QED
      BY <3>1, <3>2, <2>2, <1>1, <1>2
  <2>. QED
    BY <2>1, <2>2, <1>2
<1>6. phase = "stuffing" /\ phase' = "stuffing"
  BY DEF StuffBit
<1>. QED
  BY <1>0, <1>4, <1>5, <1>6 DEF DInv, Rising, Placed, Cut, Finished

\* Either sender leaves out nothing but zeros, and the C library nothing.
LEMMA SendWirePlaces == DInv /\ SendWire => DInv'
<1>. SUFFICES ASSUME DInv, SendWire PROVE DInv'
  OBVIOUS
<1>1. IInv' /\ Rising /\ Placed /\ stuffed \in Seq(Bit)
  BY SendWireStep DEF DInv, IInv, TypeOK
<1>2. UNCHANGED <<ends, sending>> /\ phase' = "unstuffing"
  BY DEF SendWire
<1>3. PICK k \in 0..(Len(stuffed) \div 8 + 1) :
        WireBytes(stuffer, stuffed, k) /\ wire' = Bytes(stuffed, k)
  BY DEF SendWire
<1>4. Len(stuffed) \in Nat /\ k \in Nat
  BY <1>1
<1>5. Len(wire') = 8 * k
  BY <1>1, <1>3, <1>4, BytesType
<1>6. stuffer = "c" => Len(wire') >= Len(stuffed)
  BY <1>3, <1>4, <1>5 DEF WireBytes
<1>7. ASSUME NEW p \in 1..Len(stuffed), p > 8 * k
      PROVE  stuffed[p] = 0
  <2>1. stuffer # "c"
    BY <1>4, <1>5, <1>6, <1>7
  <2>. DEFINE b == (p + 7) \div 8
  <2>2. b \in (k + 1)..(Len(stuffed) \div 8 + 1) /\ p \in (8 * b - 7)..(8 * b)
    BY <1>4, <1>7
  <2>. HIDE DEF b
  <2>3. ZeroByte(stuffed, b)
    BY <2>1, <2>2, <1>3 DEF WireBytes
  <2>. QED
    BY <2>2, <2>3, <1>4 DEF ZeroByte
<1>8. Cut'
  BY <1>2, <1>5, <1>6, <1>7 DEF Cut, ends, sending
<1>9. Rising' /\ Placed' /\ Finished'
  BY <1>1, <1>2 DEF Rising, Placed, Finished, ends, sending
<1>. QED
  BY <1>1, <1>8, <1>9 DEF DInv

LEMMA DInvNext == DInv /\ [Next]_vars => DInv'
<1>. SUFFICES ASSUME DInv, [Next]_vars PROVE DInv'
  OBVIOUS
<1>0. IInv'
  BY IInvNext DEF DInv
<1>1. CASE StuffBit
  BY <1>1, StuffBitPlaces
<1>2. CASE SendWire
  BY <1>2, SendWirePlaces
<1>3. CASE SkipStuffedBit \/ KeepBit
  <2>1. UNCHANGED <<ends, phase, sending, wire>> /\ phase = "unstuffing"
    BY <1>3 DEF SkipStuffedBit, KeepBit
  <2>. QED
    BY <1>0, <2>1 DEF DInv, Rising, Placed, Cut, Finished, ends, sending
<1>4. CASE Deliver
  <2>1. UNCHANGED <<ends, sending, wire, receiving>> /\ phase # "stuffing"
    BY <1>4 DEF Deliver
  <2>2. Finished'
    BY <1>4 DEF Deliver, Finished, ends, receiving
  <2>. QED
    BY <1>0, <2>1, <2>2 DEF DInv, Rising, Placed, Cut, ends, sending
<1>5. CASE UNCHANGED vars
  BY <1>0, <1>5 DEF vars, DInv, Rising, Placed, Cut, Finished, ends, sending, receiving
<1>. QED
  BY <1>1, <1>2, <1>3, <1>4, <1>5 DEF Next

LEMMA Invariance == Spec => []DInv
  BY DInvInit, DInvNext, PTL DEF Spec

-----------------------------------------------------------------------------
(* The counts at the end *)

\* A zero byte is one behind the frame, or the frame's own.
LEMMA BehindFrame ==
  ASSUME NEW bits \in Seq(Bit), NEW n \in Nat,
         \A i \in 1..Len(bits) : i > 8 * n => bits[i] = 0
  PROVE  ZeroByte(bits, n + 1)
  BY DEF ZeroByte

\* A byte that is not zero has been read, at least in part.
LEMMA ReadInPart ==
  ASSUME NEW bits \in Seq(Bit), NEW n \in Nat, ~ZeroByte(bits, n), Len(bits) < 8 * n
  PROVE  Len(bits) >= 8 * n - 7
<1>1. n > 0 /\ Len(bits) \in Nat
  BY DEF ZeroByte
<1>2. PICK i \in (8 * n - 7)..(8 * n) : i <= Len(bits)
  BY <1>1 DEF ZeroByte
<1>. QED
  BY <1>1, <1>2

\* AX25.unstuff ends with the bytes of the frame: it drops the byte behind it, and
\* a full frame's own last byte never.
LEMMA PythonCount ==
  ASSUME NEW bits \in Seq(Bit), NEW n \in Nat, Len(bits) <= 8 * n + 7,
         \A i \in 1..Len(bits) : i > 8 * n => bits[i] = 0,
         Len(bits) >= 8 * n \/ ~ZeroByte(bits, n),
         n >= RsEncodedDataSize + NonInfoBytes \/ n + 1 < RsEncodedDataSize
  PROVE  PythonDelivered(bits) = n
<1>1. RsEncodedDataSize \in Nat /\ NonInfoBytes \in Nat /\ Len(bits) \in Nat
  BY SizesAssumption
<1>2. CASE Len(bits) >= 8 * n
  <2>1. Len(bits) \div 8 + 1 = n + 1
    BY <1>1, <1>2
  <2>2. ZeroByte(bits, n + 1)
    BY BehindFrame
  <2>3. n + 1 > RsEncodedDataSize + NonInfoBytes \/ n + 1 < RsEncodedDataSize
    BY <1>1
  <2>. QED
    BY <2>1, <2>2, <2>3 DEF PythonDelivered
<1>3. CASE Len(bits) < 8 * n
  <2>1. ~ZeroByte(bits, n)
    BY <1>1, <1>3
  <2>2. Len(bits) >= 8 * n - 7
    BY <2>1, <1>3, ReadInPart
  <2>3. Len(bits) \div 8 + 1 = n
    BY <2>2, <1>1, <1>3
  <2>. QED
    BY <2>1, <2>3 DEF PythonDelivered
<1>. QED
  BY <1>1, <1>2, <1>3

\* ax25Unstuff does when the last byte of the frame is not zero.
LEMMA CCount ==
  ASSUME NEW bits \in Seq(Bit), NEW n \in Nat, Len(bits) <= 8 * n + 7,
         \A i \in 1..Len(bits) : i > 8 * n => bits[i] = 0,
         ~ZeroByte(bits, n)
  PROVE  CDelivered(bits) = n
<1>. DEFINE written == (8 + Len(bits)) \div 8
            Stops(w) == {t \in 0..InfoBytes : t = InfoBytes \/ ~ZeroByte(bits, w - t)}
<1>1. InfoBytes \in Nat /\ InfoBytes >= 1 /\ Len(bits) \in Nat
  BY SizesAssumption
<1>2. CASE Len(bits) >= 8 * n
  <2>1. written = n + 1
    BY <1>1, <1>2
  <2>2. 1 \in Stops(n + 1)
    <3>1. (n + 1) - 1 = n
      OBVIOUS
    <3>. QED
      BY <3>1, <1>1
  <2>3. \A t \in Stops(n + 1) : t >= 1
    <3>1. ZeroByte(bits, (n + 1) - 0)
      BY BehindFrame
    <3>2. 0 \notin Stops(n + 1)
      BY <3>1, <1>1
    <3>3. Stops(n + 1) \subseteq Nat
      BY <1>1
    <3>. QED
      BY <3>2, <3>3
  <2>4. Min(Stops(n + 1)) = 1
    <3>. HIDE DEF Stops
    <3>1. \A x \in Stops(n + 1) : (\A y \in Stops(n + 1) : x <= y) => x = 1
      <4>1. Stops(n + 1) \subseteq Nat
        BY <1>1 DEF Stops
      <4>. QED
        BY <4>1, <2>2, <2>3
    <3>. QED
      BY <3>1, <2>2, <2>3 DEF Min
  <2>5. CDelivered(bits) = IF Min(Stops(written)) = 0 THEN (8 + Len(bits) + 7) \div 8 - 1
                           ELSE written - Min(Stops(written))
    BY DEF CDelivered
  <2>. QED
    <3>. HIDE DEF Stops, written
    <3>. QED
      BY <2>1, <2>4, <2>5
<1>3. CASE Len(bits) < 8 * n
  <2>1. Len(bits) >= 8 * n - 7
    BY <1>3, ReadInPart
  <2>2. written = n /\ (8 + Len(bits) + 7) \div 8 - 1 = n
    BY <2>1, <1>1, <1>3
  <2>3. 0 \in Stops(n)
    <3>1. n - 0 = n
      OBVIOUS
    <3>. QED
      BY <3>1, <1>1
  <2>4. Min(Stops(n)) = 0
    <3>. HIDE DEF Stops
    <3>1. Stops(n) \subseteq Nat
      BY <1>1 DEF Stops
    <3>2. \A x \in Stops(n) : (\A y \in Stops(n) : x <= y) => x = 0
      BY <3>1, <2>3
    <3>3. \A y \in Stops(n) : 0 <= y
      BY <3>1
    <3>. QED
      BY <3>2, <3>3, <2>3 DEF Min
  <2>5. CDelivered(bits) = IF Min(Stops(written)) = 0 THEN (8 + Len(bits) + 7) \div 8 - 1
                           ELSE written - Min(Stops(written))
    BY DEF CDelivered
  <2>. QED
    <3>. HIDE DEF Stops, written
    <3>. QED
      BY <2>2, <2>4, <2>5
<1>. QED
  BY <1>1, <1>2, <1>3

\* A buffer as long as the frame holds the frame when what is missing are zeros.
LEMMA BufferIsFrame ==
  ASSUME NEW bits \in Seq(Bit), NEW frame \in Seq(Bit), NEW n \in Nat, Len(frame) = 8 * n,
         \A i \in 1..Len(bits) : bits[i] = IF i <= Len(frame) THEN frame[i] ELSE 0,
         \A i \in 1..Len(frame) : i > Len(bits) => frame[i] = 0
  PROVE  Bytes(bits, n) = frame
<1>1. /\ Bytes(bits, n) \in Seq(Bit) /\ Len(Bytes(bits, n)) = 8 * n
      /\ \A i \in 1..(8 * n) : Bytes(bits, n)[i] = IF i <= Len(bits) THEN bits[i] ELSE 0
  BY BytesType
<1>2. ASSUME NEW i \in 1..Len(frame) PROVE Bytes(bits, n)[i] = frame[i]
  <2>1. CASE i <= Len(bits)
    <3>1. i \in 1..Len(bits)
      BY <2>1
    <3>2. bits[i] = frame[i]
      BY <3>1
    <3>. QED
      BY <3>2, <2>1, <1>1
  <2>2. CASE i > Len(bits)
    <3>1. frame[i] = 0
      BY <2>2
    <3>. QED
      BY <3>1, <2>2, <1>1
  <2>. QED
    BY <2>1, <2>2
<1>. HIDE DEF Bytes
<1>. QED
  BY <1>1, <1>2, SeqEqual

-----------------------------------------------------------------------------
(* The frame *)

\* At the end the bits that were kept are those of the frame, but for zeros.
LEMMA Unread ==
  ASSUME DInv, phase = "done"
  PROVE  /\ raw \in Seq(Bit) /\ unstuffed \in Seq(Bit)
         /\ Len(unstuffed) <= Len(raw) + 7
         /\ stuffer = "c" => Len(unstuffed) >= Len(raw)
         /\ \A i \in 1..Len(raw) : i > Len(unstuffed) => raw[i] = 0
<1>1. /\ raw \in Seq(Bit) /\ unstuffed \in Seq(Bit) /\ stuffed \in Seq(Bit)
      /\ wire \in Seq(Bit) /\ Len(raw) \in Nat /\ Len(unstuffed) \in Nat
      /\ Len(stuffed) \in Nat /\ Len(wire) \in Nat /\ at \in Seq(State)
  BY RawBits DEF DInv, IInv, TypeOK, State
<1>2. readOffset = Len(wire) /\ rawOffset = Len(raw) /\ Len(wire) <= Len(stuffed) + 7
  BY DEF DInv, IInv, Finished, OnWire
<1>3. Len(at) = Len(stuffed) + 1 /\ at[Len(stuffed) + 1].kept = Len(raw)
  BY <1>2 DEF DInv, IInv, Chain
<1>4. CASE Len(wire) >= Len(stuffed)
  <2>1. Len(unstuffed) = Len(raw) + (Len(wire) - Len(stuffed))
    <3>1. CASE Len(wire) > Len(stuffed)
      BY <3>1, <1>1, <1>2 DEF DInv, IInv, InStep
    <3>2. CASE Len(wire) = Len(stuffed)
      <4>1. at[readOffset + 1].kept = Len(unstuffed)
        BY <3>2, <1>1, <1>2 DEF DInv, IInv, InStep
      <4>. QED
        BY <4>1, <3>2, <1>1, <1>2, <1>3
    <3>. QED
      BY <3>1, <3>2, <1>1, <1>4
  <2>. QED
    BY <2>1, <1>1, <1>2, <1>4
<1>5. CASE Len(wire) < Len(stuffed)
  <2>1. stuffer # "c"
    BY <1>1, <1>5 DEF DInv, Cut
  <2>2. at[Len(wire) + 1].kept = Len(unstuffed)
    BY <1>1, <1>2, <1>5 DEF DInv, IInv, InStep
  <2>3. Len(wire) + 1 \in 1..Len(at) /\ Len(stuffed) + 1 \in 1..Len(at)
    BY <1>1, <1>3, <1>5
  <2>4. Len(unstuffed) <= Len(raw)
    <3>1. at[Len(wire) + 1].kept <= at[Len(stuffed) + 1].kept
      <4>. DEFINE x == Len(wire) + 1    y == Len(stuffed) + 1
      <4>1. x \in 1..Len(at) /\ y \in 1..Len(at) /\ x <= y
        BY <2>3, <1>1, <1>5
      <4>. HIDE DEF x, y
      <4>2. at[x].kept <= at[y].kept
        BY <4>1 DEF DInv, Rising
      <4>. QED
        BY <4>2, Zenon DEF x, y
    <3>. QED
      BY <2>2, <3>1, <1>3, Zenon
  <2>5. ASSUME NEW i \in 1..Len(raw), i > Len(unstuffed) PROVE raw[i] = 0
    <3>1. PICK p \in 1..Len(stuffed) : at[p + 1].kept = i /\ stuffed[p] = raw[i]
      BY <1>2 DEF DInv, Placed
    <3>2. p > Len(wire)
      <4>1. SUFFICES ASSUME p <= Len(wire) PROVE FALSE
        BY <1>1
      <4>2. p + 1 \in 1..Len(at) /\ p + 1 <= Len(wire) + 1
        BY <4>1, <1>1, <1>3
      <4>3. at[p + 1].kept <= at[Len(wire) + 1].kept
        BY <4>2, <2>3 DEF DInv, Rising
      <4>. QED
        BY <4>3, <3>1, <2>2, <2>5, <1>1
    <3>3. stuffed[p] = 0
      BY <3>2 DEF DInv, Cut
    <3>. QED
      BY <3>1, <3>3
  <2>. QED
    BY <2>1, <2>4, <2>5, <1>1
<1>. QED
  BY <1>1, <1>4, <1>5

\* The frame is whole bytes, and as long as the code's frames.
LEMMA FrameSize ==
  ASSUME IInv
  PROVE  LET n == Len(raw) \div 8 IN
           /\ n \in Nat /\ Len(raw) = 8 * n
           /\ n >= RsEncodedDataSize + NonInfoBytes \/ n + 1 < RsEncodedDataSize
<1>1. raw \in Contents /\ Len(raw) \in Nat
  BY RawBits DEF IInv, TypeOK
<1>2. Len(raw) % 8 = 0
  BY <1>1, StuffingAssumption
<1>. QED
  BY <1>1, <1>2, SizesAssumption

\* What both theorems need: the count is that of the frame.
LEMMA CountSuffices ==
  ASSUME DInv, phase = "done",
         (IF unstuffer = "c" THEN CDelivered(unstuffed) ELSE PythonDelivered(unstuffed))
           = Len(raw) \div 8
  PROVE  delivered = raw
<1>1. delivered = Bytes(unstuffed, Len(raw) \div 8)
  BY DEF DInv, Finished
<1>2. Len(raw) \div 8 \in Nat /\ Len(raw) = 8 * (Len(raw) \div 8)
  BY FrameSize DEF DInv
<1>3. \A i \in 1..Len(unstuffed) : unstuffed[i] = IF i <= Len(raw) THEN raw[i] ELSE 0
  BY DEF DInv, IInv, Kept
<1>. QED
  BY <1>1, <1>2, <1>3, Unread, BufferIsFrame

\* Every frame of the code's lengths whose last byte is not zero arrives as it was
\* sent, from either implementation at either, whatever it holds.
THEOREM FramesAreDelivered == Spec => []FrameDelivered
<1>1. DInv => FrameDelivered
  <2>. SUFFICES ASSUME DInv, phase = "done", ~ZeroByte(raw, Len(raw) \div 8)
                PROVE  delivered = raw
    BY DEF FrameDelivered
  <2>. DEFINE n == Len(raw) \div 8
  <2>1. /\ raw \in Seq(Bit) /\ unstuffed \in Seq(Bit)
        /\ Len(unstuffed) <= Len(raw) + 7
        /\ \A i \in 1..Len(raw) : i > Len(unstuffed) => raw[i] = 0
    BY Unread
  <2>2. /\ n \in Nat /\ Len(raw) = 8 * n
        /\ n >= RsEncodedDataSize + NonInfoBytes \/ n + 1 < RsEncodedDataSize
    BY FrameSize DEF DInv
  <2>3. \A i \in 1..Len(unstuffed) : unstuffed[i] = IF i <= Len(raw) THEN raw[i] ELSE 0
    BY DEF DInv, IInv, Kept
  <2>4. ~ZeroByte(unstuffed, n)
    <3>1. SUFFICES ASSUME n > 0 PROVE ~ZeroByte(unstuffed, n)
      BY <2>2 DEF ZeroByte
    <3>2. PICK i \in (8 * n - 7)..(8 * n) : i <= Len(raw) /\ raw[i] # 0
      BY <3>1 DEF ZeroByte
    <3>3. i \in 1..Len(raw)
      BY <3>1, <3>2, <2>2
    <3>4. i \in 1..Len(unstuffed)
      BY <3>2, <3>3, <2>1
    <3>5. unstuffed[i] # 0
      BY <3>2, <3>4, <2>3
    <3>. QED
      BY <3>2, <3>4, <3>5 DEF ZeroByte
  <2>. HIDE DEF n
  <2>5. \A i \in 1..Len(unstuffed) : i > 8 * n => unstuffed[i] = 0
    BY <2>2, <2>3
  <2>6. Len(unstuffed) <= 8 * n + 7
    BY <2>1, <2>2
  <2>7. PythonDelivered(unstuffed) = n
    BY <2>1, <2>2, <2>4, <2>5, <2>6, PythonCount
  <2>8. CDelivered(unstuffed) = n
    BY <2>1, <2>2, <2>4, <2>5, <2>6, CCount
  <2>. QED
    BY <2>7, <2>8, CountSuffices DEF n
<1>. QED
  BY <1>1, Invariance, PTL

\* What the C library sends reaches the Python class unchanged, with any last byte,
\* for every frame of the code's lengths.
THEOREM DownlinkIsExact == Spec => []DownlinkExact
<1>1. DInv => DownlinkExact
  <2>. SUFFICES ASSUME DInv, phase = "done", stuffer = "c", unstuffer = "python"
                PROVE  delivered = raw
    BY DEF DownlinkExact
  <2>. DEFINE n == Len(raw) \div 8
  <2>1. /\ unstuffed \in Seq(Bit) /\ Len(unstuffed) <= Len(raw) + 7
        /\ Len(unstuffed) >= Len(raw)
    BY Unread
  <2>2. /\ n \in Nat /\ Len(raw) = 8 * n
        /\ n >= RsEncodedDataSize + NonInfoBytes \/ n + 1 < RsEncodedDataSize
    BY FrameSize DEF DInv
  <2>3. \A i \in 1..Len(unstuffed) : unstuffed[i] = IF i <= Len(raw) THEN raw[i] ELSE 0
    BY DEF DInv, IInv, Kept
  <2>. HIDE DEF n
  <2>4. \A i \in 1..Len(unstuffed) : i > 8 * n => unstuffed[i] = 0
    BY <2>2, <2>3
  <2>5. Len(unstuffed) <= 8 * n + 7 /\ Len(unstuffed) >= 8 * n
    BY <2>1, <2>2
  <2>6. PythonDelivered(unstuffed) = n
    BY <2>1, <2>2, <2>4, <2>5, PythonCount
  <2>7. unstuffer # "c"
    OBVIOUS
  <2>. QED
    BY <2>6, <2>7, CountSuffices DEF n
<1>. QED
  BY <1>1, Invariance, PTL
=============================================================================
