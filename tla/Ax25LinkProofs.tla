---------------------------- MODULE Ax25LinkProofs ----------------------------
(***************************************************************************)
(* Proofs about Ax25Link, for every window up to 7, every counter width up *)
(* to a byte and every set of nodes.  The inductive invariant IInv relates *)
(* the two counters to the history variables (Numbers) and says what every *)
(* frame on the air was built from (GoodAir).                              *)
(***************************************************************************)
EXTENDS Ax25Link, SequenceTheorems, TLAPS

\* A remainder is a digit.
LEMMA ModRange ==
  ASSUME NEW m \in Nat \ {0}, NEW x \in Nat
  PROVE  x % m \in 0..(m - 1)
  OBVIOUS

\* Adding 1 modulo m carries only at m - 1.
LEMMA ModStep ==
  ASSUME NEW m \in Nat \ {0}, NEW x \in 0..(m - 1)
  PROVE  (x + 1) % m = IF x + 1 = m THEN 0 ELSE x + 1
  OBVIOUS

\* A number below 8 has no bit above bit 2.
LEMMA SmallBits ==
  ASSUME NEW x \in 0..7
  PROVE  Bits(x) \subseteq 0..2
<1>1. \A i \in 0..7 : i > 2 => x \div Weight[i + 1] = 0
  BY DEF Weight
<1>2. QED
  BY <1>1 DEF Bits

\* Two numbers below 8 do not touch each other, bit 0 or the poll bit when
\* they are shifted into one control byte.
LEMMA ControlFields ==
  ASSUME NEW ns \in 0..7, NEW nr \in 0..7
  PROVE  /\ IFrameControl(nr, ns) \in Byte
         /\ 0 \notin IFrameControl(nr, ns)
         /\ PollFinal \notin IFrameControl(nr, ns)
         /\ NSField(IFrameControl(nr, ns)) = Bits(ns)
         /\ NRField(IFrameControl(nr, ns)) = Bits(nr)
<1>1. Bits(ns) \subseteq 0..2 /\ Bits(nr) \subseteq 0..2
  BY SmallBits
<1>. DEFINE c == IFrameControl(nr, ns)
<1>2. \A i \in 0..7 : i \in c <=> (i - 5 \in Bits(nr) \/ i - 1 \in Bits(ns))
  BY DEF IFrameControl, Shl
<1>3. c \in Byte
  BY DEF IFrameControl, Shl, Byte
<1>4. 0 \notin c /\ PollFinal \notin c
  BY <1>1, <1>2 DEF PollFinal
<1>5. \A i \in 0..2 : i + 1 \in c <=> i \in Bits(ns)
  BY <1>1, <1>2
<1>6. \A i \in 0..2 : i + 5 \in c <=> i \in Bits(nr)
  BY <1>1, <1>2
<1>7. NSField(c) = Bits(ns)
  BY <1>1, <1>5 DEF NSField
<1>8. NRField(c) = Bits(nr)
  BY <1>1, <1>6 DEF NRField
<1>. QED
  BY <1>3, <1>4, <1>7, <1>8

\* What Capped lets through is below the window.
LEMMA CappedRange ==
  ASSUME NEW x \in Counter
  PROVE  Capped(x) \in 0..(Window - 1)
  BY LinkAssumption DEF Capped, Counter

-----------------------------------------------------------------------------
(* Type correctness *)

\* A transmission of whole frames leaves queues of whole frames.
LEMMA TransmitType ==
  ASSUME air \in [Nodes -> Seq(Frame)],
         NEW n, NEW frames \in Seq(Frame), Transmit(n, frames)
  PROVE  air' \in [Nodes -> Seq(Frame)]
<1>1. \A m \in Nodes : air[m] \o frames \in Seq(Frame)
  BY ConcatProperties
<1>2. QED
  BY <1>1 DEF Transmit

\* Taking the head of a queue leaves a queue, and the head is a frame.
LEMMA TakeType ==
  ASSUME air \in [Nodes -> Seq(Frame)], NEW n \in Nodes, Take(n)
  PROVE  /\ air' \in [Nodes -> Seq(Frame)]
         /\ Head(air[n]) \in Frame
  BY HeadTailProperties DEF Take

\* ax25GetDestAddress fills the address in completely or not at all.
LEMMA AddressType ==
  ASSUME NEW call, NEW ssid \in Nat
  PROVE  GetAddress(call, ssid) \in Address \cup {NoAddr}
<1>1. ssid <= 16 => ssid % 16 \in 0..15
  BY ModRange
<1>2. QED
  BY <1>1 DEF GetAddress, Address

\* The two fixed callsigns give complete addresses.
LEMMA StationTypes ==
  /\ CubeSat \in Address /\ GroundStation \in Address
  /\ CubeSat # NoAddr
<1>1. 0 % 16 = 0
  OBVIOUS
<1>2. CubeSat = [call |-> "AKITO", ssid |-> 0]
  BY <1>1 DEF CubeSat, GetAddress, Callsigns
<1>3. GroundStation = [call |-> "ATLAS", ssid |-> 0]
  BY <1>1 DEF GroundStation, GetAddress, Callsigns
<1>4. CubeSat # NoAddr
  BY <1>2 DEF NoAddr
<1>5. QED
  BY <1>2, <1>3, <1>4 DEF Address, Callsigns

\* A frame that carries no number is a frame.
LEMMA PlainFrameType ==
  ASSUME NEW dst \in Address, NEW control \in Byte, NEW byte16 \in Byte,
         NEW state \in {"intact", "damaged", "misframed"}
  PROVE  PlainFrame(dst, control, byte16, state) \in Frame
  BY StationTypes DEF PlainFrame, Frame

\* The frame ax25SendIFrame builds is a frame: its numbers fit the counters.
LEMMA IFrameType ==
  ASSUME TypeOK, NEW n \in Library, currentLinkDestAddr[n] # NoAddr,
         NEW ns \in 0..(Window - 1), NEW nr \in 0..(Window - 1)
  PROVE  IFrame(n, ns, nr) \in Frame
<1>1. ns \in 0..7 /\ nr \in 0..7 /\ ns \in Counter /\ nr \in Counter
  BY LinkAssumption DEF Counter
<1>2. IFrameControl(nr, ns) \in Byte
  BY <1>1, ControlFields
<1>3. currentLinkDestAddr[n] \in Address
  BY DEF TypeOK
<1>4. Pid \in Byte
  BY DEF Pid, Byte
<1>5. accepted[n] \in 0..(Window - 1)
  BY DEF TypeOK
<1>6. QED
  BY <1>1, <1>2, <1>3, <1>4, <1>5, StationTypes DEF IFrame, Frame

\* So is each frame of a flag-sharing burst, whatever the counters hold.
LEMMA SharedFrameType ==
  ASSUME NEW n, NEW i
  PROVE  SharedFrame(n, CubeSat, i) \in Frame
<1>1. \A b, k : Shl(b, k) \in Byte
  BY DEF Shl, Byte
<1>2. QED
  BY <1>1, StationTypes, PlainFrameType DEF SharedFrame

\* Every U frame command gives a control byte.
LEMMA UFrameControlType ==
  ASSUME NEW cmd \in 0..3, NEW pollFinalBit \in 0..1
  PROVE  UFrameControl(cmd, pollFinalBit) \in Byte
<1>1. Ack \in Byte /\ Disc \in Byte /\ Sabm \in Byte /\ PollFinal \in 0..7
  BY DEF Ack, Disc, Sabm, PollFinal, Byte
<1>2. QED
  BY <1>1 DEF UFrameControl, Byte

\* The initial state is well typed.
LEMMA TypeInit == Init => TypeOK
<1>1. 0 \in Counter
  BY LinkAssumption DEF Counter
<1>2. <<>> \in Seq(Frame)
  OBVIOUS
<1>3. QED
  BY <1>1, <1>2, LinkAssumption DEF Init, TypeOK, Idle, Unnumbered

\* ax25Recv returns one of five codes.
LEMMA VerdictType ==
  ASSUME NEW n, NEW f
  PROVE  Verdict(n, f) \in {"SUCCESS", "INVALID_ARG", "INVALID_TNC",
                            "INVALID_AX25_PACKET", "CORRUPTED_AX25_MSG"}
  BY DEF Verdict, IFrameVerdict, UFrameVerdict, SFrameVerdict

\* The frames of the Python class are frames.
LEMMA GroundFrameType ==
  ASSUME NEW call \in GroundCallsigns, NEW control \in GroundControls,
         NEW byte16 \in GroundByte16(control)
  PROVE  GroundFrame(call, control, byte16) \in Frame
<1>1. control \in Byte /\ byte16 \in Byte
  BY LinkAssumption DEF GroundByte16, Pid, Byte
<1>2. GetAddress(call, 0) \in Address
  BY LinkAssumption DEF GetAddress, Address
<1>3. PlainFrame(CubeSat, control, byte16, "intact") \in Frame
  BY <1>1, StationTypes, PlainFrameType
<1>4. QED
  BY <1>2, <1>3 DEF GroundFrame, Frame

\* Every step keeps the types.
LEMMA TypeNext == TypeOK /\ [Next]_vars => TypeOK'
<1>. SUFFICES ASSUME TypeOK, [Next]_vars
              PROVE  TypeOK'
  OBVIOUS
<1>. DEFINE Codes == {"none", "SUCCESS", "INVALID_ARG", "INVALID_TNC",
                      "INVALID_AX25_PACKET", "CORRUPTED_AX25_MSG"}
<1>a. /\ pktSentNum \in [Library -> Counter]
      /\ pktReceiveNum \in [Library -> Counter]
      /\ currentLinkDestAddr \in [Library -> Address \cup {NoAddr}]
      /\ air \in [Nodes -> Seq(Frame)]
      /\ lastNs \in [Library -> -1..(Window - 1)]
      /\ owed \in [Library -> 0..2]
      /\ accepted \in [Library -> 0..(Window - 1)]
      /\ opened \in [Library -> BOOLEAN]
  BY DEF TypeOK
<1>b. \A x \in Nat : x % CounterMod \in Counter
  BY LinkAssumption, ModRange DEF Counter
<1>c. Idle \in [code : Codes, command : {"untouched", "CONN", "DISC", "ACK"}]
  BY DEF Idle
<1>1. ASSUME NEW n \in Library, NEW call \in Callsigns \cup {BadCallsign},
             NEW ssid \in SsidArguments,
             SetCurrentLinkDestCallSign(n, call, ssid)
      PROVE  TypeOK'
  <2>1. GetAddress(call, ssid) \in Address \cup {NoAddr}
    BY LinkAssumption, AddressType
  <2>2. QED
    BY <1>1, <1>a, <1>c, <2>1 DEF SetCurrentLinkDestCallSign, TypeOK
<1>2. ASSUME NEW n \in Library, ClearCurrentLinkDestAddress(n)
      PROVE  TypeOK'
  BY <1>2, <1>a, <1>c DEF ClearCurrentLinkDestAddress, TypeOK
<1>3. ASSUME NEW n \in Library, SendIFrame(n)
      PROVE  TypeOK'
  <2>. DEFINE ns == Capped(pktSentNum[n])
              nr == Capped(pktReceiveNum[n])
  <2>1. ns \in 0..(Window - 1) /\ nr \in 0..(Window - 1)
    BY <1>a, CappedRange
  <2>2. IFrame(n, ns, nr) \in Frame
    BY <1>3, <2>1, IFrameType DEF SendIFrame
  <2>3. air' \in [Nodes -> Seq(Frame)]
    <3>1. <<IFrame(n, ns, nr)>> \in Seq(Frame)
      BY <2>2
    <3>2. Transmit(n, <<IFrame(n, ns, nr)>>)
      BY <1>3 DEF SendIFrame
    <3>3. QED
      BY <1>a, <3>1, <3>2, TransmitType
  <2>4. (ns + 1) % CounterMod \in Counter /\ nr \in Counter
    BY <1>b, <2>1, LinkAssumption DEF Counter
  <2>5. /\ lastNs' \in [Library -> -1..(Window - 1)]
        /\ owed' \in [Library -> 0..2]
    BY <1>3, <1>a, <2>1, LinkAssumption DEF SendIFrame
  <2>6. /\ pktSentNum' \in [Library -> Counter]
        /\ pktReceiveNum' \in [Library -> Counter]
    BY <1>3, <1>a, <2>4 DEF SendIFrame
  <2>7. QED
    BY <1>3, <1>a, <1>c, <2>3, <2>5, <2>6 DEF SendIFrame, TypeOK
<1>4. ASSUME NEW n \in Library, NEW k \in 1..MaxShared,
             SendIFrameWithFlagSharing(n, CubeSat, k)
      PROVE  TypeOK'
  <2>1. [i \in 1..k |-> SharedFrame(n, CubeSat, i - 1)] \in Seq(Frame)
    BY SharedFrameType, LinkAssumption
  <2>2. air' \in [Nodes -> Seq(Frame)]
    BY <1>4, <1>a, <2>1, TransmitType DEF SendIFrameWithFlagSharing
  <2>3. (pktSentNum[n] + k) % CounterMod \in Counter
    <3>1. pktSentNum[n] \in 0..(CounterMod - 1)
      BY <1>a DEF Counter
    <3>2. pktSentNum[n] + k \in Nat
      BY <3>1, LinkAssumption
    <3>3. QED
      BY <1>b, <3>2
  <2>4. lastNs' \in [Library -> -1..(Window - 1)]
    BY <1>4, <1>a, LinkAssumption DEF SendIFrameWithFlagSharing, Unnumbered
  <2>5. QED
    BY <1>4, <1>a, <1>c, <2>2, <2>3, <2>4 DEF SendIFrameWithFlagSharing, TypeOK
<1>5. ASSUME NEW n \in Library, NEW cmd \in 0..3, NEW pollFinalBit \in 0..1,
             SendUFrame(n, cmd, pollFinalBit)
      PROVE  TypeOK'
  <2>. DEFINE f == PlainFrame(currentLinkDestAddr[n],
                              UFrameControl(cmd, pollFinalBit), {}, "intact")
  <2>1. currentLinkDestAddr[n] \in Address
    BY <1>5, <1>a DEF SendUFrame
  <2>2. f \in Frame
    BY <2>1, UFrameControlType, PlainFrameType DEF Byte
  <2>3. <<f>> \in Seq(Frame)
    BY <2>2
  <2>4. air' \in [Nodes -> Seq(Frame)]
    BY <1>5, <1>a, <2>3, TransmitType DEF SendUFrame
  <2>5. QED
    BY <1>5, <1>a, <1>c, <2>4 DEF SendUFrame, UnchangedLink, history, TypeOK
<1>6. ASSUME NEW n \in Library, SendRefused(n)
      PROVE  TypeOK'
  BY <1>6, <1>a, <1>c DEF SendRefused, UnchangedLink, history, TypeOK
<1>7. ASSUME NEW n \in Library, RecvRejected(n)
      PROVE  TypeOK'
  <2>1. n \in Nodes
    BY DEF Nodes
  <2>2. ret' \in [code : Codes, command : {"untouched", "CONN", "DISC", "ACK"}]
    BY <1>7, VerdictType DEF RecvRejected, Return
  <2>3. QED
    BY <1>7, <1>a, <2>1, <2>2, TakeType DEF RecvRejected, UnchangedLink, history, TypeOK
<1>8. ASSUME NEW n \in Library, RecvIFrame(n)
      PROVE  TypeOK'
  <2>1. n \in Nodes
    BY DEF Nodes
  <2>2. (pktReceiveNum[n] + 1) % CounterMod \in Counter
    <3>1. pktReceiveNum[n] \in 0..(CounterMod - 1)
      BY <1>a DEF Counter
    <3>2. pktReceiveNum[n] + 1 \in Nat
      BY <3>1, LinkAssumption
    <3>3. QED
      BY <1>b, <3>2
  <2>3. (accepted[n] + 1) % Window \in 0..(Window - 1) /\ 0 \in 0..(Window - 1)
    <3>1. accepted[n] \in 0..(Window - 1)
      BY <1>a
    <3>2. accepted[n] + 1 \in Nat /\ Window \in Nat \ {0}
      BY <3>1, LinkAssumption
    <3>3. QED
      BY <3>2, ModRange, SMTT(30)
  <2>4. /\ owed' \in [Library -> 0..2]
        /\ accepted' \in [Library -> 0..(Window - 1)]
    BY <1>8, <1>a, <2>3 DEF RecvIFrame
  <2>5. ret' \in [code : Codes, command : {"untouched", "CONN", "DISC", "ACK"}]
    BY <1>8 DEF RecvIFrame, Return
  <2>6. QED
    BY <1>8, <1>a, <2>1, <2>2, <2>4, <2>5, TakeType DEF RecvIFrame, TypeOK
<1>9. ASSUME NEW n \in Library, RecvSFrame(n) \/ RecvDisc(n)
      PROVE  TypeOK'
  <2>1. n \in Nodes
    BY DEF Nodes
  <2>2. ret' \in [code : Codes, command : {"untouched", "CONN", "DISC", "ACK"}]
    BY <1>9 DEF RecvSFrame, RecvDisc, Return, ReturnCommand
  <2>3. QED
    BY <1>9, <1>a, <2>1, <2>2, TakeType
       DEF RecvSFrame, RecvDisc, UnchangedLink, history, TypeOK
<1>10. ASSUME NEW n \in Library, RecvSabm(n) \/ RecvAck(n)
       PROVE  TypeOK'
  <2>1. n \in Nodes
    BY DEF Nodes
  <2>2. 0 \in Counter
    BY LinkAssumption DEF Counter
  <2>3. /\ lastNs' \in [Library -> -1..(Window - 1)]
        /\ owed' \in [Library -> 0..2]
        /\ accepted' \in [Library -> 0..(Window - 1)]
    <3>1. ResetNumbers(n)
      BY <1>10 DEF RecvSabm, RecvAck
    <3>2. -1 \in -1..(Window - 1) /\ 0 \in 0..2 /\ 0 \in 0..(Window - 1)
      BY LinkAssumption
    <3>3. /\ lastNs \in [Library -> -1..(Window - 1)]
          /\ owed \in [Library -> 0..2]
          /\ accepted \in [Library -> 0..(Window - 1)]
      BY <1>a
    <3>4. QED
      BY <3>1, <3>2, <3>3, Zenon DEF ResetNumbers, Unnumbered
  <2>8. opened' \in [Library -> BOOLEAN]
    <3>1. opened' = [opened EXCEPT ![n] = TRUE] \/ opened' = opened
      BY <1>10 DEF RecvSabm, RecvAck
    <3>2. [opened EXCEPT ![n] = TRUE] \in [Library -> BOOLEAN]
      BY <1>a, Zenon
    <3>3. QED
      BY <1>a, <3>1, <3>2, Zenon
  <2>4. ret' \in [code : Codes, command : {"untouched", "CONN", "DISC", "ACK"}]
    BY <1>10 DEF RecvSabm, RecvAck, ReturnCommand
  <2>5. /\ pktSentNum' \in [Library -> Counter]
        /\ pktReceiveNum' \in [Library -> Counter]
    <3>1. ResetNumbers(n)
      BY <1>10 DEF RecvSabm, RecvAck
    <3>2. /\ pktSentNum \in [Library -> Counter]
          /\ pktReceiveNum \in [Library -> Counter]
      BY <1>a
    <3>3. QED
      BY <2>2, <3>1, <3>2, Zenon DEF ResetNumbers
  <2>6. currentLinkDestAddr' \in [Library -> Address \cup {NoAddr}]
    BY <1>10, <1>a, StationTypes DEF RecvSabm, RecvAck
  <2>7. air' \in [Nodes -> Seq(Frame)]
    BY <1>10, <1>a, <2>1, TakeType DEF RecvSabm, RecvAck
  <2>9. QED
    BY <2>3, <2>4, <2>5, <2>6, <2>7, <2>8 DEF TypeOK
<1>11. ASSUME NEW g \in Ground, NEW call \in GroundCallsigns,
              NEW control \in GroundControls, EncodeFrame(g, call, control)
       PROVE  TypeOK'
  <2>1. PICK byte16 \in GroundByte16(control) :
             Transmit(g, <<GroundFrame(call, control, byte16)>>)
    BY <1>11 DEF EncodeFrame
  <2>2. <<GroundFrame(call, control, byte16)>> \in Seq(Frame)
    BY GroundFrameType
  <2>3. air' \in [Nodes -> Seq(Frame)]
    BY <1>a, <2>1, <2>2, TransmitType
  <2>4. QED
    BY <1>11, <1>a, <1>c, <2>3 DEF EncodeFrame, UnchangedLink, history, TypeOK
<1>12. ASSUME NEW n \in Nodes, DecodeFrame(n) \/ LoseFrame(n)
       PROVE  TypeOK'
  BY <1>12, <1>a, <1>c, TakeType DEF DecodeFrame, LoseFrame, UnchangedLink, history, TypeOK
<1>13. ASSUME NEW n \in Nodes, DamageFrame(n)
       PROVE  TypeOK'
  <2>1. PICK how \in {"damaged", "misframed"} :
          air' = [air EXCEPT ![n] = <<[Head(@) EXCEPT !.state = how]>> \o Tail(@)]
    BY <1>13 DEF DamageFrame
  <2>2. Head(air[n]) \in Frame /\ Tail(air[n]) \in Seq(Frame)
    BY <1>13, <1>a, HeadTailProperties DEF DamageFrame
  <2>3. [Head(air[n]) EXCEPT !.state = how] \in Frame
    BY <2>2 DEF Frame
  <2>4. <<[Head(air[n]) EXCEPT !.state = how]>> \o Tail(air[n]) \in Seq(Frame)
    BY <2>2, <2>3, ConcatProperties
  <2>5. air' \in [Nodes -> Seq(Frame)]
    BY <1>a, <2>1, <2>4
  <2>6. QED
    BY <1>13, <1>a, <1>c, <2>5 DEF DamageFrame, UnchangedLink, history, TypeOK
<1>14. CASE UNCHANGED vars
  BY <1>14, <1>a DEF vars, history, TypeOK
<1>15. QED
  BY <1>1, <1>2, <1>3, <1>4, <1>5, <1>6, <1>7, <1>8, <1>9, <1>10, <1>11,
     <1>12, <1>13, <1>14
     DEF Next, LibraryStep, GroundStep, RadioStep, Ax25Recv, Nodes

\* The counters stay bytes, a frame on the air always has a complete
\* destination (ax25SendIFrame and ax25SendUFrame refuse without one).
THEOREM TypeCorrect == Spec => []TypeOK
  BY TypeInit, TypeNext, PTL DEF Spec

-----------------------------------------------------------------------------
(* The inductive invariant: the counters as the history sees them, and the *)
(* frames already on the air, which no later step may spoil.               *)

Numbers(n) ==
  /\ lastNs[n] # Unnumbered => pktSentNum[n] = lastNs[n] + 1
  /\ owed[n] = 0 => pktReceiveNum[n] < Window
  /\ owed[n] < 2 => /\ pktReceiveNum[n] <= Window
                    /\ accepted[n] = Capped(pktReceiveNum[n])

GoodFrame(f) == WellNumbered(f) /\ HonestAck(f)

GoodAir == \A n \in Nodes : \A i \in DOMAIN air[n] : GoodFrame(air[n][i])

IInv == TypeOK /\ (\A n \in Library : Numbers(n)) /\ GoodAir /\ OpenedCanAnswer

\* Only ax25SendIFrame numbers a frame; every other frame is good as it is.
LEMMA PlainFrameGood ==
  ASSUME NEW dst, NEW control, NEW byte16, NEW state, NEW src
  PROVE  /\ GoodFrame(PlainFrame(dst, control, byte16, state))
         /\ GoodFrame([PlainFrame(dst, control, byte16, state) EXCEPT !.src = src])
<1>. DEFINE f == PlainFrame(dst, control, byte16, state)
            g == [f EXCEPT !.src = src]
<1>1. f.ns = Unnumbered /\ f.due = Unnumbered
  BY DEF PlainFrame
<1>2. g.ns = Unnumbered /\ g.due = Unnumbered
  BY DEF PlainFrame
<1>3. QED
  BY <1>1, <1>2 DEF GoodFrame, WellNumbered, HonestAck

\* The frame ax25SendIFrame builds from the capped counters is good.
LEMMA IFrameGood ==
  ASSUME IInv, NEW n \in Library
  PROVE  GoodFrame(IFrame(n, Capped(pktSentNum[n]), Capped(pktReceiveNum[n])))
<1>. DEFINE ns == Capped(pktSentNum[n])
            nr == Capped(pktReceiveNum[n])
            f == IFrame(n, ns, nr)
<1>1. ns \in 0..7 /\ nr \in 0..7
  BY CappedRange, LinkAssumption, SMTT(30) DEF IInv, TypeOK
<1>2. f.control = IFrameControl(nr, ns) /\ f.ns = ns /\ f.nr = nr
  BY DEF IFrame
<1>3. WellNumbered(f)
  BY <1>1, <1>2, ControlFields DEF WellNumbered, IsIFrame
<1>4. f.due # Unnumbered => f.due = nr
  BY DEF IFrame, IInv, Numbers
<1>5. HonestAck(f)
  BY <1>1, <1>2, <1>4, ControlFields DEF HonestAck
<1>6. QED
  BY <1>3, <1>5 DEF GoodFrame

\* Adding good frames keeps GoodAir.
LEMMA TransmitGood ==
  ASSUME GoodAir, air \in [Nodes -> Seq(Frame)], NEW n,
         NEW frames \in Seq(Frame), Transmit(n, frames),
         \A i \in DOMAIN frames : GoodFrame(frames[i])
  PROVE  GoodAir'
<1>1. SUFFICES ASSUME NEW m \in Nodes, NEW i \in DOMAIN air'[m]
               PROVE  GoodFrame(air'[m][i])
  BY DEF GoodAir, GoodFrame, WellNumbered, HonestAck
<1>2. air[m] \in Seq(Frame)
  OBVIOUS
<1>3. CASE m = n
  BY <1>1, <1>3 DEF Transmit, GoodAir
<1>4. CASE m # n
  <2>1. air'[m] = air[m] \o frames
    BY <1>4 DEF Transmit
  <2>2. i \in 1..(Len(air[m]) + Len(frames))
    BY <1>1, <1>2, <2>1
  <2>3. CASE i \in 1..Len(air[m])
    BY <1>2, <2>1, <2>3 DEF GoodAir
  <2>4. CASE i \in (Len(air[m]) + 1)..(Len(air[m]) + Len(frames))
    <3>1. i - Len(air[m]) \in DOMAIN frames
      BY <1>2, <2>4
    <3>2. air'[m][i] = frames[i - Len(air[m])]
      BY <1>2, <2>1, <2>4
    <3>3. QED
      BY <3>1, <3>2
  <2>5. QED
    BY <1>2, <2>2, <2>3, <2>4
<1>5. QED
  BY <1>3, <1>4

\* Taking the head of a queue keeps GoodAir.
LEMMA TakeGood ==
  ASSUME GoodAir, air \in [Nodes -> Seq(Frame)], NEW n \in Nodes, Take(n)
  PROVE  GoodAir'
<1>1. SUFFICES ASSUME NEW m \in Nodes, NEW i \in DOMAIN air'[m]
               PROVE  GoodFrame(air'[m][i])
  BY DEF GoodAir, GoodFrame, WellNumbered, HonestAck
<1>2. CASE m = n
  <2>1. air'[m] = Tail(air[m]) /\ air[m] \in Seq(Frame) /\ air[m] # <<>>
    BY <1>2 DEF Take
  <2>2. i + 1 \in DOMAIN air[m] /\ air'[m][i] = air[m][i + 1]
    BY <1>1, <2>1, HeadTailProperties
  <2>3. QED
    BY <2>2 DEF GoodAir
<1>3. CASE m # n
  BY <1>1, <1>3 DEF Take, GoodAir
<1>4. QED
  BY <1>2, <1>3

\* Damaging the head of a queue keeps GoodAir.
LEMMA DamageGood ==
  ASSUME GoodAir, air \in [Nodes -> Seq(Frame)], NEW n \in Nodes, DamageFrame(n)
  PROVE  GoodAir'
<1>1. SUFFICES ASSUME NEW m \in Nodes, NEW i \in DOMAIN air'[m]
               PROVE  GoodFrame(air'[m][i])
  BY DEF GoodAir, GoodFrame, WellNumbered, HonestAck
<1>2. PICK how \in {"damaged", "misframed"} :
        air' = [air EXCEPT ![n] = <<[Head(@) EXCEPT !.state = how]>> \o Tail(@)]
  BY DEF DamageFrame
<1>3. air[n] \in Seq(Frame) /\ air[n] # <<>>
  BY DEF DamageFrame
<1>4. CASE m = n
  <2>. DEFINE h == [Head(air[n]) EXCEPT !.state = how]
  <2>1. air'[m] = <<h>> \o Tail(air[n])
    BY <1>2, <1>4
  <2>2. Head(air[n]) = air[n][1] /\ 1 \in DOMAIN air[n] /\ air[n][1] \in Frame
    BY <1>3, HeadTailProperties
  <2>3. GoodFrame(air[n][1])
    BY <2>2 DEF GoodAir
  <2>4. /\ h.ns = air[n][1].ns /\ h.nr = air[n][1].nr
        /\ h.due = air[n][1].due /\ h.control = air[n][1].control
    BY <2>2 DEF Frame
  <2>5. GoodFrame(h)
    BY <2>3, <2>4 DEF GoodFrame, WellNumbered, HonestAck, IsIFrame
  <2>6. Tail(air[n]) \in Seq(Frame) /\ Len(Tail(air[n])) = Len(air[n]) - 1
    BY <1>3, HeadTailProperties
  <2>7. CASE i = 1
    <3>1. air'[m][1] = h
      BY <2>1, <2>6
    <3>2. QED
      BY <2>5, <2>7, <3>1
  <2>8. CASE i # 1
    <3>1. i \in 2..Len(air[n])
      BY <1>1, <1>3, <2>1, <2>6, <2>8
    <3>2. air'[m][i] = Tail(air[n])[i - 1]
      BY <2>1, <2>6, <3>1
    <3>3. Tail(air[n])[i - 1] = air[n][i]
      BY <1>3, <3>1, HeadTailProperties
    <3>4. QED
      BY <1>3, <3>1, <3>2, <3>3 DEF GoodAir
  <2>9. QED
    BY <2>7, <2>8
<1>5. CASE m # n
  BY <1>1, <1>2, <1>5 DEF GoodAir
<1>6. QED
  BY <1>4, <1>5

\* The inductive invariant holds at boot.
LEMMA IInvInit == Init => IInv
<1>. SUFFICES ASSUME Init PROVE IInv
  OBVIOUS
<1>1. ASSUME NEW n \in Library PROVE Numbers(n)
  <2>1. /\ pktReceiveNum[n] = 0 /\ accepted[n] = 0
        /\ lastNs[n] = Unnumbered
    BY DEF Init
  <2>2. 0 < Window /\ 0 <= Window /\ Capped(0) = 0
    BY LinkAssumption DEF Capped
  <2>3. QED
    BY <2>1, <2>2 DEF Numbers
<1>2. GoodAir
  BY DEF Init, GoodAir
<1>3. OpenedCanAnswer
  BY DEF Init, OpenedCanAnswer
<1>4. QED
  BY <1>1, <1>2, <1>3, TypeInit DEF IInv

\* The capped successor of a number sent below the window is the successor
\* modulo the window.
LEMMA CappedStep ==
  ASSUME NEW x \in 0..(Window - 1)
  PROVE  /\ (x + 1) % CounterMod = x + 1
         /\ Capped(x + 1) = (x + 1) % Window
<1>1. x \in 0..(CounterMod - 1) /\ x + 1 # CounterMod
      /\ CounterMod \in Nat \ {0} /\ Window \in Nat \ {0}
  BY LinkAssumption
<1>2. (x + 1) % CounterMod = x + 1
  BY <1>1, ModStep
<1>3. (x + 1) % Window = IF x + 1 = Window THEN 0 ELSE x + 1
  BY <1>1, ModStep
<1>4. Capped(x + 1) = IF x + 1 = Window THEN 0 ELSE x + 1
  BY LinkAssumption DEF Capped
<1>5. QED
  BY <1>2, <1>3, <1>4

\* What ax25SendIFrame does to the counters and to the history.
LEMMA SendIFrameNumbers ==
  ASSUME IInv, NEW n \in Library, SendIFrame(n)
  PROVE  /\ \A m \in Library : Numbers(m)'
         /\ GoodAir'
         /\ OpenedCanAnswer'
<1>. DEFINE ns == Capped(pktSentNum[n])
            nr == Capped(pktReceiveNum[n])
<1>a. TypeOK
  BY DEF IInv
<1>1. ns \in 0..(Window - 1) /\ nr \in 0..(Window - 1)
  BY <1>a, CappedRange DEF TypeOK
<1>2. (ns + 1) % CounterMod = ns + 1
  BY <1>1, CappedStep
<1>3. Capped(nr) = nr
  BY <1>1 DEF Capped
<1>4. ASSUME NEW m \in Library, m # n
      PROVE  Numbers(m)'
  BY <1>4, <1>a DEF SendIFrame, Numbers, IInv, TypeOK, Capped
<1>5. Numbers(n)'
  <2>1. pktSentNum'[n] = ns + 1 /\ lastNs'[n] = ns
    BY <1>a, <1>2 DEF SendIFrame, TypeOK
  <2>2. pktReceiveNum'[n] = nr /\ accepted'[n] = accepted[n]
    BY <1>a DEF SendIFrame, TypeOK
  <2>3. owed'[n] = IF owed[n] < 2 THEN 0 ELSE 2
    BY <1>a DEF SendIFrame, TypeOK
  <2>4. owed'[n] < 2 => accepted[n] = nr
    BY <2>3 DEF IInv, Numbers
  <2>. HIDE DEF ns, nr
  <2>5. nr < Window /\ nr <= Window
    BY <1>1, LinkAssumption
  <2>6. Capped(pktReceiveNum'[n]) = nr
    BY <1>3, <2>2
  <2>7. QED
    BY <2>1, <2>2, <2>3, <2>4, <2>5, <2>6 DEF Numbers, Capped
<1>6. GoodAir'
  <2>. DEFINE f == IFrame(n, ns, nr)
  <2>1. Transmit(n, <<f>>) /\ currentLinkDestAddr[n] # NoAddr
    BY DEF SendIFrame
  <2>2. f \in Frame
    BY <1>a, <1>1, <2>1, IFrameType
  <2>3. GoodFrame(f)
    BY IFrameGood
  <2>. HIDE DEF f
  <2>4. <<f>> \in Seq(Frame) /\ \A i \in DOMAIN <<f>> : GoodFrame(<<f>>[i])
    BY <2>2, <2>3
  <2>5. QED
    BY <1>a, <2>1, <2>4, TransmitGood DEF IInv, TypeOK
<1>7. OpenedCanAnswer'
  BY DEF SendIFrame, IInv, OpenedCanAnswer
<1>8. QED
  BY <1>4, <1>5, <1>6, <1>7

\* What an accepted I frame does to them.
LEMMA RecvIFrameNumbers ==
  ASSUME IInv, NEW n \in Library, RecvIFrame(n)
  PROVE  \A m \in Library : Numbers(m)'
<1>a. TypeOK
  BY DEF IInv
<1>1. ASSUME NEW m \in Library, m # n
      PROVE  Numbers(m)'
  BY <1>1, <1>a DEF RecvIFrame, Numbers, IInv, TypeOK, Capped
<1>2. Numbers(n)'
  <2>. DEFINE r == pktReceiveNum[n]
  <2>1. /\ pktReceiveNum'[n] = (r + 1) % CounterMod
        /\ owed'[n] = IF owed[n] = 0 THEN 1 ELSE 2
        /\ accepted'[n] = IF owed[n] = 0 THEN (accepted[n] + 1) % Window ELSE 0
        /\ pktSentNum'[n] = pktSentNum[n] /\ lastNs'[n] = lastNs[n]
    BY <1>a DEF RecvIFrame, TypeOK
  <2>2. lastNs'[n] # Unnumbered => pktSentNum'[n] = lastNs'[n] + 1
    BY <2>1 DEF IInv, Numbers
  <2>3. CASE owed[n] = 0
    <3>1. r \in 0..(Window - 1) /\ accepted[n] = r
      <4>1. r \in 0..(CounterMod - 1)
        BY <1>a DEF TypeOK, Counter
      <4>2. r < Window /\ accepted[n] = Capped(r)
        BY <2>3 DEF IInv, Numbers
      <4>3. QED
        BY <4>1, <4>2, LinkAssumption DEF Capped
    <3>2. /\ pktReceiveNum'[n] = r + 1
          /\ accepted'[n] = Capped(r + 1)
      BY <2>1, <2>3, <3>1, CappedStep
    <3>3. r + 1 <= Window
      BY <3>1, LinkAssumption
    <3>4. QED
      BY <2>1, <2>2, <2>3, <3>2, <3>3 DEF Numbers, Capped
  <2>4. CASE owed[n] # 0
    BY <2>1, <2>2, <2>4 DEF Numbers
  <2>5. QED
    BY <2>3, <2>4
<1>3. QED
  BY <1>1, <1>2

\* Every step keeps the inductive invariant.
LEMMA IInvNext == IInv /\ [Next]_vars => IInv'
<1>. SUFFICES ASSUME IInv, [Next]_vars PROVE IInv'
  OBVIOUS
<1>a. TypeOK /\ TypeOK'
  BY TypeNext DEF IInv
<1>b. /\ GoodAir /\ OpenedCanAnswer
      /\ air \in [Nodes -> Seq(Frame)]
      /\ \A n \in Library : Numbers(n)
  BY DEF IInv, TypeOK
<1>. DEFINE Rest == (\A n \in Library : Numbers(n)) /\ GoodAir /\ OpenedCanAnswer
\* The steps that leave the link and its history alone.
<1>c. ASSUME UnchangedLink
      PROVE  (\A n \in Library : Numbers(n)') /\ OpenedCanAnswer'
  BY <1>b, <1>c DEF UnchangedLink, history, Numbers, OpenedCanAnswer, Capped
<1>d. ASSUME UNCHANGED air
      PROVE  GoodAir'
  BY <1>b, <1>d DEF GoodAir
<1>1. ASSUME NEW n \in Library, NEW call, NEW ssid,
             SetCurrentLinkDestCallSign(n, call, ssid)
                \/ ClearCurrentLinkDestAddress(n)
      PROVE  Rest'
  <2>1. GoodAir'
    BY <1>1, <1>d DEF SetCurrentLinkDestCallSign, ClearCurrentLinkDestAddress
  <2>2. \A m \in Library : Numbers(m)'
    BY <1>1, <1>b
       DEF SetCurrentLinkDestCallSign, ClearCurrentLinkDestAddress, Numbers, Capped
  <2>3. OpenedCanAnswer'
    BY <1>1, <1>a, <1>b DEF SetCurrentLinkDestCallSign,
       ClearCurrentLinkDestAddress, OpenedCanAnswer, TypeOK
  <2>4. QED
    BY <2>1, <2>2, <2>3
<1>2. ASSUME NEW n \in Library, SendIFrame(n)
      PROVE  Rest'
  BY <1>2, SendIFrameNumbers
<1>3. ASSUME NEW n \in Library, NEW k \in 1..MaxShared,
             SendIFrameWithFlagSharing(n, CubeSat, k)
      PROVE  Rest'
  <2>. DEFINE fs == [i \in 1..k |-> SharedFrame(n, CubeSat, i - 1)]
  <2>1. fs \in Seq(Frame)
    BY SharedFrameType, LinkAssumption
  <2>2. \A i \in DOMAIN fs : GoodFrame(fs[i])
    BY PlainFrameGood DEF SharedFrame
  <2>3. Transmit(n, fs)
    BY <1>3 DEF SendIFrameWithFlagSharing
  <2>4. GoodAir'
    <3>. HIDE DEF fs
    <3>1. QED
      BY <1>b, <2>1, <2>2, <2>3, TransmitGood
  <2>5. \A m \in Library : Numbers(m)'
    BY <1>3, <1>a, <1>b
       DEF SendIFrameWithFlagSharing, Numbers, TypeOK, Capped
  <2>6. OpenedCanAnswer'
    BY <1>3, <1>b DEF SendIFrameWithFlagSharing, OpenedCanAnswer
  <2>7. QED
    BY <2>4, <2>5, <2>6
<1>4. ASSUME NEW n \in Library, NEW cmd \in 0..3, NEW pollFinalBit \in 0..1,
             SendUFrame(n, cmd, pollFinalBit)
      PROVE  Rest'
  <2>. DEFINE f == PlainFrame(currentLinkDestAddr[n],
                              UFrameControl(cmd, pollFinalBit), {}, "intact")
  <2>1. currentLinkDestAddr[n] \in Address
    BY <1>4, <1>a DEF SendUFrame, TypeOK
  <2>2. f \in Frame /\ GoodFrame(f)
    BY <2>1, UFrameControlType, PlainFrameType, PlainFrameGood DEF Byte
  <2>3. Transmit(n, <<f>>)
    BY <1>4 DEF SendUFrame
  <2>4. GoodAir'
    <3>. HIDE DEF f
    <3>1. <<f>> \in Seq(Frame) /\ \A i \in DOMAIN <<f>> : GoodFrame(<<f>>[i])
      BY <2>2
    <3>2. QED
      BY <1>b, <2>3, <3>1, TransmitGood
  <2>5. QED
    BY <1>4, <1>c, <2>4 DEF SendUFrame
<1>5. ASSUME NEW n \in Library, SendRefused(n)
      PROVE  Rest'
  BY <1>5, <1>c, <1>d DEF SendRefused
<1>6. ASSUME NEW n \in Nodes,
             \/ RecvRejected(n) \/ RecvSFrame(n) \/ RecvDisc(n)
             \/ DecodeFrame(n) \/ LoseFrame(n)
      PROVE  Rest'
  <2>1. Take(n) /\ UnchangedLink
    BY <1>6 DEF RecvRejected, RecvSFrame, RecvDisc, DecodeFrame, LoseFrame
  <2>2. QED
    BY <1>b, <1>c, <2>1, TakeGood
<1>7. ASSUME NEW n \in Library, RecvIFrame(n)
      PROVE  Rest'
  <2>1. Take(n) /\ n \in Nodes
    BY <1>7 DEF RecvIFrame, Nodes
  <2>2. OpenedCanAnswer'
    BY <1>7, <1>b DEF RecvIFrame, OpenedCanAnswer
  <2>3. QED
    BY <1>7, <1>b, <2>1, <2>2, TakeGood, RecvIFrameNumbers
<1>8. ASSUME NEW n \in Library, RecvSabm(n) \/ RecvAck(n)
      PROVE  Rest'
  <2>1. Take(n) /\ n \in Nodes /\ ResetNumbers(n)
    BY <1>8 DEF RecvSabm, RecvAck, Nodes
  <2>2. \A m \in Library : Numbers(m)'
    BY <1>a, <1>b, <2>1, LinkAssumption
       DEF ResetNumbers, Numbers, TypeOK, Capped, Unnumbered
  <2>3. CASE RecvSabm(n)
    <3>1. \A m \in Library \ {n} : opened'[m] = opened[m]
                /\ currentLinkDestAddr'[m] = currentLinkDestAddr[m]
      BY <1>a, <2>3 DEF RecvSabm, TypeOK
    <3>2. currentLinkDestAddr'[n] # NoAddr
      BY <1>a, <2>3, StationTypes DEF RecvSabm, TypeOK
    <3>3. QED
      BY <1>b, <2>1, <2>2, <3>1, <3>2, TakeGood DEF OpenedCanAnswer
  <2>4. CASE RecvAck(n)
    <3>1. OpenedCanAnswer'
      BY <1>b, <2>4 DEF RecvAck, OpenedCanAnswer
    <3>2. QED
      BY <1>b, <2>1, <2>2, <3>1, TakeGood
  <2>5. QED
    BY <1>8, <2>3, <2>4
<1>9. ASSUME NEW g \in Ground, NEW call \in GroundCallsigns,
             NEW control \in GroundControls, EncodeFrame(g, call, control)
      PROVE  Rest'
  <2>1. PICK byte16 \in GroundByte16(control) :
             Transmit(g, <<GroundFrame(call, control, byte16)>>)
    BY <1>9 DEF EncodeFrame
  <2>. DEFINE f == GroundFrame(call, control, byte16)
  <2>2. f \in Frame
    BY GroundFrameType
  <2>3. GoodFrame(f)
    BY PlainFrameGood DEF GroundFrame
  <2>4. GoodAir'
    <3>. HIDE DEF f
    <3>1. <<f>> \in Seq(Frame) /\ \A i \in DOMAIN <<f>> : GoodFrame(<<f>>[i])
      BY <2>2, <2>3
    <3>2. Transmit(g, <<f>>)
      BY <2>1 DEF f
    <3>3. QED
      BY <1>b, <3>1, <3>2, TransmitGood
  <2>5. QED
    BY <1>9, <1>c, <2>4 DEF EncodeFrame
<1>10. ASSUME NEW n \in Nodes, DamageFrame(n)
       PROVE  Rest'
  BY <1>10, <1>b, <1>c, DamageGood DEF DamageFrame
<1>11. ASSUME UNCHANGED vars PROVE Rest'
  <2>1. UNCHANGED air
    BY <1>11 DEF vars
  <2>2. UnchangedLink
    BY <1>11 DEF vars, UnchangedLink
  <2>3. GoodAir'
    BY <1>d, <2>1
  <2>4. (\A n \in Library : Numbers(n)') /\ OpenedCanAnswer'
    BY <1>c, <2>2
  <2>5. QED
    BY <2>3, <2>4
<1>12. Rest'
  <2>. HIDE DEF Rest
  <2>1. ASSUME NEW n \in Library, LibraryStep(n) PROVE Rest'
    <3>1. n \in Nodes
      BY DEF Nodes
    <3>2. Ax25Recv(n) => Rest'
      BY <3>1, <1>6, <1>7, <1>8 DEF Ax25Recv
    <3>3. QED
      BY <2>1, <3>2, <1>1, <1>2, <1>3, <1>4, <1>5 DEF LibraryStep
  <2>2. ASSUME NEW g \in Ground, GroundStep(g) PROVE Rest'
    BY <2>2, <1>6, <1>9 DEF GroundStep, Nodes
  <2>3. ASSUME NEW n \in Library, RadioStep(n) PROVE Rest'
    BY <2>3, <1>6, <1>10 DEF RadioStep, Nodes
  <2>4. QED
    BY <2>1, <2>2, <2>3, <1>11 DEF Next
<1>13. QED
  BY <1>a, <1>12 DEF IInv

\* The inductive invariant holds in every behaviour.
LEMMA Inductive == Spec => []IInv
  BY IInvInit, IInvNext, PTL DEF Spec

\* Every I frame that ax25SendIFrame has put on the air, whatever calls and
\* frames came before, carries its two numbers in their own 3-bit fields.
THEOREM FieldsNeverOverflow == Spec => []FieldsHoldNumbers
<1>1. IInv => FieldsHoldNumbers
  BY DEF IInv, GoodAir, GoodFrame, FieldsHoldNumbers
<1>2. QED
  BY <1>1, Inductive, PTL

\* An endpoint that answers each I frame before the next one acknowledges
\* exactly what it accepted, modulo the window.
THEOREM AcksAreHonest == Spec => []AckHonest
<1>1. IInv => AckHonest
  BY DEF IInv, GoodAir, GoodFrame, AckHonest
<1>2. QED
  BY <1>1, Inductive, PTL

\* A link that SABM opened can be answered on.
THEOREM OpenedLinkAnswers == Spec => []OpenedCanAnswer
<1>1. IInv => OpenedCanAnswer
  BY DEF IInv
<1>2. QED
  BY <1>1, Inductive, PTL

-----------------------------------------------------------------------------
(* The numbering refines Ax25Numbering: a send is a Send, an accepted SABM *)
(* or ACK a Reset, a burst a Burst, and every other step stutters.         *)

NumberingNext == [m \in Library |-> Capped(pktSentNum[m])]

\* ax25SendIFrame is a Send of the abstract numbering.
LEMMA SendIsSend ==
  ASSUME IInv, NEW n \in Library, SendIFrame(n)
  PROVE  Numbering!Send(n)
<1>. DEFINE ns == Capped(pktSentNum[n])
<1>a. TypeOK
  BY DEF IInv
<1>1. ns \in 0..(Window - 1)
  BY <1>a, CappedRange DEF TypeOK
<1>2. pktSentNum' = [pktSentNum EXCEPT ![n] = ns + 1]
  BY <1>1, CappedStep DEF SendIFrame
<1>3. Capped(ns + 1) = (ns + 1) % Window
  BY <1>1, CappedStep
<1>4. lastNs' = [lastNs EXCEPT ![n] = ns]
  BY DEF SendIFrame
<1>. HIDE DEF ns
<1>5. \A m \in Library :
        Capped(pktSentNum'[m]) = IF m = n THEN (ns + 1) % Window
                                          ELSE Capped(pktSentNum[m])
  BY <1>a, <1>2, <1>3 DEF TypeOK
<1>6. NumberingNext' = [NumberingNext EXCEPT ![n] = (ns + 1) % Window]
  BY <1>5 DEF NumberingNext
<1>7. QED
  BY <1>4, <1>6 DEF Numbering!Send, NumberingNext, ns

\* A flag-sharing burst is a Burst of the abstract numbering.
LEMMA BurstIsBurst ==
  ASSUME IInv, NEW n \in Library, NEW k \in 1..MaxShared,
         SendIFrameWithFlagSharing(n, CubeSat, k)
  PROVE  Numbering!Burst(n)
<1>. DEFINE s == (pktSentNum[n] + k) % CounterMod
<1>a. TypeOK /\ TypeOK'
  <2>1. Next
    BY DEF Next, LibraryStep
  <2>2. QED
    BY <2>1, TypeNext DEF IInv
<1>1. pktSentNum' = [pktSentNum EXCEPT ![n] = s]
  BY DEF SendIFrameWithFlagSharing
<1>2. pktSentNum'[n] \in Counter /\ pktSentNum'[n] = s
  BY <1>a, <1>1 DEF TypeOK
<1>3. Capped(s) \in 0..(Window - 1)
  BY <1>2, CappedRange
<1>4. lastNs' = [lastNs EXCEPT ![n] = -1]
  BY DEF SendIFrameWithFlagSharing, Unnumbered
<1>. HIDE DEF s
<1>5. \A m \in Library :
        Capped(pktSentNum'[m]) = IF m = n THEN Capped(s) ELSE Capped(pktSentNum[m])
  BY <1>a, <1>1 DEF TypeOK
<1>6. NumberingNext' = [NumberingNext EXCEPT ![n] = Capped(s)]
  BY <1>5 DEF NumberingNext
<1>7. QED
  BY <1>3, <1>4, <1>6 DEF Numbering!Burst, Numbering!Fresh, NumberingNext

\* SABM and ACK are a Reset of the abstract numbering.
LEMMA ResetIsReset ==
  ASSUME IInv, NEW n \in Library, ResetNumbers(n)
  PROVE  Numbering!Reset(n)
<1>a. TypeOK
  BY DEF IInv
<1>1. Capped(0) = 0
  BY LinkAssumption DEF Capped
<1>2. \A m \in Library :
        Capped(pktSentNum'[m]) = IF m = n THEN 0 ELSE Capped(pktSentNum[m])
  BY <1>a, <1>1 DEF ResetNumbers, TypeOK
<1>3. NumberingNext' = [NumberingNext EXCEPT ![n] = 0]
  BY <1>2 DEF NumberingNext
<1>4. lastNs' = [lastNs EXCEPT ![n] = -1]
  BY DEF ResetNumbers, Unnumbered
<1>5. QED
  BY <1>3, <1>4 DEF Numbering!Reset, Numbering!Fresh, NumberingNext

\* A step that leaves the send counter alone is no step of the numbering.
LEMMA OtherStepsStutter ==
  ASSUME UNCHANGED <<pktSentNum, lastNs>>
  PROVE  UNCHANGED Numbering!vars
  BY DEF Numbering!vars, Capped

\* Every step of the link control is a step of the numbering or a stutter.
LEMMA StepRefines == IInv /\ [Next]_vars => [Numbering!Next]_(Numbering!vars)
<1>. SUFFICES ASSUME IInv, [Next]_vars
              PROVE  Numbering!Next \/ UNCHANGED Numbering!vars
  OBVIOUS
<1>1. ASSUME NEW n \in Library, LibraryStep(n)
      PROVE  Numbering!Next \/ UNCHANGED Numbering!vars
  <2>1. CASE SendIFrame(n)
    BY <2>1, SendIsSend DEF Numbering!Next
  <2>2. CASE \E k \in 1..MaxShared : SendIFrameWithFlagSharing(n, CubeSat, k)
    BY <2>2, BurstIsBurst DEF Numbering!Next
  <2>3. CASE RecvSabm(n) \/ RecvAck(n)
    <3>1. ResetNumbers(n)
      BY <2>3 DEF RecvSabm, RecvAck
    <3>2. QED
      BY <3>1, ResetIsReset DEF Numbering!Next
  <2>4. CASE \/ \E call \in Callsigns \cup {BadCallsign}, ssid \in SsidArguments :
                  SetCurrentLinkDestCallSign(n, call, ssid)
             \/ ClearCurrentLinkDestAddress(n)
    BY <2>4, OtherStepsStutter
       DEF SetCurrentLinkDestCallSign, ClearCurrentLinkDestAddress
  <2>5. CASE \/ \E cmd \in 0..3, pollFinalBit \in 0..1 :
                  SendUFrame(n, cmd, pollFinalBit)
             \/ SendRefused(n)
             \/ RecvRejected(n) \/ RecvSFrame(n) \/ RecvDisc(n)
    BY <2>5, OtherStepsStutter DEF SendUFrame, SendRefused, RecvRejected,
       RecvSFrame, RecvDisc, UnchangedLink, history
  <2>6. CASE RecvIFrame(n)
    BY <2>6, OtherStepsStutter DEF RecvIFrame
  <2>7. QED
    BY <1>1, <2>1, <2>2, <2>3, <2>4, <2>5, <2>6 DEF LibraryStep, Ax25Recv
<1>2. ASSUME NEW n, GroundStep(n) \/ RadioStep(n)
      PROVE  UNCHANGED Numbering!vars
  BY <1>2, OtherStepsStutter DEF GroundStep, RadioStep, EncodeFrame,
     DecodeFrame, LoseFrame, DamageFrame, UnchangedLink, history
<1>3. CASE UNCHANGED vars
  BY <1>3, OtherStepsStutter DEF vars, history
<1>4. QED
  BY <1>1, <1>2, <1>3 DEF Next

\* The library implements the abstract numbering, for every window, every
\* counter width and every set of endpoints.
THEOREM ImplementsNumbering == Spec => NumberingRefined
<1>1. Init => Numbering!Init
  BY LinkAssumption DEF Init, Numbering!Init, Numbering!Fresh, Capped, Unnumbered
<1>2. QED
  BY <1>1, StepRefines, Inductive, PTL
     DEF Spec, NumberingRefined, Numbering!Spec

-----------------------------------------------------------------------------
(* Frames that do not pass the length, address and FCS checks are inert.   *)

\* A garbled frame never gets the verdict SUCCESS.
LEMMA GarbledRejected ==
  ASSUME NEW n, NEW f, Garbled(f), f.state \in {"intact", "damaged", "misframed"}
  PROVE  Verdict(n, f) \in {"INVALID_ARG", "CORRUPTED_AX25_MSG"}
  BY DEF Garbled, Verdict

\* Whatever the state of the link, ax25Recv of such a frame changes neither
\* the counters nor the link address and writes no command.
THEOREM GarbledFramesAreInert == Spec => GarbledFramesInert
<1>. DEFINE Inert == \A n \in Library :
              Len(air'[n]) < Len(air[n]) /\ Garbled(Head(air[n])) =>
                /\ pktSentNum'[n] = pktSentNum[n]
                /\ pktReceiveNum'[n] = pktReceiveNum[n]
                /\ currentLinkDestAddr'[n] = currentLinkDestAddr[n]
                /\ ret'.command = "untouched"
<1>1. TypeOK /\ [Next]_vars => [Inert]_vars
  <2>. SUFFICES ASSUME TypeOK, Next PROVE Inert
    OBVIOUS
  <2>. SUFFICES ASSUME NEW n \in Library, Len(air'[n]) < Len(air[n]),
                       Garbled(Head(air[n]))
                PROVE  /\ pktSentNum'[n] = pktSentNum[n]
                       /\ pktReceiveNum'[n] = pktReceiveNum[n]
                       /\ currentLinkDestAddr'[n] = currentLinkDestAddr[n]
                       /\ ret'.command = "untouched"
    OBVIOUS
  <2>. DEFINE Quiet == UnchangedLink /\ ret'.command = "untouched"
  <2>1. air[n] \in Seq(Frame) /\ n \in Nodes
    BY DEF TypeOK, Nodes
  <2>2. \A m, frames : frames \in Seq(Frame) => ~Transmit(m, frames)
    <3>1. SUFFICES ASSUME NEW m, NEW frames \in Seq(Frame), Transmit(m, frames)
                   PROVE  FALSE
      OBVIOUS
    <3>2. Len(air[n] \o frames) = Len(air[n]) + Len(frames)
      BY <2>1
    <3>3. Len(air'[n]) >= Len(air[n])
      BY <2>1, <3>1, <3>2 DEF Transmit
    <3>4. QED
      BY <2>1, <3>3
  <2>3. air' # air
    BY <2>1
  <2>4. \A m \in Nodes : Take(m) => m = n
    BY <2>1 DEF Take
  <2>5. Take(n) => Verdict(n, Head(air[n])) # "SUCCESS"
    <3>1. SUFFICES ASSUME Take(n) PROVE Verdict(n, Head(air[n])) # "SUCCESS"
      OBVIOUS
    <3>2. Head(air[n]) \in Frame
      BY <2>1, <3>1, HeadTailProperties DEF Take
    <3>3. Head(air[n]).state \in {"intact", "damaged", "misframed"}
      BY <3>2 DEF Frame
    <3>4. QED
      BY <3>3, GarbledRejected
  <2>6. ASSUME NEW m \in Library, LibraryStep(m) PROVE Quiet
    <3>1. m \in Nodes
      BY DEF Nodes
    <3>2. ~SendIFrame(m)
      <4>1. SUFFICES ASSUME SendIFrame(m) PROVE FALSE
        OBVIOUS
      <4>. DEFINE f == IFrame(m, Capped(pktSentNum[m]), Capped(pktReceiveNum[m]))
      <4>2. f \in Frame
        <5>1. pktSentNum[m] \in Counter /\ pktReceiveNum[m] \in Counter
          BY DEF TypeOK
        <5>2. currentLinkDestAddr[m] # NoAddr
          BY <4>1 DEF SendIFrame
        <5>3. QED
          BY <5>1, <5>2, IFrameType, CappedRange
      <4>3. Transmit(m, <<f>>)
        BY <4>1 DEF SendIFrame
      <4>. HIDE DEF f
      <4>4. <<f>> \in Seq(Frame)
        BY <4>2
      <4>5. QED
        BY <2>2, <4>3, <4>4
    <3>3. \A k \in 1..MaxShared : ~SendIFrameWithFlagSharing(m, CubeSat, k)
      <4>1. \A k \in 1..MaxShared :
              [i \in 1..k |-> SharedFrame(m, CubeSat, i - 1)] \in Seq(Frame)
        BY SharedFrameType, LinkAssumption
      <4>2. QED
        BY <2>2, <4>1 DEF SendIFrameWithFlagSharing
    <3>4. ~RecvIFrame(m) /\ ~RecvSabm(m) /\ ~RecvAck(m) /\ ~RecvSFrame(m)
          /\ ~RecvDisc(m)
      BY <2>4, <2>5, <3>1
         DEF RecvIFrame, RecvSabm, RecvAck, RecvSFrame, RecvDisc
    <3>5. \A call, ssid : ~SetCurrentLinkDestCallSign(m, call, ssid)
      BY <2>3 DEF SetCurrentLinkDestCallSign
    <3>6. ~ClearCurrentLinkDestAddress(m)
      BY <2>3 DEF ClearCurrentLinkDestAddress
    <3>7. CASE RecvRejected(m)
      BY <3>7 DEF RecvRejected, Return
    <3>8. CASE SendRefused(m)
      BY <3>8 DEF SendRefused, Idle
    <3>9. CASE \E cmd \in 0..3, pollFinalBit \in 0..1 :
                 SendUFrame(m, cmd, pollFinalBit)
      BY <3>9 DEF SendUFrame, Idle
    <3>10. QED
      BY <2>6, <3>2, <3>3, <3>4, <3>5, <3>6, <3>7, <3>8, <3>9
         DEF LibraryStep, Ax25Recv
  <2>7. ASSUME NEW m, GroundStep(m) \/ RadioStep(m) PROVE Quiet
    BY <2>7 DEF GroundStep, RadioStep, EncodeFrame, DecodeFrame, LoseFrame,
       DamageFrame, Idle
  <2>8. Quiet
    BY <2>6, <2>7 DEF Next
  <2>9. QED
    BY <2>8 DEF UnchangedLink
<1>2. QED
  BY <1>1, TypeCorrect, PTL DEF Spec, GarbledFramesInert
=============================================================================
