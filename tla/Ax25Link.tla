------------------------------- MODULE Ax25Link -------------------------------
(***************************************************************************)
(* The AX.25 link control of obc_gs_ax25.c.  Every node of Library runs    *)
(* the C library and owns its three statics; every node of Ground runs the *)
(* Python AX25 class, which keeps no link state.  A node hears what the    *)
(* other nodes transmit, in order; a frame may be lost or damaged.         *)
(*                                                                         *)
(* A byte is the set of its bits that are 1, so << is a shift of the set,  *)
(* | is union and & ~mask is set difference.                               *)
(***************************************************************************)
EXTENDS Integers, Sequences

CONSTANTS
  Library,          \* nodes that run obc_gs_ax25.c
  Ground,           \* nodes that run ax25/__init__.py
  OtherCallsigns,   \* callsigns that are neither AKITO nor ATLAS
  GroundCallsigns,  \* the source callsigns given to the Python class
  GroundControls,   \* the control bytes it is asked to encode
  BadCallsign,      \* a NULL callsign, or one of more than CALL_SIGN_BYTES
  SsidArguments,    \* the SSIDs the application passes
  Window,           \* MAX_CONTINUOUS_PACKETS_ALLOWED, 7 in the code
  CounterMod,       \* 2^8: the counters are uint8_t
  MaxInFlight,      \* bound: frames waiting at one node
  MaxShared         \* bound: frames of one flag-sharing burst

Callsigns == {"AKITO", "ATLAS"} \cup OtherCallsigns

ASSUME LinkAssumption ==
  /\ Window \in 1..7
  /\ CounterMod \in Nat /\ CounterMod > Window /\ CounterMod <= 256
  /\ SsidArguments \subseteq Nat
  /\ MaxInFlight \in Nat
  /\ MaxShared \in Nat /\ MaxShared < CounterMod
  /\ Library \cap Ground = {}
  /\ BadCallsign \notin Callsigns
  /\ GroundCallsigns \subseteq Callsigns
  /\ GroundControls \subseteq SUBSET (0..7)

VARIABLES
  pktSentNum,           \* [Library -> 0..CounterMod-1]
  pktReceiveNum,        \* [Library -> 0..CounterMod-1]
  currentLinkDestAddr,  \* [Library -> Address \cup {NoAddr}]
  air,                  \* air[n]: the frames node n has still to hear
  ret,                  \* return code and *command of the ax25Recv call just
                        \* made, Idle after any other step
  \* history, read by the properties and by no guard:
  lastNs,               \* number of the last I frame since its numbering was
                        \* disturbed, Unnumbered if none
  owed,                 \* I frames accepted since the last own I frame, 2
                        \* until the next reset once there were two
  accepted,             \* I frames accepted since the last reset, modulo
                        \* Window; no longer counted once owed is 2
  opened                \* an SABM was accepted and the application has not
                        \* touched the link address since

history == <<lastNs, owed, accepted, opened>>
vars == <<pktSentNum, pktReceiveNum, currentLinkDestAddr, air, ret, history>>

Nodes == Library \cup Ground
Counter == 0..(CounterMod - 1)

-----------------------------------------------------------------------------
(* Bytes and the control field *)

Weight == <<1, 2, 4, 8, 16, 32, 64, 128>>
Byte == SUBSET (0..7)

\* the bits of a uint8_t
Bits(x) == {i \in 0..7 : (x \div Weight[i + 1]) % 2 = 1}
Shl(b, k) == {i \in 0..7 : i - k \in b}

\* where AX.25 puts the numbers in a mod 8 control byte
NSField(control) == {i \in 0..2 : i + 1 \in control}
NRField(control) == {i \in 0..2 : i + 5 \in control}

PollFinal == 4
Sabm == {0, 1, 2, 3, 5}
Disc == {0, 1, 6}
Ack  == {0, 1, 5, 6}
SFrameControls == {{0}, {0, 2}, {0, 3}, {0, 2, 3}}   \* RR, RNR, REJ, SREJ
Pid  == {4, 5, 6, 7}

IsIFrame(f) == 0 \notin f.control
IsUFrame(f) == 0 \in f.control /\ 1 \in f.control

-----------------------------------------------------------------------------
(* Addresses *)

Address == [call : Callsigns, ssid : 0..15]
NoAddr == [call |-> "", ssid |-> 0]     \* all zero, length 0

\* ax25GetDestAddress: 16 is let through, and its bit falls on a reserved one
GetAddress(call, ssid) ==
  IF call \in Callsigns /\ ssid <= 16
  THEN [call |-> call, ssid |-> ssid % 16]
  ELSE NoAddr

CubeSat == GetAddress("AKITO", 0)
GroundStation == GetAddress("ATLAS", 0)

-----------------------------------------------------------------------------
(* Frames.  ns, nr and due are not on the wire: the numbers the sender     *)
(* meant to encode, and the N(R) that acknowledges what it had accepted.   *)

Unnumbered == -1

Frame ==
  [dst : Address, src : Address, control : Byte, byte16 : Byte,
   state : {"intact", "damaged", "misframed"},
   ns : Counter \cup {Unnumbered}, nr : Counter \cup {Unnumbered},
   due : 0..(Window - 1) \cup {Unnumbered}]

PlainFrame(dst, control, byte16, state) ==
  [dst |-> dst, src |-> GroundStation, control |-> control,
   byte16 |-> byte16, state |-> state,
   ns |-> Unnumbered, nr |-> Unnumbered, due |-> Unnumbered]

Room(n, k) == \A m \in Nodes \ {n} : Len(air[m]) + k <= MaxInFlight

Transmit(n, frames) ==
  air' = [m \in Nodes |-> IF m = n THEN air[m] ELSE air[m] \o frames]

-----------------------------------------------------------------------------
Idle == [code |-> "none", command |-> "untouched"]

Init ==
  /\ pktSentNum = [n \in Library |-> 0]
  /\ pktReceiveNum = [n \in Library |-> 0]
  /\ currentLinkDestAddr = [n \in Library |-> NoAddr]
  /\ air = [n \in Nodes |-> <<>>]
  /\ ret = Idle
  /\ lastNs = [n \in Library |-> Unnumbered]
  /\ owed = [n \in Library |-> 0]
  /\ accepted = [n \in Library |-> 0]
  /\ opened = [n \in Library |-> FALSE]

Return(code) == ret' = [code |-> code, command |-> "untouched"]
ReturnCommand(cmd) == ret' = [code |-> "SUCCESS", command |-> cmd]
UnchangedLink ==
  UNCHANGED <<pktSentNum, pktReceiveNum, currentLinkDestAddr, history>>

-----------------------------------------------------------------------------
(* The application's calls *)

\* setCurrentLinkDestCallSign: bad arguments leave the address all zero
SetCurrentLinkDestCallSign(n, call, ssid) ==
  /\ currentLinkDestAddr' = [currentLinkDestAddr EXCEPT ![n] = GetAddress(call, ssid)]
  /\ opened' = [opened EXCEPT ![n] = FALSE]
  /\ ret' = Idle                  \* void
  /\ UNCHANGED <<pktSentNum, pktReceiveNum, air, lastNs, owed, accepted>>

ClearCurrentLinkDestAddress(n) ==
  /\ currentLinkDestAddr' = [currentLinkDestAddr EXCEPT ![n] = NoAddr]
  /\ opened' = [opened EXCEPT ![n] = FALSE]
  /\ ret' = Idle                  \* void
  /\ UNCHANGED <<pktSentNum, pktReceiveNum, air, lastNs, owed, accepted>>

\* slip: no cap at all
UncappedNumber(x) == x

\* a counter that has reached the window starts again before it is sent
Capped(x) == IF x >= Window THEN 0 ELSE x

IFrameControl(nr, ns) == Shl(Bits(nr), 5) \cup Shl(Bits(ns), 1)

IFrame(n, ns, nr) ==
  [dst |-> currentLinkDestAddr[n], src |-> GroundStation,
   control |-> IFrameControl(nr, ns), byte16 |-> Pid, state |-> "intact",
   ns |-> ns, nr |-> nr,
   due |-> IF owed[n] < 2 THEN accepted[n] ELSE Unnumbered]

SendIFrame(n) ==
  LET ns == Capped(pktSentNum[n])
      nr == Capped(pktReceiveNum[n])
  IN  /\ currentLinkDestAddr[n] # NoAddr
      /\ Room(n, 1)
      /\ Transmit(n, <<IFrame(n, ns, nr)>>)
      /\ pktSentNum' = [pktSentNum EXCEPT ![n] = (ns + 1) % CounterMod]
      /\ pktReceiveNum' = [pktReceiveNum EXCEPT ![n] = nr]
      /\ lastNs' = [lastNs EXCEPT ![n] = ns]
      /\ owed' = [owed EXCEPT ![n] = IF @ < 2 THEN 0 ELSE 2]
      /\ ret' = Idle
      /\ UNCHANGED <<currentLinkDestAddr, accepted, opened>>

\* ax25SendIFrameWithFlagSharing: frames of two control bytes, numbered from
\* the uncapped counter, whose FCS covers the flag and stops a byte short
SharedFrame(n, dst, i) ==
  PlainFrame(dst, Shl(Bits(pktReceiveNum[n]), 1),
             Shl(Bits((pktSentNum[n] + i) % CounterMod), 1), "damaged")

SendIFrameWithFlagSharing(n, dst, k) ==
  /\ dst # NoAddr
  /\ Room(n, k)
  /\ Transmit(n, [i \in 1..k |-> SharedFrame(n, dst, i - 1)])
  /\ pktSentNum' = [pktSentNum EXCEPT ![n] = (@ + k) % CounterMod]
  /\ lastNs' = [lastNs EXCEPT ![n] = Unnumbered]
  /\ ret' = Idle
  /\ UNCHANGED <<pktReceiveNum, currentLinkDestAddr, owed, accepted, opened>>

UFrameControl(cmd, pollFinalBit) ==
  (IF cmd = 3 THEN Ack ELSE IF cmd = 2 THEN Disc ELSE Sabm)
  \cup (IF pollFinalBit = 1 THEN {PollFinal} ELSE {})

\* slip: a U frame is sent without asking whether there is a link
SendUFrameUnaddressed(n, cmd, pollFinalBit) ==
  /\ cmd <= 3 /\ pollFinalBit <= 1
  /\ Room(n, 1)
  /\ Transmit(n, <<PlainFrame(currentLinkDestAddr[n],
                              UFrameControl(cmd, pollFinalBit), {}, "intact")>>)
  /\ ret' = Idle
  /\ UnchangedLink

SendUFrame(n, cmd, pollFinalBit) ==
  /\ cmd <= 3 /\ pollFinalBit <= 1
  /\ currentLinkDestAddr[n] # NoAddr
  /\ Room(n, 1)
  /\ Transmit(n, <<PlainFrame(currentLinkDestAddr[n],
                              UFrameControl(cmd, pollFinalBit), {}, "intact")>>)
  /\ ret' = Idle
  /\ UnchangedLink

\* the INVALID_ARG returns of the send functions change nothing
SendRefused(n) ==
  /\ currentLinkDestAddr[n] = NoAddr
  /\ ret' = Idle
  /\ UNCHANGED air
  /\ UnchangedLink

-----------------------------------------------------------------------------
(* ax25Recv and the handlers it dispatches to *)

IFrameVerdict(f) ==
  IF f.src # GroundStation THEN "INVALID_TNC"
  ELSE IF f.byte16 \notin {Pid, {}} THEN "INVALID_AX25_PACKET"
  ELSE "SUCCESS"

SFrameVerdict(f) ==
  IF f.src # GroundStation THEN "INVALID_TNC"
  ELSE IF f.byte16 # Pid \/ f.control \notin SFrameControls
       THEN "INVALID_AX25_PACKET"
  ELSE "SUCCESS"

UCommand(f) == f.control \ {PollFinal}

UFrameVerdict(n, f) ==
  IF UCommand(f) \notin {Sabm, Disc, Ack} THEN "INVALID_AX25_PACKET"
  ELSE IF UCommand(f) # Sabm /\ f.src.call # currentLinkDestAddr[n].call
       THEN "INVALID_TNC"
  ELSE "SUCCESS"

\* slip: the frame is dispatched on without its FCS
VerdictWithoutFcs(n, f) ==
  IF f.state = "misframed" \/ f.dst \notin {CubeSat, GroundStation}
  THEN "INVALID_ARG"
  ELSE IF IsIFrame(f) THEN IFrameVerdict(f)
  ELSE IF IsUFrame(f) THEN UFrameVerdict(n, f)
  ELSE SFrameVerdict(f)

Verdict(n, f) ==
  IF f.state = "misframed" \/ f.dst \notin {CubeSat, GroundStation}
  THEN "INVALID_ARG"
  ELSE IF f.state = "damaged" THEN "CORRUPTED_AX25_MSG"
  ELSE IF IsIFrame(f) THEN IFrameVerdict(f)
  ELSE IF IsUFrame(f) THEN UFrameVerdict(n, f)
  ELSE SFrameVerdict(f)

\* the frame at the head of n's queue is taken by the call that handles it
Take(n) ==
  /\ air[n] # <<>>
  /\ air' = [air EXCEPT ![n] = Tail(@)]

RecvRejected(n) ==
  LET f == Head(air[n]) IN
    /\ Take(n)
    /\ Verdict(n, f) # "SUCCESS"
    /\ Return(Verdict(n, f))
    /\ UnchangedLink

\* the sequence number is compared but a mismatch changes nothing
RecvIFrame(n) ==
  LET f == Head(air[n]) IN
    /\ Take(n)
    /\ Verdict(n, f) = "SUCCESS" /\ IsIFrame(f)
    /\ pktReceiveNum' = [pktReceiveNum EXCEPT ![n] = (@ + 1) % CounterMod]
    /\ owed' = [owed EXCEPT ![n] = IF @ = 0 THEN 1 ELSE 2]
    /\ accepted' = [accepted EXCEPT ![n] =
                       IF owed[n] = 0 THEN (@ + 1) % Window ELSE 0]
    /\ Return("SUCCESS")
    /\ UNCHANGED <<pktSentNum, currentLinkDestAddr, lastNs, opened>>

RecvSFrame(n) ==
  LET f == Head(air[n]) IN
    /\ Take(n)
    /\ Verdict(n, f) = "SUCCESS" /\ ~IsIFrame(f) /\ ~IsUFrame(f)
    /\ Return("SUCCESS")
    /\ UnchangedLink

\* slip: the new link keeps the count of what the old one received
ResetSentOnly(n) ==
  /\ pktSentNum' = [pktSentNum EXCEPT ![n] = 0]
  /\ lastNs' = [lastNs EXCEPT ![n] = Unnumbered]
  /\ owed' = [owed EXCEPT ![n] = 0]
  /\ accepted' = [accepted EXCEPT ![n] = 0]
  /\ UNCHANGED pktReceiveNum

ResetNumbers(n) ==
  /\ pktSentNum' = [pktSentNum EXCEPT ![n] = 0]
  /\ pktReceiveNum' = [pktReceiveNum EXCEPT ![n] = 0]
  /\ lastNs' = [lastNs EXCEPT ![n] = Unnumbered]
  /\ owed' = [owed EXCEPT ![n] = 0]
  /\ accepted' = [accepted EXCEPT ![n] = 0]

\* slip: SABM does not fill a cleared link address in
RecvSabmUnlinked(n) ==
  LET f == Head(air[n]) IN
    /\ Take(n)
    /\ Verdict(n, f) = "SUCCESS" /\ IsUFrame(f) /\ UCommand(f) = Sabm
    /\ ResetNumbers(n)
    /\ opened' = [opened EXCEPT ![n] = TRUE]
    /\ ReturnCommand("CONN")
    /\ UNCHANGED currentLinkDestAddr

RecvSabm(n) ==
  LET f == Head(air[n]) IN
    /\ Take(n)
    /\ Verdict(n, f) = "SUCCESS" /\ IsUFrame(f) /\ UCommand(f) = Sabm
    /\ ResetNumbers(n)
    /\ currentLinkDestAddr' =
         [currentLinkDestAddr EXCEPT ![n] = IF @ = NoAddr THEN CubeSat ELSE @]
    /\ opened' = [opened EXCEPT ![n] = TRUE]
    /\ ReturnCommand("CONN")

RecvAck(n) ==
  LET f == Head(air[n]) IN
    /\ Take(n)
    /\ Verdict(n, f) = "SUCCESS" /\ IsUFrame(f) /\ UCommand(f) = Ack
    /\ ResetNumbers(n)
    /\ ReturnCommand("ACK")
    /\ UNCHANGED <<currentLinkDestAddr, opened>>

RecvDisc(n) ==
  LET f == Head(air[n]) IN
    /\ Take(n)
    /\ Verdict(n, f) = "SUCCESS" /\ IsUFrame(f) /\ UCommand(f) = Disc
    /\ ReturnCommand("DISC")
    /\ UnchangedLink

Ax25Recv(n) ==
  \/ RecvRejected(n) \/ RecvIFrame(n) \/ RecvSFrame(n)
  \/ RecvSabm(n) \/ RecvAck(n) \/ RecvDisc(n)

-----------------------------------------------------------------------------
(* The Python ground station and the radio *)

\* AX25.encode_frame: I frames have pid 0; a U or S frame has none, and the
\* first byte of its FCS, which may equal Pid, is where the library looks
GroundByte16(control) ==
  IF 0 \notin control THEN {{}} ELSE IF 1 \in control THEN {{0}} ELSE {{0}, Pid}

GroundFrame(call, control, byte16) ==
  [PlainFrame(CubeSat, control, byte16, "intact") EXCEPT !.src = GetAddress(call, 0)]

EncodeFrame(g, call, control) ==
  /\ Room(g, 1)
  /\ \E byte16 \in GroundByte16(control) :
        Transmit(g, <<GroundFrame(call, control, byte16)>>)
  /\ ret' = Idle
  /\ UnchangedLink

\* AX25.decode_frame: a damaged frame raises, an intact one is handed over;
\* the class keeps nothing of either
DecodeFrame(g) ==
  /\ Take(g)
  /\ ret' = Idle
  /\ UnchangedLink

LoseFrame(n) ==
  /\ Take(n)
  /\ ret' = Idle
  /\ UnchangedLink

DamageFrame(n) ==
  /\ air[n] # <<>>
  /\ \E how \in {"damaged", "misframed"} :
        air' = [air EXCEPT ![n] = <<[Head(@) EXCEPT !.state = how]>> \o Tail(@)]
  /\ ret' = Idle
  /\ UnchangedLink

LibraryStep(n) ==
  \/ \E call \in Callsigns \cup {BadCallsign}, ssid \in SsidArguments :
       SetCurrentLinkDestCallSign(n, call, ssid)
  \/ ClearCurrentLinkDestAddress(n)
  \/ SendIFrame(n)
  \/ \E k \in 1..MaxShared : SendIFrameWithFlagSharing(n, CubeSat, k)
  \/ \E cmd \in 0..3, pollFinalBit \in 0..1 : SendUFrame(n, cmd, pollFinalBit)
  \/ SendRefused(n)
  \/ Ax25Recv(n)

GroundStep(g) ==
  \/ \E call \in GroundCallsigns, control \in GroundControls :
       EncodeFrame(g, call, control)
  \/ DecodeFrame(g)

RadioStep(n) == LoseFrame(n) \/ DamageFrame(n)

Next ==
  \/ \E n \in Library : LibraryStep(n) \/ RadioStep(n)
  \/ \E g \in Ground : GroundStep(g)

Spec == Init /\ [][Next]_vars

-----------------------------------------------------------------------------
(* Properties *)

\* The counters keep their width, and no frame leaves without a complete
\* destination: a cleared or badly set link address never reaches the air.
TypeOK ==
  /\ pktSentNum \in [Library -> Counter]
  /\ pktReceiveNum \in [Library -> Counter]
  /\ currentLinkDestAddr \in [Library -> Address \cup {NoAddr}]
  /\ air \in [Nodes -> Seq(Frame)]
  /\ ret \in [code : {"none", "SUCCESS", "INVALID_ARG", "INVALID_TNC",
                      "INVALID_AX25_PACKET", "CORRUPTED_AX25_MSG"},
              command : {"untouched", "CONN", "DISC", "ACK"}]
  /\ lastNs \in [Library -> -1..(Window - 1)]
  /\ owed \in [Library -> 0..2]
  /\ accepted \in [Library -> 0..(Window - 1)]
  /\ opened \in [Library -> BOOLEAN]

WellNumbered(f) ==
  f.ns # Unnumbered =>
    /\ IsIFrame(f) /\ PollFinal \notin f.control
    /\ NSField(f.control) = Bits(f.ns)
    /\ NRField(f.control) = Bits(f.nr)

\* Counters that outgrow their 3-bit fields never spill into one another, the
\* poll bit or the bit that tells the frame kinds apart, whatever the mix of
\* sends, receptions and bursts before: a receiver reads the numbers that the
\* sender meant (the caps of ax25SendIFrame).
FieldsHoldNumbers ==
  \A n \in Nodes : \A i \in DOMAIN air[n] : WellNumbered(air[n][i])

HonestAck(f) == f.due # Unnumbered => NRField(f.control) = Bits(f.due)

\* As long as an endpoint answers each I frame before it takes the next one,
\* its N(R) counts what it accepted since the last reset, modulo the window;
\* the reset of pktReceiveNum at the cap loses no frame.
AckHonest ==
  \A n \in Nodes : \A i \in DOMAIN air[n] : HonestAck(air[n][i])

\* Once SABM is accepted the endpoint can answer until the application
\* changes the link address: the handler fills a cleared address in.
OpenedCanAnswer ==
  \A n \in Library : opened[n] => currentLinkDestAddr[n] # NoAddr

Garbled(f) == f.state # "intact" \/ f.dst \notin {CubeSat, GroundStation}

\* Taking a damaged, misframed or misaddressed frame off the queue resets no
\* counter, advances none, and never touches the link.
GarbledFramesInert ==
  [][\A n \in Library :
       Len(air'[n]) < Len(air[n]) /\ Garbled(Head(air[n])) =>
         /\ pktSentNum'[n] = pktSentNum[n]
         /\ pktReceiveNum'[n] = pktReceiveNum[n]
         /\ currentLinkDestAddr'[n] = currentLinkDestAddr[n]
         /\ ret'.command = "untouched"]_vars

Numbering == INSTANCE Ax25Numbering WITH
  Endpoints <- Library,
  next <- [n \in Library |-> Capped(pktSentNum[n])],
  last <- lastNs

\* The uncapped uint8_t counter and its late reset implement a numbering
\* modulo the window: between disturbances N(S) neither repeats nor skips.
NumberingRefined == Numbering!Spec
=============================================================================
