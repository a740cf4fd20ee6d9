---------------------------- MODULE CommsPipeline ----------------------------
(***************************************************************************)
(* AX.25 frames to the bit: from ax25SendIFrame, ax25SendUFrame or         *)
(* CommsPipeline.encode_frame through stuffing and a noisy radio to        *)
(* ax25Unstuff and ax25Recv, or to CommsPipeline.decode_frame.  The latter *)
(* unstuffs and corrects a frame longer than RS_ENCODED_DATA_SIZE and      *)
(* takes a shorter one as it came.  U frames are those of the code;        *)
(* I frames carry RsEncodedDataSize bytes.  What the FCS notices, and      *)
(* what may be left stuffed, depends on the bits.                          *)
(*                                                                         *)
(* A byte or uint16_t is the set of its bits that are 1; a frame is the    *)
(* sequence of its bits between the two flags.                             *)
(***************************************************************************)
EXTENDS StuffingRules, SequencesExt

CONSTANTS
  GroundCommands,  \* [cmd, poll] the ground station encodes
  LinkCallsigns,   \* callsigns the library's link address is set to
  LinkControls,    \* the control bytes of its I frames, bit 0 of which is 0
  Codewords,       \* what rsEncode makes of the data sent, encrypted or not
  RsDecodedDataSize,  \* how much of a codeword is data, 223 in the code
  NoisyFrames,     \* bound: the frames the radio damages, and where:
                   \* [frame, bits]
  MaxFlips         \* bound: bits it flips in one frame

\* any MaxErrors of its bytes may be wrong, and a codeword is still the nearest
MaxErrors == (RsEncodedDataSize - RsDecodedDataSize) \div 2
Unlike(a, b) == {i \in DOMAIN a : a[i] # b[i]}

ASSUME PipelineAssumption ==
  /\ MaxFlips \in Nat /\ RsDecodedDataSize \in Nat /\ RsDecodedDataSize < RsEncodedDataSize
  /\ LinkControls \subseteq SUBSET (1..7) /\ Codewords \subseteq Seq(SUBSET (0..7))
  /\ \A c \in GroundCommands : c.cmd \cup c.poll \subseteq 0..7
  /\ \A a \in Codewords :
       /\ Len(a) = RsEncodedDataSize
       /\ \A b \in Codewords \ {a} : Cardinality(Unlike(a, b)) > 2 * MaxErrors

\* CUBE_SAT_CALLSIGN and GROUND_STATION_CALLSIGN
Akito == <<65, 75, 73, 84, 79>>
Atlas == <<65, 84, 76, 65, 83>>

\* ax25Recv drops what is addressed to any other station
ASSUME CallsignAssumption == LinkCallsigns \subseteq {Akito, Atlas}

\* both addresses, control and PID, and the FCS are as long as in the code, and a
\* U frame with its flags is no longer than RS_ENCODED_DATA_SIZE, 255 in the code
ASSUME SizesAssumption ==
  /\ InfoBytes \in Nat \ {0} /\ RsEncodedDataSize \in Nat /\ RsEncodedDataSize >= 19
  /\ NonInfoBytes = 18

VARIABLES
  sender,   \* "c" or "python", who sent the frame on the air
  sent,     \* history: the frame before stuffing
  wire,     \* its bits on the air, <<>> when there is none
  flips,    \* how many of them the radio has flipped
  listener, \* "c" or "python", who received the last frame
  heard     \* the frame it took it for, <<>> if it was refused

vars == <<sender, sent, wire, flips, listener, heard>>

Init ==
  /\ sender = "c" /\ sent = <<>> /\ wire = <<>> /\ flips = 0
  /\ listener = "c" /\ heard = <<>>

-----------------------------------------------------------------------------
(* Bytes *)

Weight == <<1, 2, 4, 8, 16, 32, 64, 128>>
Bits(x) == {i \in 0..7 : (x \div Weight[i + 1]) % 2 = 1}
Xor(a, b) == (a \ b) \cup (b \ a)
Shl(a, k) == {i \in 0..15 : i - k \in a}
Shr(a, k) == {i \in 0..15 : i + k \in a}
Low(a) == a \cap 0..7

\* most significant bit first, as both stuffing loops read a byte
ToBits(bytes) ==
  [i \in 1..(8 * Len(bytes)) |->
     IF 7 - ((i - 1) % 8) \in bytes[(i + 7) \div 8] THEN 1 ELSE 0]
ToByte(bits, b) == {i \in 0..7 : bits[8 * b - i] = 1}
ToBytes(bits) == [b \in 1..(Len(bits) \div 8) |-> ToByte(bits, b)]

\* calculateCrc16Ccitt, one byte
CrcStep(crc, byte) ==
  LET swapped == Xor(Shr(crc, 8) \cup Shl(crc, 8), byte)
      mixed == Xor(swapped, Shr(Low(swapped), 4))
      high == Xor(mixed, Shl(mixed, 12))
  IN  Xor(high, Shl(Low(high), 5))

\* its loop; from[i][j][crc] is that over bytes i to j (in halves, since frames
\* are long)
Crc16(bytes) ==
  LET n == Len(bytes)
      from[i \in 1..n] ==
        [j \in 1..n |-> [crc \in SUBSET (0..15) |->
           IF i >= j THEN CrcStep(crc, bytes[i])
           ELSE LET middle == (i + j) \div 2
                IN  from[middle + 1][j][from[i][middle][crc]]]]
  IN  from[1][n][{}]

\* fcsCalculate: reversed, high byte first
Fcs(bytes) ==
  LET reversed == {15 - i : i \in Crc16(bytes)}
  IN  <<Low(Shr(reversed, 8)), Low(reversed)>>

-----------------------------------------------------------------------------
(* The frames *)

\* ax25GetDestAddress, ax25GetSourceAddress with SSID 0; last is 1 in a source
AddressBytes(call, last) ==
  [i \in 1..7 |-> IF i = 7 THEN {5, 6} \cup last
                  ELSE IF i <= Len(call) THEN Low(Shl(Bits(call[i]), 1)) ELSE {6}]

Sabm == {0, 1, 2, 3, 5}
Disc == {0, 1, 6}
Ack == {0, 1, 5, 6}
Poll == {4}

\* slips: a PID as in an I frame; the FCS low byte first
UFrameWithPid(dst, src, control) ==
  LET body == AddressBytes(dst, {}) \o AddressBytes(src, {0}) \o <<control, {4, 5, 6, 7}>>
  IN  ToBits(body \o Fcs(body))

UFrameFcsSwapped(dst, src, control) ==
  LET body == AddressBytes(dst, {}) \o AddressBytes(src, {0}) \o <<control>>
  IN  ToBits(body \o Reverse(Fcs(body)))

UFrame(dst, src, control) ==
  LET body == AddressBytes(dst, {}) \o AddressBytes(src, {0}) \o <<control>>
  IN  ToBits(body \o Fcs(body))

Pid == {4, 5, 6, 7}

IFrame(dst, src, control, pid, info) ==
  LET body == AddressBytes(dst, {}) \o AddressBytes(src, {0}) \o <<control, pid>> \o info
  IN  ToBits(body \o Fcs(body))

\* A loop over bits: step[state][bit] is what it writes for one bit, and the state
\* it goes on in.  from[i][j][state] is that for the bits i to j (in halves, since
\* frames are long).
Loop(step, start, bits) ==
  LET n == Len(bits)
      from[i \in 1..n] ==
        [j \in 1..n |-> [state \in DOMAIN step |->
           IF i >= j THEN step[state][bits[i]]
           ELSE LET middle == (i + j) \div 2
                    left == from[i][middle][state]
                    right == from[middle + 1][j][left.state]
                IN  [out |-> left.out \o right.out, state |-> right.state]]]
  IN  from[1][n][start].out

\* ax25Stuff, with its run of ones
StuffStep ==
  [ones \in 0..4 |->
     [bit \in Bit |-> [out |-> Emitted(bit, ones), state |-> NextCount(bit, ones)]]]

Stuffed(bits) == Loop(StuffStep, 0, bits)

\* ax25Unstuff, with its run of ones and its stuffingFlag
UnstuffStep ==
  [s \in [ones : 0..4, flag : {0, 1}] |->
     [bit \in Bit |->
        IF s.flag = 1
        THEN [out |-> <<>>, state |-> [ones |-> 0, flag |-> 0]]
        ELSE [out |-> <<bit>>,
              state |-> [ones |-> NextCount(bit, s.ones), flag |-> Flagged(bit, s.ones)]]]]

Unstuffed(bits) == Loop(UnstuffStep, [ones |-> 0, flag |-> 0], bits)

Transmit(by, frame) ==
  /\ sent = <<>>
  /\ sender' = by /\ sent' = frame
  /\ LET bits == Stuffed(frame) IN
       \E k \in 0..(Len(bits) \div 8 + 1) : WireBytes(by, bits, k) /\ wire' = Bytes(bits, k)
  /\ flips' = 0 /\ heard' = <<>>
  /\ UNCHANGED listener

Ax25SendUFrame(call, cmd, poll) ==
  Transmit("c", UFrame(call, Atlas, cmd \cup poll))

\* the caller stuffs it
Ax25SendIFrame(call, control, info) ==
  Transmit("c", IFrame(call, Atlas, control, Pid, info))

EncodeFrame(cmd, poll) ==
  Transmit("python", UFrame(Akito, Atlas, cmd \cup poll))

\* of RS_DECODED_DATA_SIZE bytes of data, encrypted and encoded
EncodeData(info) ==
  Transmit("python", IFrame(Akito, Atlas, {}, {}, info))

-----------------------------------------------------------------------------
(* The radio and the receivers *)

FlipBit ==
  /\ wire # <<>> /\ flips < MaxFlips
  /\ \E f \in NoisyFrames :
       /\ sent = f.frame
       /\ \E p \in f.bits \cap DOMAIN wire : wire' = [wire EXCEPT ![p] = 1 - @]
  /\ flips' = flips + 1
  /\ UNCHANGED <<sender, sent, listener, heard>>

\* slip: the two FCS bytes are compared with nothing
FcsMatchesAlways(bytes) == Len(bytes) > 2

\* slip: only the first of the two FCS bytes is compared
FcsMatchesHigh(bytes) ==
  LET n == Len(bytes)
  IN  n > 2 /\ Fcs(SubSeq(bytes, 1, n - 2))[1] = bytes[n - 1]

FcsMatches(bytes) ==
  LET n == Len(bytes)
  IN  n > 2 /\ Fcs(SubSeq(bytes, 1, n - 2)) = SubSeq(bytes, n - 1, n)

\* what AX25_MINIMUM_I_FRAME_LEN counts but for the flags
IFrameBytes == RsEncodedDataSize + NonInfoBytes

\* slip: the shortest frame is refused
LibraryAcceptsLonger(bytes) ==
  /\ Len(bytes) \in 18..IFrameBytes
  /\ SubSeq(bytes, 1, 7) \in {AddressBytes(Akito, {}), AddressBytes(Atlas, {})}
  /\ FcsMatches(bytes)

\* what ax25Recv dispatches to its handlers
LibraryAccepts(bytes) ==
  /\ Len(bytes) \in 17..IFrameBytes
  /\ SubSeq(bytes, 1, 7) \in {AddressBytes(Akito, {}), AddressBytes(Atlas, {})}
  /\ FcsMatches(bytes)

Hear(by, frame) ==
  /\ listener' = by /\ heard' = frame /\ wire' = <<>>
  /\ UNCHANGED <<sender, sent, flips>>

Ax25Recv ==
  LET kept == Unstuffed(wire)
      packet == Bytes(kept, CDelivered(kept))
  IN  /\ wire # <<>>
      /\ Hear("c", IF LibraryAccepts(ToBytes(packet)) THEN packet ELSE <<>>)

\* CommsPipeline.decode_frame and AX25.decode_frame: a packet of at most
\* RS_ENCODED_DATA_SIZE bytes, flags included, is not unstuffed
DecodeFrame ==
  /\ wire # <<>> /\ Len(wire) \div 8 + 2 <= RsEncodedDataSize
  /\ Hear("python", IF FcsMatches(ToBytes(wire)) THEN wire ELSE <<>>)

\* rsDecode of the information, zeros behind it where it is short; empty when
\* rsDecode fails.  It may also make another codeword of it, whose bytes are taken not
\* to match the FCS.
Corrected(info) ==
  LET block == [i \in 1..RsEncodedDataSize |-> IF i <= Len(info) THEN info[i] ELSE {}]
  IN  {SubSeq(word, 1, RsDecodedDataSize) :
         word \in {w \in Codewords : Cardinality(Unlike(w, block)) <= MaxErrors}}

FlagByte == {1, 2, 3, 4, 5, 6}

\* INFO_FIELD_START_POSITION, INFO_FIELD_END_POSITION of a frame with both flags
InfoStart == 17
InfoEnd == 16 + RsEncodedDataSize

\* slip: the end position is taken for the first byte behind the information
InfoShort(flagged) == SubSeq(flagged, 1 + InfoStart, Min({InfoEnd, Len(flagged)}))

Info(flagged) == SubSeq(flagged, 1 + InfoStart, Min({1 + InfoEnd, Len(flagged)}))

\* FEC.decode puts the last bytes of the information it was given, the parity, behind
\* the data as they came; AX25.decode_frame takes the flags off again
Spliced(flagged, data) ==
  LET info == Info(flagged)
      parity == SubSeq(info, Len(info) - (RsEncodedDataSize - RsDecodedDataSize) + 1, Len(info))
      whole == SubSeq(flagged, 1, InfoStart) \o data \o parity
               \o SubSeq(flagged, 2 + InfoEnd, Len(flagged))
  IN  SubSeq(whole, 2, Len(whole) - 1)

DecodeLongFrame ==
  LET kept == Unstuffed(wire)
      packet == ToBytes(Bytes(kept, PythonDelivered(kept)))
      flagged == <<FlagByte>> \o packet \o <<FlagByte>>
      accepted == {frame \in {Spliced(flagged, data) : data \in Corrected(Info(flagged))} :
                     FcsMatches(frame)}
  IN  /\ wire # <<>> /\ Len(wire) \div 8 + 2 > RsEncodedDataSize
      /\ \/ accepted = {} /\ Hear("python", <<>>)
         \/ \E frame \in accepted : Hear("python", ToBits(frame))

Next ==
  \/ \E call \in LinkCallsigns, cmd \in {Sabm, Disc, Ack}, poll \in {{}, Poll} :
       Ax25SendUFrame(call, cmd, poll)
  \/ \E c \in GroundCommands : EncodeFrame(c.cmd, c.poll)
  \/ \E call \in LinkCallsigns, control \in LinkControls, info \in Codewords :
       Ax25SendIFrame(call, control, info)
  \/ \E info \in Codewords : EncodeData(info)
  \/ FlipBit
  \/ Ax25Recv
  \/ DecodeFrame \/ DecodeLongFrame

Spec == Init /\ [][Next]_vars

-----------------------------------------------------------------------------
(* Properties *)

\* A U frame is 17 bytes between its flags and an I frame IFrameBytes; on the air
\* they need at most the 37 bytes of a packed_ax25_u_frame_t and
\* AX25_MAXIMUM_PKT_LEN.
TypeOK ==
  /\ sender \in {"c", "python"} /\ listener \in {"c", "python"}
  /\ flips \in 0..MaxFlips
  /\ Len(sent) \in {0, 8 * 17, 8 * IFrameBytes}
  /\ Len(wire) \div 8 + 2 <=
       IF Len(sent) = 8 * IFrameBytes THEN ((IFrameBytes + 2) * 6) \div 5 ELSE 37
  /\ Len(wire) % 8 = 0 /\ \A p \in DOMAIN wire : wire[p] \in Bit

Received == wire = <<>> /\ sent # <<>>
IsIFrame == Len(sent) = 8 * IFrameBytes
Command == ToBytes(sent)[15] \ Poll

\* The library takes every undamaged frame of either implementation for what it
\* is: the addresses, the FCS in reversed bits and the stuffing agree.  Left out
\* are frames whose FCS ends in a zero byte, which ax25Unstuff may drop.
LibraryHears ==
  Received /\ listener = "c" /\ flips = 0 /\ Last(ToBytes(sent)) # {} => heard = sent

\* The ground station reads the library's answer to a connection request,
\* although it does not unstuff it: with these callsigns the addresses, the
\* control byte and the FCS of an ACK never hold five ones in a row.
AckHeard ==
  Received /\ listener = "python" /\ flips = 0 /\ sender = "c" /\ Command = Ack
    => heard = sent

\* A frame damaged in up to MaxFlips bits on the air is refused or taken for
\* what was sent, never for another frame, also when the damage makes the
\* unstuffing slip and shifts all bits after it, and when Reed-Solomon has put
\* bytes right before the FCS is checked.  At the ground station this is said of
\* the frames that it can read undamaged.
NoiseNoticed ==
  Received /\ flips > 0 /\ (listener = "c" \/ IsIFrame \/ Stuffed(sent) = sent)
    => heard \in {<<>>, sent}

\* the bytes of the frame that come out of unstuffing other than they were sent
Damaged ==
  LET kept == Unstuffed(wire)
  IN  {b \in 1..(Len(sent) \div 8) :
         \E i \in (8 * b - 7)..(8 * b) : i > Len(kept) \/ kept[i] # sent[i]}

\* the bits behind the frame are still zeros, and fewer than a byte
PaddingIntact ==
  LET kept == Unstuffed(wire)
  IN  /\ Len(kept) \div 8 = Len(sent) \div 8
      /\ \A i \in (Len(sent) + 1)..Len(kept) : kept[i] = 0

\* The ground station reads an I frame of the library with up to MaxErrors damaged
\* bytes of data, whatever they hold, as it was sent.  (Not one with a damaged byte
\* of parity: Reed-Solomon corrects it, and it is put back before the FCS is checked.)
DataCorrected ==
  [][/\ listener' = "python" /\ wire # <<>> /\ wire' = <<>> /\ IsIFrame /\ sender = "c"
     /\ PaddingIntact
     /\ Damaged \subseteq InfoStart..(InfoStart + RsDecodedDataSize - 1)
     /\ Cardinality(Damaged) <= MaxErrors
     => heard' = sent]_vars

\* The library never takes a frame for another one when what unstuffing makes of the
\* noise is confined to two neighbouring bytes, whatever becomes of their bits: the FCS
\* notices it.  (Not of the last byte before the FCS and the first of the FCS, which
\* are sent in opposite orders of their bits.  A frame whose last byte has become zero
\* is cut by ax25Unstuff, and then another one.)
BurstNoticed ==
  [][LET n == Len(sent) \div 8
     IN  /\ listener' = "c" /\ wire # <<>> /\ wire' = <<>>
         /\ CDelivered(Unstuffed(wire)) = n
         /\ LET damaged == Damaged
            IN  \E b \in (1..(n - 3)) \cup {n - 1} : damaged \subseteq {b, b + 1}
         => heard' \in {<<>>, sent}]_vars

\* What the docstring of CommsPipeline.decode_frame says: "Given a stuffed ax25
\* frame [...] this function decodes the data into a usable Frame object".
GroundHears ==
  Received /\ listener = "python" /\ flips = 0 => heard = sent
=============================================================================
