--------------------------- MODULE CommsPipelineMC ---------------------------
(***************************************************************************)
(* What CommsPipeline asks the Python class to encode, the SABM of a       *)
(* connection request and blocks of data, and a command a user of the      *)
(* class may encode.  Noise falls on any bits of three U frames, and on    *)
(* every seventh bit of I frames of both ends.                             *)
(***************************************************************************)
EXTENDS CommsPipeline

MCGroundCommands == {[cmd |-> Sabm, poll |-> Poll], [cmd |-> Disc, poll |-> {}]}
MCLinkCallsigns == {Akito, Atlas}

\* N(R) and N(S) 0, and 6 and 3
MCLinkControls == {{}, {1, 2, 6, 7}}

\* nothing but ones, zeros with ones at both ends, and bytes of all kinds
Ones == [i \in 1..RsEncodedDataSize |-> 0..7]
Zeros == [i \in 1..RsEncodedDataSize |-> IF i \in {1, RsEncodedDataSize} THEN {0, 7} ELSE {}]
Mixed == [i \in 1..RsEncodedDataSize |-> Bits((91 * i) % 256)]
MCCodewords == {Ones, Zeros, Mixed}

MCNoisyFrames ==
  {[frame |-> frame, bits |-> 1..(8 * 20)] :
     frame \in {UFrame(Akito, Atlas, Sabm \cup Poll), UFrame(Akito, Atlas, Disc),
                UFrame(Akito, Atlas, Ack)}}
  \cup
  {[frame |-> frame, bits |-> {p \in 1..(8 * 64) : p % 7 = 0}] :
     frame \in {IFrame(Atlas, Atlas, {1, 2, 6, 7}, Pid, info) : info \in {Ones, Mixed}}
               \cup {IFrame(Akito, Atlas, {}, {}, Mixed)}}
=============================================================================
