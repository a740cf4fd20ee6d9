----------------------------- MODULE FlagSharing -----------------------------
(***************************************************************************)
(* ax25SendIFrameWithFlagSharing: one call cuts telemDataLen bytes of      *)
(* telemetry into I frames that share their flags.  The frames and what is *)
(* left to send are counted in a uint8_t each, whatever the length.  Data  *)
(* is abstracted to where it is read from and where it is put.             *)
(***************************************************************************)
EXTENDS Integers, Sequences

CONSTANTS
  TelemDataLens,   \* the lengths given to the function, uint32_t
  BufferLens,      \* the lengths ax25DataLen of the buffer for the frames
  InfoBytes,       \* AX25_INFO_BYTES
  U8               \* 2^8

ASSUME SharingAssumption ==
  /\ TelemDataLens \subseteq Nat /\ BufferLens \subseteq Nat
  /\ InfoBytes \in Nat \ {0} /\ U8 = InfoBytes + 1

\* flag, two addresses, two control bytes, PID, information, FCS
FrameLen == 1 + 14 + 2 + 1 + InfoBytes + 2   \* AX25_MINIMUM_I_FRAME_LEN_SHARE_FLAG
InfoPosition == 17                           \* AX25_INFO_FIELD_POSITION, mod 8
FcsPosition == InfoPosition + InfoBytes      \* AX25_I_FRAME_FCS_POSITION

VARIABLES
  telemDataLen, ax25DataLen,            \* the arguments
  numOfFrames, remainingDataBytes, frameStart,
  phase,                                \* "called", "framing", "done", "refused"
  \* history: the bytes of telemetry the last frame read, and the end of what
  \* is written of the buffer
  readFrom, readCount, top

args == <<telemDataLen, ax25DataLen>>
touched == <<readFrom, readCount, top>>
vars == <<args, numOfFrames, remainingDataBytes, frameStart, phase, touched>>

Init ==
  /\ telemDataLen \in TelemDataLens /\ ax25DataLen \in BufferLens
  /\ numOfFrames = 0 /\ remainingDataBytes = 0 /\ frameStart = 0
  /\ phase = "called" /\ readFrom = 0 /\ readCount = 0 /\ top = 0

\* slip: rounded down
FramesForFloor(len) == (len \div InfoBytes) % U8

\* slip: as wide as the length
FramesForWide(len) == (len + InfoBytes - 1) \div InfoBytes

FramesFor(len) == ((len + InfoBytes - 1) \div InfoBytes) % U8

\* slip: the closing flag is not counted
BufferHoldsFlagless(frames) == ax25DataLen >= frames * FrameLen

BufferHolds(frames) == ax25DataLen >= frames * FrameLen + 1

Refuse ==
  /\ phase = "called" /\ ~BufferHolds(FramesFor(telemDataLen))
  /\ phase' = "refused"
  /\ UNCHANGED <<args, numOfFrames, remainingDataBytes, frameStart, touched>>

Start ==
  /\ phase = "called" /\ BufferHolds(FramesFor(telemDataLen))
  /\ numOfFrames' = FramesFor(telemDataLen)
  /\ remainingDataBytes' = telemDataLen % U8
  /\ phase' = "framing"
  /\ UNCHANGED <<args, frameStart, touched>>

\* slip: a frame that is not full takes what the counter says is left, plus one
CopiedOneMore == IF remainingDataBytes >= InfoBytes THEN InfoBytes ELSE remainingDataBytes + 1

\* the bytes memcpy takes for this frame
Copied == IF remainingDataBytes >= InfoBytes THEN InfoBytes ELSE remainingDataBytes

Frame ==
  /\ phase = "framing" /\ frameStart < numOfFrames
  /\ readFrom' = frameStart * InfoBytes /\ readCount' = Copied
  /\ top' = frameStart * FrameLen + FcsPosition + 2
  /\ frameStart' = (frameStart + 1) % U8
  /\ remainingDataBytes' = (remainingDataBytes - InfoBytes) % U8
  /\ UNCHANGED <<args, numOfFrames, phase>>

LastFlag ==
  /\ phase = "framing" /\ frameStart >= numOfFrames
  /\ top' = frameStart * FrameLen + 1
  /\ phase' = "done"
  /\ UNCHANGED <<args, numOfFrames, remainingDataBytes, frameStart, readFrom, readCount>>

Next == Refuse \/ Start \/ Frame \/ LastFlag

Spec == Init /\ [][Next]_vars /\ WF_vars(Next)

-----------------------------------------------------------------------------
(* Properties *)

\* The counters are bytes, and the frame counter never passes the number of
\* frames that was computed for it.
TypeOK ==
  /\ telemDataLen \in TelemDataLens /\ ax25DataLen \in BufferLens
  /\ numOfFrames \in 0..(U8 - 1) /\ frameStart \in 0..numOfFrames
  /\ remainingDataBytes \in 0..(U8 - 1)
  /\ phase \in {"called", "framing", "done", "refused"}
  /\ readFrom \in Nat /\ readCount \in 0..InfoBytes
  /\ top \in Nat

\* Whatever the wrapped counters hold, no frame reads beyond the telemetry or
\* writes beyond the buffer it was given.
StaysInside ==
  /\ top <= ax25DataLen
  /\ readFrom + readCount <= telemDataLen

\* The last frame of a burst ends with the last byte of the telemetry, although
\* the count of what is left has wrapped on the way.
LastFrameExact ==
  phase = "done" /\ telemDataLen \in 1..(InfoBytes * (U8 - 1)) =>
    readFrom + readCount = telemDataLen

\* The call returns: frameStart, of the width of numOfFrames, reaches it.
Returns == <>(phase \in {"done", "refused"})

\* What the header says: "prepares ax25data with appropriate number of I
\* frames" for the "data to send".
WholeTelemetrySent ==
  phase = "framing" /\ frameStart \in 1..(numOfFrames - 1) => readCount = InfoBytes
=============================================================================
