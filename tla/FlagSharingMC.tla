---------------------------- MODULE FlagSharingMC ----------------------------
(***************************************************************************)
(* Frames of seven bytes of information and counters of three bits, in     *)
(* the proportion of the code's 255 and 256: every length up to the one    *)
(* that wraps the number of frames, and buffers just large enough or just  *)
(* too small for each number of frames.                                    *)
(***************************************************************************)
EXTENDS FlagSharing

MCTelemDataLens == 0..72
MCBufferLens == {k * FrameLen + d : k \in 0..8, d \in 0..1}
MCRoomy == {9 * FrameLen}
=============================================================================
