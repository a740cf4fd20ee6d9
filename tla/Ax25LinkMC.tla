------------------------------ MODULE Ax25LinkMC ------------------------------
(***************************************************************************)
(* The frames the ground station sends in the model-checked instances: an  *)
(* I frame, each command with or without the poll bit, S frames of which   *)
(* one has a control byte sFrameRecv does not know, and a U frame of a     *)
(* command the library does not handle.                                    *)
(***************************************************************************)
EXTENDS Ax25Link

MCFewControls == {{}, Sabm \cup {PollFinal}, Ack}

MCGroundControls ==
  {{}, Sabm \cup {PollFinal}, Disc, Ack, {0, 2}, {0, 7}, {0, 1}}
=============================================================================
