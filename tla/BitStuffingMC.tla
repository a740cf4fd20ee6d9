---------------------------- MODULE BitStuffingMC ----------------------------
(***************************************************************************)
(* Frames for the model-checked instances: short ones, of one or two bytes *)
(* that put runs of ones and zeros across the byte boundary in many ways,  *)
(* and ones as long as an I frame, five bytes here.                        *)
(***************************************************************************)
EXTENDS BitStuffing

Zero  == <<0, 0, 0, 0, 0, 0, 0, 0>>
Ones  == <<1, 1, 1, 1, 1, 1, 1, 1>>
Low5  == <<0, 0, 0, 1, 1, 1, 1, 1>>
High5 == <<1, 1, 1, 1, 1, 0, 0, 0>>
High1 == <<1, 0, 0, 0, 0, 0, 0, 0>>
Low1  == <<0, 0, 0, 0, 0, 0, 0, 1>>
Flag  == <<0, 1, 1, 1, 1, 1, 1, 0>>

MCShort ==
  LET B == {Zero, Ones, Low5, High5, High1, Low1, Flag}
  IN  B \cup {b[1] \o b[2] : b \in B \X B}

MCFull ==
  LET B == {Zero, Ones, Low5, High1}
  IN  {b[1] \o b[2] \o b[3] \o b[4] \o b[5] : b \in B \X B \X B \X B \X B}

MCContents == MCShort \cup MCFull
=============================================================================
