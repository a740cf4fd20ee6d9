--------------------------- MODULE CommandFramingMC ---------------------------
(***************************************************************************)
(* Lists of up to four commands: a ping with and without a time tag, the   *)
(* three lengths of arguments, arguments with zero bytes in front, inside  *)
(* and at the end; and two ids that have no pack function anywhere in      *)
(* lists of up to three, behind a closed block too.  Other bytes: a        *)
(* command without the final zero, an id nobody supports after a good      *)
(* command, half a command at the end, nothing but the final zero, and a   *)
(* good command in more bytes than a block has.                            *)
(***************************************************************************)
EXTENDS CommandFraming

Command(id, tagged, values) == [id |-> id, tagged |-> tagged, values |-> values]

MCGood ==
  {Command(CmdPing, FALSE, <<0>>), Command(CmdPing, TRUE, <<300>>),
   Command(CmdDownlinkLogsNextPass, FALSE, <<0, 0>>),
   Command(CmdRtcSync, TRUE, <<1, 65536>>),
   Command(CmdDownloadData, FALSE, <<0, 0, 258, 16777216>>)}

MCBad == {Command(CmdEndOfFrame, FALSE, <<0>>), Command(MaxCmdId + 1, TRUE, <<0>>)}

MCLists ==
  UNION {[1..n -> MCGood] : n \in 0..4} \cup UNION {[1..n -> MCGood \cup MCBad] : n \in 1..3}

MCOthers ==
  {<<5, 0, 0, 0, 9>>, <<133, 0, 0, 0, 9, 13, 0>>, <<10, 0, 0, 1>>, <<0>>,
   <<5, 0, 0, 0, 9>> \o [k \in 1..11 |-> 0]}
=============================================================================
