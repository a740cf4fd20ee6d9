--------------------------- MODULE GroundSessionMC ---------------------------
(***************************************************************************)
(* Blocks of 18 bytes: two temperatures would fill one to its last byte.   *)
(* Four commands, one of them time-tagged, and arguments that give none.   *)
(***************************************************************************)
EXTENDS GroundSession

Typed(c, t, lnp, rtc) == [command |-> c, timestamp |-> t, lnp |-> lnp, rtc |-> rtc]

\* the parsers against the commands: options of another command, both options,
\* options left out, timestamps
MCTyped ==
  {Typed(c, t, lnp, rtc) : c \in 0..NumCmdCallbacks, t \in {<<>>, <<0>>, <<9>>},
                           lnp \in {<<>>, <<3>>, <<256>>}, rtc \in {<<>>, <<7>>}}

\* refused by the parsers, by a factory, by packCmdMsg
MCRefused ==
  {Typed(CmdPing, <<>>, <<3>>, <<7>>), Typed(CmdRtcSync, <<>>, <<>>, <<>>),
   Typed(CmdPing, <<>>, <<3>>, <<>>), Typed(CmdDownlinkLogsNextPass, <<9>>, <<256>>, <<>>),
   Typed(CmdDownloadData, <<9>>, <<>>, <<>>), Typed(NumCmdCallbacks, <<>>, <<>>, <<>>),
   Typed(CmdEndOfFrame, <<>>, <<>>, <<>>)}

MCArguments ==
  {Typed(CmdVerifyCrc, <<>>, <<>>, <<>>), Typed(CmdI2CProbe, <<9>>, <<>>, <<>>),
   Typed(CmdDownlinkTelem, <<>>, <<>>, <<>>), Typed(CmdExecObcReset, <<>>, <<>>, <<>>)}
  \cup MCRefused

\* the longest response that is read
MCOutcomes == {[errCode |-> 127, data |-> [i \in 1..(ResponseDataMax - 1) |-> i]]}

\* 10 and 11 are ids of commands, too
MCTexts == {<<10, 11>>, <<Flag, 10>>}

Temp(n) == [id |-> TelemObcTemp, timestamp |-> n, parameter |-> <<0, n, 0, 1>>]
Pong == [id |-> TelemPong, timestamp |-> 0, parameter |-> <<>>]

MCTelemetry == {<<Temp(1), Temp(2)>>, <<Pong, Temp(1)>>}
=============================================================================
