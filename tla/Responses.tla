------------------------------ MODULE Responses ------------------------------
(***************************************************************************)
(* What the satellite answers, in a block of RS_DECODED_DATA_SIZE bytes: a *)
(* command response (packCmdResponse, unpackCmdResponse and the parsers of *)
(* command_response_callbacks.py) or a list of telemetry (packTelemetry,   *)
(* unpackTelemetry and unpack_telem).  A float is its four bytes.          *)
(***************************************************************************)
EXTENDS Bytes, SequencesExt

CONSTANT RsDecodedDataSize      \* 223 in the code

\* cmd_callback_id_t
CmdEndOfFrame == 0
CmdExecObcReset == 1
CmdRtcSync == 2
CmdDownlinkLogsNextPass == 3
CmdPing == 5
CmdDownlinkTelem == 6
CmdSetProgrammingSession == 8
CmdDownloadData == 10
CmdVerifyCrc == 11
CmdI2CProbe == 12
NumCmdCallbacks == 13

CmdResponseSuccess == 1

\* CMD_RESPONSE_DATA_MAX_SIZE: 220 in the code, what a header of three leaves
ResponseDataMax == RsDecodedDataSize - 3

\* telemetry_data_id_t
TelemNone == 0
TelemObcTemp == 3
TelemObcState == 23
TelemPong == 26

\* MAX_TELEMETRY_DATA_SIZE is sizeof(telemetry_data_t)
MaxTelemetryDataSize == 12

-----------------------------------------------------------------------------
(* Command responses.  What may be refused gives a set: of the one result, *)
(* or empty when the error code is not SUCCESS.                            *)

PackCmdResponse(id, errCode, data) ==
  IF id >= NumCmdCallbacks \/ Len(data) > ResponseDataMax THEN {}
  ELSE {<<id, errCode, Len(data)>> \o Window(data, 1, ResponseDataMax)}

\* slip: the data is taken from behind the first header byte
UnpackCmdResponseShifted(block) ==
  LET header == Window(block, 1, 3)
  IN  IF header[1] >= NumCmdCallbacks \/ header[3] >= ResponseDataMax THEN {}
      ELSE {[id |-> header[1], errCode |-> header[2], dataLen |-> header[3],
             data |-> Window(block, 2, ResponseDataMax)]}

\* unpackCmdResponse, of a block that ctypes fills up with zeros
UnpackCmdResponse(block) ==
  LET header == Window(block, 1, 3)
  IN  IF header[1] >= NumCmdCallbacks \/ header[3] >= ResponseDataMax THEN {}
      ELSE {[id |-> header[1], errCode |-> header[2], dataLen |-> header[3],
             data |-> Window(block, 4, ResponseDataMax)]}

\* int.from_bytes(data, "little")
LittleEndian(bytes) == UnpackUint32(Reverse(bytes), 0)

\* what parse_func_dict makes of the data of a response
Parsed(r) ==
  CASE r.id \in {CmdRtcSync, CmdVerifyCrc} -> <<LittleEndian(SubSeq(r.data, 1, 4))>>
    [] r.id = CmdI2CProbe -> SubSeq(r.data, 1, r.dataLen)
    [] OTHER -> <<>>

ParseCommandResponse(block) ==
  {[kind |-> "response", id |-> r.id, errCode |-> r.errCode, length |-> r.dataLen,
    value |-> Parsed(r)] : r \in UnpackCmdResponse(block)}

-----------------------------------------------------------------------------
(* Telemetry *)

\* the bytes that telemPackFns[id] writes and telemUnpackFns[id] reads
ParameterLen ==
  [id \in {TelemObcTemp, TelemObcState, TelemPong} |->
     IF id = TelemObcTemp THEN 4 ELSE IF id = TelemObcState THEN 1 ELSE 0]

\* slip: room for the longest record, not for the structure
RoomTight(len) == len >= 9

\* len is at least MAX_TELEMETRY_DATA_SIZE
Room(len) == len >= MaxTelemetryDataSize

PackedRecord(t) == <<t.id>> \o PackUint32(t.timestamp) \o t.parameter

PackTelemetry(t, len) ==
  IF ~Room(len) \/ t.id \notin DOMAIN ParameterLen THEN {} ELSE {PackedRecord(t)}

\* an id below NUM_UNPACK_FNS without an unpack function sets obcState to 0xF
UnpackTelemetry(buffer) ==
  LET id == buffer[1]
      known == id \in DOMAIN ParameterLen
  IN  IF id > TelemPong THEN {}
      ELSE {[used |-> IF known THEN 5 + ParameterLen[id] ELSE 5,
             telemetry |->
               [id |-> id, timestamp |-> UnpackUint32(Window(buffer, 2, 4), 0),
                parameter |-> IF known THEN Window(buffer, 6, ParameterLen[id]) ELSE <<15>>]]}

\* one round of the loop of unpack_telem, which raises past the last byte and
\* stops at an id TELEM_NONE
UnpackNext(block, state) ==
  IF state.at > Len(block) \/ block[state.at] = TelemNone THEN {}
  ELSE {[at |-> state.at + r.used, list |-> Append(state.list, r.telemetry)] :
        r \in UnpackTelemetry(SubSeq(block, state.at, Len(block)))}

\* the states of the loop; a record is at least five bytes
UnpackStates(block) ==
  LET round[k \in 0..(Len(block) \div 5)] ==
        IF k = 0 THEN {[at |-> 1, list |-> <<>>]}
        ELSE UNION {UnpackNext(block, state) : state \in round[k - 1]}
  IN  round

UnpackTelem(block) ==
  {state.list : state \in
    {s \in UNION {UnpackStates(block)[k] : k \in 0..(Len(block) \div 5)} :
       s.at <= Len(block) /\ block[s.at] = TelemNone}}

\* the sender's packet: record after record, until packTelemetry refuses one
RecordsPacked(list) ==
  LET packed[k \in 0..Len(list)] ==
        IF k = 0 THEN <<>> ELSE packed[k - 1] \o PackedRecord(list[k])
  IN  packed

TelemetryPacket(list) ==
  LET accepted == {k \in 0..Len(list) : \A i \in 1..k :
                     PackTelemetry(list[i], RsDecodedDataSize - Len(RecordsPacked(list)[i - 1])) # {}}
      n == CHOOSE k \in accepted : k + 1 \notin accepted
  IN  [block |-> Window(RecordsPacked(list)[n], 1, RsDecodedDataSize), list |-> SubSeq(list, 1, n)]
=============================================================================
