---------------------------- MODULE GroundSession ----------------------------
(***************************************************************************)
(* The ground station's side of a serial line: send_command,               *)
(* send_conn_request and poll (command_utils.py), what the operator's      *)
(* arguments become (generate_command), and CommsPipeline.decode_frame.    *)
(* One of the three is at work at a time.  The satellite answers what it   *)
(* hears when it likes, or not at all, and its other tasks write to the    *)
(* same line.                                                              *)
(*                                                                         *)
(* The line holds bytes and packets.  A packet begins and ends with a flag *)
(* byte; of a packet that had not arrived whole a read gets the first flag *)
(* and bytes that are no UTF-8, and the next read the rest.                *)
(***************************************************************************)
EXTENDS Responses

CONSTANTS
  Arguments,       \* what the operator types
  Outcomes,        \* what a command can answer: [errCode, data]
  TelemetryLists,  \* the telemetry the satellite may have
  LogTexts,        \* what its other tasks may write: bytes, none of them twice
  Noises,          \* what the radio does to packets, see Arriving
  MaxCalls         \* bounds the calls of send_command and send_conn_request

Flag == 126
NotText == 255     \* stands for bytes that are no UTF-8

ASSUME SessionAssumption ==
  /\ RsDecodedDataSize \in Nat /\ RsDecodedDataSize >= MaxTelemetryDataSize + 3
  /\ \A a \in Arguments :
       /\ a.command \in 0..NumCmdCallbacks
       /\ \A option \in {a.timestamp, a.lnp, a.rtc} :   \* <<>> when not given
            Len(option) <= 1 /\ \A i \in DOMAIN option : option[i] \in Int
  /\ \A o \in Outcomes :
       o.errCode \in 0..255 /\ o.data \in Seq(0..255) /\ Len(o.data) <= ResponseDataMax
  /\ TelemetryLists \subseteq Seq([id : 0..255, timestamp : Uint32, parameter : Seq(0..255)])
  /\ \A list \in TelemetryLists : \A i \in DOMAIN list :
       list[i].id \in DOMAIN ParameterLen => Len(list[i].parameter) = ParameterLen[list[i].id]
  /\ \A text \in LogTexts : text \in Seq(0..NotText) /\ IsInjective(text)
  /\ Noises \subseteq {"none", "data", "other", "unframed"}
  /\ MaxCalls \in Nat

VARIABLES
  mode,      \* "idle", "commanding", "connecting", "polling"
  command,   \* the CmdMsg send_command has written, None when it is not at work
  tagged,    \* its is_timetagged
  line,      \* what has arrived at the port and was not read
  log,       \* the file at LOG_PATH or file_path
  returned,  \* what the last call gave, None while one is at work
  framed,    \* history: send_command took it from a frame
  \* the satellite
  due,       \* the answers it is going to send
  written,   \* history: what its other tasks wrote
  \* history
  calls,     \* how many calls wrote to the line
  answers,   \* every answer the satellite decided on, with the call it answers
  clear,     \* no answer was due or on the line when the last call was made
  repeated   \* send_conn_request has read no frame, see LogAll

satellite == <<due, written>>
history == <<calls, answers, clear, repeated>>
result == <<returned, framed>>
vars == <<mode, command, tagged, line, log, result, satellite, history>>

-----------------------------------------------------------------------------
(* generate_command and the factories *)

Raised == [kind |-> "raised"]
None == [kind |-> "none"]

\* the arguments COMMAND_FACTORIES[id] takes before unixtime_of_execution
Arity(id) ==
  IF id \in {CmdRtcSync, CmdDownlinkLogsNextPass, CmdSetProgrammingSession} THEN 1
  ELSE IF id = CmdDownloadData THEN 3 ELSE 0

\* a call that has no factory (NUM_CMD_CALLBACKS), the wrong number of
\* arguments, or None or a wrong type where a number is needed, raises
Create(id, args) ==
  LET n == Arity(id)
      stamp == IF Len(args) > n THEN args[n + 1] ELSE <<>>
  IN  IF \/ id = NumCmdCallbacks
         \/ Len(args) \notin n..(n + 1)
         \/ id = CmdSetProgrammingSession
         \/ n = 1 /\ args[1] = <<>>
         \/ id = CmdDownlinkLogsNextPass /\ args[1][1] > 255
      THEN Raised
      ELSE [kind |-> "command", id |-> id,
            argument |-> SubSeq(args, 1, n),
            isTimeTagged |-> stamp # <<>>, timestamp |-> stamp]

Positive(stamp) == stamp # <<>> /\ stamp[1] > 0

\* the parser for log_next_pass is tried first, then that for rtc_sync_time,
\* each without looking at the command's name; both options together are
\* refused by all three
GenerateCommand(a) ==
  LET specific == a.lnp \o a.rtc
      refused == Len(specific) = 2
  IN  [command |-> IF refused THEN None
                   ELSE IF specific # <<>> THEN Create(a.command, <<specific, a.timestamp>>)
                   ELSE Create(a.command, <<a.timestamp>>),
       tagged |-> ~refused /\ Positive(a.timestamp)]

-----------------------------------------------------------------------------
(* The line, and what a read is taken apart into *)

Byte(b) == [kind |-> "byte", byte |-> b]

Packet(answer, noise) == [kind |-> "packet", of |-> answer, noise |-> noise]

\* "data": at most 16 damaged bytes of information, which Reed-Solomon puts
\* right; "other": damage that leaves a checksum wrong; "unframed": both
\* flags are damaged as well
Arriving(answer, noise) ==
  IF noise = "unframed" THEN Byte(NotText) ELSE Packet(answer, noise)

IsPacket(s) == s.kind = "packet"
Flagged(s) == IsPacket(s) \/ s.byte = Flag

FlagAt(read) == {i \in DOMAIN read : Flagged(read[i])}
FirstFlag(read) == CHOOSE i \in FlagAt(read) : \A j \in FlagAt(read) : i <= j
LastFlag(read) == CHOOSE i \in FlagAt(read) : \A j \in FlagAt(read) : j <= i
HasFlag(read) == FlagAt(read) # {}

Left(read) == SubSeq(read, 1, FirstFlag(read) - 1)
Right(read) == SubSeq(read, LastFlag(read) + 1, Len(read))
Outer(read) == Left(read) \o Right(read)
FrameBytes(read) == SubSeq(read, FirstFlag(read), LastFlag(read))

Decodes(text) == \A i \in DOMAIN text : ~IsPacket(text[i]) /\ text[i].byte # NotText

Garbled(block) == IF block = <<>> THEN <<>> ELSE [block EXCEPT ![1] = (@ + 1) % NumCmdCallbacks]

\* slip: the checksums are computed and not compared
DecodeFrameUnchecked(bytes) ==
  IF Len(bytes) # 1 \/ ~IsPacket(bytes[1]) THEN {}
  ELSE {IF bytes[1].noise = "none" THEN bytes[1].of.block ELSE Garbled(bytes[1].of.block)}

\* CommsPipeline.decode_frame of the bytes from the first flag to the last: the
\* information of a packet whose damage, if any, can be corrected.  What lies between
\* flags of different origin has no matching checksum, and a lone flag has nothing
\* between flags: the checksum of no bytes is the 0 it reads, and Frame.unpack
\* raises instead.  The set is empty when it raises.
DecodeFrame(bytes) ==
  IF \/ Len(bytes) # 1 \/ ~IsPacket(bytes[1])
     \/ bytes[1].noise = "other"
     \/ bytes[1].noise = "data" /\ bytes[1].of.block = <<>>
  THEN {}
  ELSE {bytes[1].of.block}

\* unpack_telem and the loop over what it gives
Telemetry(block) ==
  {IF \E i \in DOMAIN list : list[i].id # TelemObcTemp THEN None
   ELSE [kind |-> "telemetry", list |-> list] : list \in UnpackTelem(block)}

\* the bytes a read without a flag is parsed as
RawBytes(read) ==
  [i \in 1..(IF Len(read) < RsDecodedDataSize THEN Len(read) ELSE RsDecodedDataSize) |->
     read[i].byte]

-----------------------------------------------------------------------------
Init ==
  /\ mode = "idle" /\ command = None /\ tagged = FALSE
  /\ line = <<>> /\ log = <<>> /\ returned = None /\ framed = FALSE
  /\ due = {} /\ written = <<>>
  /\ calls = 0 /\ answers = {} /\ clear = TRUE /\ repeated = FALSE

(* The satellite and the radio *)

TelemetryAnswers(n) ==
  {[kind |-> "telemetry", call |-> n, list |-> p.list, block |-> p.block] :
     p \in {TelemetryPacket(list) : list \in TelemetryLists}}

ResponseAnswers(n, id) ==
  UNION {{[kind |-> "response", call |-> n, id |-> id, errCode |-> o.errCode,
           data |-> o.data, block |-> block] : block \in PackCmdResponse(id, o.errCode, o.data)} :
         o \in Outcomes}

AckAnswer(n) == [kind |-> "ack", call |-> n, block |-> <<>>]

\* what was written to the line reaches the satellite, which decides what it
\* will answer, or is lost
Hear(possible) ==
  \/ \E a \in possible : due' = due \cup {a} /\ answers' = answers \cup {a}
  \/ UNCHANGED <<due, answers>>

SendAnswer ==
  /\ \E a \in due, noise \in Noises :
       /\ due' = due \ {a}
       /\ line' = Append(line, Arriving(a, noise))
  /\ UNCHANGED <<mode, command, tagged, log, result, written, history>>

WriteLog ==
  /\ \E text \in LogTexts :
       LET n == Len(written) IN
         /\ n < Len(text) /\ \A i \in 1..n : written[i] = Byte(text[i])
         /\ written' = Append(written, Byte(text[n + 1]))
         /\ line' = Append(line, Byte(text[n + 1]))
  /\ UNCHANGED <<mode, command, tagged, log, result, due, history>>

\* a read returns what has arrived when its time is up, which may be the first
\* half only of the last packet
Halved == SubSeq(line, 1, Len(line) - 1) \o <<Byte(Flag), Byte(NotText)>>

Reads == {line} \cup (IF line # <<>> /\ IsPacket(line[Len(line)]) THEN {Halved} ELSE {})

Read(read) == line' = IF read = line THEN <<>> ELSE <<Byte(NotText), Byte(Flag)>>

\* opening the port may discard what came while it was closed
Open ==
  /\ line' \in {line, <<>>}
  /\ returned' = None /\ framed' = FALSE

-----------------------------------------------------------------------------
(* send_command *)

NothingOutstanding == due = {} /\ \A i \in DOMAIN line' : ~IsPacket(line'[i])

Count ==
  /\ calls < MaxCalls /\ calls' = calls + 1
  /\ clear' = NothingOutstanding

\* nothing is written: the arguments are refused, a factory raises, or
\* packCmdMsg refuses the id
RefuseCommand ==
  /\ mode = "idle"
  /\ \E a \in Arguments :
       LET c == GenerateCommand(a).command
       IN  /\ c.kind = "command" => c.id = CmdEndOfFrame
           /\ returned' = IF c = None THEN None ELSE Raised
  /\ framed' = FALSE
  /\ UNCHANGED <<mode, command, tagged, line, log, satellite, history>>

SendCommand ==
  /\ mode = "idle"
  /\ \E a \in Arguments :
       LET g == GenerateCommand(a)
       IN  /\ g.command.kind = "command" /\ g.command.id # CmdEndOfFrame
           /\ command' = g.command /\ tagged' = g.tagged
           /\ Hear(IF g.command.id = CmdDownlinkTelem THEN TelemetryAnswers(calls + 1)
                   ELSE ResponseAnswers(calls + 1, g.command.id))
  /\ Open /\ Count
  /\ mode' = "commanding"
  /\ UNCHANGED <<log, written, repeated>>

ResetDone ==
  [kind |-> "response", id |-> CmdExecObcReset, errCode |-> CmdResponseSuccess,
   length |-> 0, value |-> <<>>]

\* what is parsed once a frame was found and the text around it logged
OfFrame(data) ==
  IF data = <<>> THEN {}
  ELSE IF command.id = CmdDownlinkTelem THEN Telemetry(data)
  ELSE IF tagged THEN {} ELSE ParseCommandResponse(data)

\* what a read gives; empty, and send_command returns None, where an exception
\* is caught
Results(read) ==
  IF command.id = CmdExecObcReset THEN {ResetDone}
  ELSE IF HasFlag(read)
  THEN IF Decodes(Outer(read)) THEN UNION {OfFrame(d) : d \in DecodeFrame(FrameBytes(read))}
       ELSE {}
  ELSE IF tagged THEN {} ELSE ParseCommandResponse(RawBytes(read))

OrNone(results) == IF results = {} THEN {None} ELSE results

\* read[:-1] + read[0:]
Repeated(read) == SubSeq(read, 1, Len(read) - 1) \o read

\* slip: what lies around a frame is logged whether or not it is text
LoggedBytes(read) ==
  IF command.id # CmdExecObcReset /\ HasFlag(read) THEN Outer(read) ELSE <<>>

\* slip: as send_conn_request does it, without asking for a flag
LoggedUnasked(read) ==
  IF HasFlag(read) THEN IF Decodes(Outer(read)) THEN Outer(read) ELSE <<>>
  ELSE IF Decodes(read) THEN Repeated(read) ELSE <<>>

Logged(read) ==
  IF command.id # CmdExecObcReset /\ HasFlag(read) /\ Decodes(Outer(read))
  THEN Outer(read) ELSE <<>>

\* one read, whatever it brings
ReadAnswer ==
  /\ mode = "commanding"
  /\ \E read \in Reads :
       /\ Read(read)
       /\ returned' \in OrNone(Results(read))
       /\ framed' = (/\ HasFlag(read) /\ command.id # CmdExecObcReset
                     /\ returned' # None)
       /\ log' = log \o Logged(read)
  /\ mode' = "idle" /\ command' = None /\ tagged' = FALSE
  /\ UNCHANGED <<satellite, history>>

-----------------------------------------------------------------------------
(* send_conn_request *)

SendConnRequest ==
  /\ mode = "idle"
  /\ Hear({AckAnswer(calls + 1)})
  /\ Open /\ Count
  /\ mode' = "connecting"
  /\ UNCHANGED <<command, tagged, log, written, repeated>>

\* an exception goes to the caller
OrRaised(results) == IF results = {} THEN {Raised} ELSE results

\* without a flag both indices are -1, the text goes to the log all the same, and
\* decode_frame gets no bytes
ReadAck ==
  /\ mode = "connecting"
  /\ \E read \in Reads :
       LET outer == IF HasFlag(read) THEN Outer(read) ELSE Repeated(read)
       IN  /\ Read(read)
           /\ log' = IF Decodes(outer) THEN log \o outer ELSE log
           /\ returned' \in
                IF ~Decodes(outer) THEN {Raised}
                ELSE IF ~HasFlag(read) THEN {None}
                ELSE OrRaised({[kind |-> "frame", data |-> d] : d \in DecodeFrame(FrameBytes(read))})
           /\ repeated' = (repeated \/ ~HasFlag(read))
  /\ mode' = "idle"
  /\ UNCHANGED <<command, tagged, framed, satellite, calls, answers, clear>>

-----------------------------------------------------------------------------
(* poll *)

StartPoll ==
  /\ mode = "idle" /\ mode' = "polling"
  /\ Open
  /\ UNCHANGED <<command, tagged, log, satellite, history>>

\* stop_flag, asked before each read
StopPoll ==
  /\ mode = "polling" /\ mode' = "idle"
  /\ returned' = None
  /\ UNCHANGED <<command, tagged, line, log, framed, satellite, history>>

\* str(command_res); an ACK has none
Reports(data) == IF data = <<>> THEN {None} ELSE ParseCommandResponse(data)

\* data_string; empty where something raises
Polled(read) ==
  IF ~HasFlag(read) THEN {text \in {read} : Decodes(text)}
  ELSE IF ~Decodes(Outer(read)) THEN {}
  ELSE UNION {{Left(read) \o <<report>> \o Right(read) : report \in Reports(d)} :
              d \in DecodeFrame(FrameBytes(read))}

\* slip: an exception is caught and the loop goes on
PollRaisesCaught ==
  /\ mode = "polling"
  /\ \E read \in Reads : Read(read) /\ Polled(read) = {}
  /\ UNCHANGED <<mode, command, tagged, log, result, satellite, history>>

\* one round of the loop
PollRead ==
  /\ mode = "polling"
  /\ \E read \in Reads :
       /\ Read(read)
       /\ \E data_string \in Polled(read) : log' = log \o data_string
  /\ UNCHANGED <<mode, command, tagged, result, satellite, history>>

\* the last round: nothing here catches an exception
PollRaises ==
  /\ mode = "polling" /\ mode' = "idle"
  /\ \E read \in Reads : Read(read) /\ Polled(read) = {}
  /\ returned' = Raised
  /\ UNCHANGED <<command, tagged, log, framed, satellite, history>>

-----------------------------------------------------------------------------
Next ==
  \/ SendAnswer \/ WriteLog
  \/ RefuseCommand \/ SendCommand \/ ReadAnswer
  \/ SendConnRequest \/ ReadAck
  \/ StartPoll \/ StopPoll \/ PollRead \/ PollRaises

\* the loop of poll does not wait for anything but its reads, which time out
Spec == Init /\ [][Next]_vars /\ WF_vars(PollRead \/ PollRaises)

-----------------------------------------------------------------------------
(* Properties *)

\* Only text and reports get into the log, whatever the line brings, and only
\* commands of the enumeration, one option each, on the line.
TypeOK ==
  /\ mode \in {"idle", "commanding", "connecting", "polling"}
  /\ tagged \in BOOLEAN /\ framed \in BOOLEAN /\ clear \in BOOLEAN /\ repeated \in BOOLEAN
  /\ command # None =>
       command.id \in 1..(NumCmdCallbacks - 1) /\ Len(command.argument) <= 1
  /\ calls \in 0..MaxCalls
  /\ due \subseteq answers /\ \A a \in answers : a.call \in 1..calls
  /\ \A i \in DOMAIN log :
       \/ log[i].kind \in {"none", "response"}
       \/ log[i].kind = "byte" /\ log[i].byte \notin {Flag, NotText}

\* what an answer says
Shows(r, a) ==
  \/ /\ a.kind = "response" /\ r.kind = "response"
     /\ r.id = a.id /\ r.errCode = a.errCode /\ r.length = Len(a.data)
     /\ a.id = CmdI2CProbe => r.value = a.data
     /\ a.id \in {CmdRtcSync, CmdVerifyCrc} =>
          r.value = <<LittleEndian(Window(a.data, 1, 4))>>
  \/ /\ a.kind = "telemetry" /\ r.kind = "telemetry"
     /\ r.list = a.list

\* Whatever noise, log text and other answers came in the same read, what
\* send_command takes from a frame, and what poll logs, was read from an answer
\* the satellite sent.
AnswersGenuine ==
  /\ framed => \E a \in answers :
                 returned \in ParseCommandResponse(a.block) \cup Telemetry(a.block)
  /\ \A i \in DOMAIN log :
       log[i].kind = "response" => \E a \in answers : log[i] \in ParseCommandResponse(a.block)

\* When no answer to an earlier call was outstanding as a command was sent, what
\* send_command takes from a frame is the answer to this command and says what
\* the satellite said.  (Nothing in an answer is compared with the command: a late
\* answer is taken for the answer to the next command.)
AnswersAttributed ==
  clear /\ framed => \E a \in answers : a.call = calls /\ Shows(returned, a)

\* the read brings a and text and nothing else
Clean(a) ==
  /\ \E i \in DOMAIN line :
       /\ line[i] \in {Packet(a, "none"), Packet(a, "data")}
       /\ FlagAt(line) = {i}
  /\ Decodes(Outer(line)) /\ line' = <<>>

\* An answer that arrives whole, in log text or not, with damage Reed-Solomon
\* can correct or none, gets to the operator: send_command returns it if it
\* answers this command, and poll logs it, with the text around it.  Left out: a
\* response of exactly ResponseDataMax bytes, which unpackCmdResponse refuses,
\* time-tagged commands, and telemetry other than temperatures.
CleanAnswersReach ==
  [][\A a \in answers :
       /\ Clean(a)
       /\ a.kind = "response" =>
            Len(a.data) < ResponseDataMax /\ (mode = "commanding" => ~tagged)
       /\ a.kind = "telemetry" =>
            mode = "commanding" /\ \A i \in DOMAIN a.list : a.list[i].id = TelemObcTemp
       => /\ ReadAnswer /\ a.call = calls /\ a.kind # "ack" /\ command.id # CmdExecObcReset
            => Shows(returned', a) /\ log' = log \o Outer(line)
          /\ PollRead /\ a.kind = "response"
            => \E report \in {log'[i] : i \in DOMAIN log'} :
                 Shows(report, a) /\ log' = log \o Left(line) \o <<report>> \o Right(line)]_vars

\* The log holds what the satellite's tasks wrote in the order they wrote it,
\* and nothing twice, across calls and polls.  (But send_conn_request writes most of
\* a read without a frame twice.)
LogOrdered ==
  ~repeated =>
    \A j \in DOMAIN log : log[j].kind = "byte" =>
      \E l \in DOMAIN written :
        /\ written[l] = log[j]
        /\ \A i \in 1..(j - 1) : log[i].kind = "byte" =>
             \E k \in 1..(l - 1) : written[k] = log[i]

OnLine(n) == \E i \in DOMAIN line : IsPacket(line[i]) /\ line[i].of.call = n
Reported(n) ==
  \E a \in answers, i \in DOMAIN log :
    /\ a.call = n
    /\ log[i] \in Reports(a.block)

\* poll swallows no answer: one that is on the line while it runs is eventually
\* in the log, unless poll ends, by its stop flag or an exception.
AnswersLogged ==
  \A n \in 1..MaxCalls :
    OnLine(n) /\ mode = "polling" ~> Reported(n) \/ mode # "polling"

\* What the help of --timestamp says: "The time stamp for when the command should
\* execute".
StampTagsCommand == command # None /\ tagged => command.isTimeTagged
=============================================================================
