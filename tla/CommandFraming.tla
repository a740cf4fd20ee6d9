---------------------------- MODULE CommandFraming ----------------------------
(***************************************************************************)
(* Commands on their way to the satellite.  command_multi_pack packs a     *)
(* list of commands into blocks of RS_DECODED_DATA_SIZE bytes with         *)
(* packCmdMsg; each block travels as one I frame, which may be lost; at    *)
(* the other end unpack_command takes a block apart with unpackCmdMsg      *)
(* until it reads the zero byte that ends it.                              *)
(***************************************************************************)
EXTENDS Bytes

CONSTANTS
  CommandLists,       \* the lists of commands the operator sends
  RsDecodedDataSize,  \* 223 in the code
  MaxCmdMsgSize,      \* MAX_CMD_MSG_SIZE of the Python side, 16 in the code
  OtherBlocks         \* byte strings unpack_command may be given that
                      \* command_multi_pack did not build

\* cmd_callback_id_t; the order is that of the C enum
CmdEndOfFrame == 0
CmdRtcSync == 2
CmdDownlinkLogsNextPass == 3
CmdPing == 5
CmdSetProgrammingSession == 8
CmdDownloadData == 10
MaxCmdId == 12

OtherBlock == 0

Supported(id) == id # CmdEndOfFrame /\ id <= MaxCmdId

OneByteCommands == {CmdDownlinkLogsNextPass, CmdSetProgrammingSession}

\* the timestamp and what else a cmd_msg_t with this id holds
Values(id) ==
  IF id = CmdRtcSync THEN Uint32 \X Uint32
  ELSE IF id \in OneByteCommands THEN Uint32 \X Uint8
  ELSE IF id = CmdDownloadData THEN Uint32 \X Uint8 \X Uint16 \X Uint32
  ELSE [1..1 -> Uint32]

CmdMsg == [id : 0..127, tagged : BOOLEAN, values : Seq(Nat)]

\* the longest command, CMD_DOWNLOAD_DATA, fits a window and an empty block
ASSUME FramingAssumption ==
  /\ MaxCmdMsgSize \in Nat /\ MaxCmdMsgSize >= 12
  /\ RsDecodedDataSize \in Nat /\ RsDecodedDataSize > 12
  /\ CommandLists \subseteq Seq(CmdMsg)
  /\ \A list \in CommandLists : \A i \in DOMAIN list : list[i].values \in Values(list[i].id)
  /\ OtherBlocks \subseteq Seq(0..255) \ {<<>>}

VARIABLES
  commands,  \* the list, fixed
  next,      \* index of the command command_multi_pack packs next
  data,      \* the block it is filling
  blocks,    \* the blocks it has finished
  packer,    \* "packing", "returned" or "raised"
  sent,      \* how many blocks have gone on the air
  rx,        \* the block unpack_command works on, <<>> if none
  of,        \* which of the blocks that is, OtherBlock if it is another's
  total,     \* total_bytes_unpacked
  msgs,      \* cmd_msg_list
  results,   \* what each finished call of unpack_command gave, per block
  batches    \* history: the commands packed into each block, finished or not

sender == <<commands, next, data, blocks, packer, batches>>
receiver == <<rx, of, total, msgs, results>>
vars == <<sender, sent, receiver>>

Init ==
  /\ commands \in CommandLists
  /\ next = 1 /\ data = <<>> /\ blocks = <<>> /\ packer = "packing"
  /\ sent = 0
  /\ rx = <<>> /\ of = OtherBlock /\ total = 0 /\ msgs = <<>> /\ results = <<>>
  /\ batches = <<>>

-----------------------------------------------------------------------------
(* The layout of a command *)

TagBit == 128

\* packFns[id]
PackedData(id, values) ==
  IF id = CmdRtcSync THEN PackUint32(values[2])
  ELSE IF id \in OneByteCommands THEN PackUint8(values[2])
  ELSE IF id = CmdDownloadData
       THEN PackUint8(values[2]) \o PackUint16(values[3]) \o PackUint32(values[4])
  ELSE <<>>

\* packCmdMsg
Packed(c) ==
  <<IF c.tagged THEN c.id + TagBit ELSE c.id>>
  \o PackUint32(c.values[1]) \o PackedData(c.id, c.values)

\* the MaxCmdMsgSize bytes unpack_command copies from total on
Buffer == Window(rx, total + 1, MaxCmdMsgSize)

\* unpackFns[id], from offset 5 on: how far it reads, and what
DataLen(id) ==
  IF id = CmdRtcSync THEN 4 ELSE IF id \in OneByteCommands THEN 1
  ELSE IF id = CmdDownloadData THEN 7 ELSE 0

UnpackedData(id) ==
  IF id = CmdRtcSync THEN <<UnpackUint32(Buffer, 5)>>
  ELSE IF id \in OneByteCommands THEN <<UnpackUint8(Buffer, 5)>>
  ELSE IF id = CmdDownloadData
       THEN <<UnpackUint8(Buffer, 5), UnpackUint16(Buffer, 6), UnpackUint32(Buffer, 8)>>
  ELSE <<>>

\* unpackCmdMsg, when it supports the id
Unpacked ==
  LET id == UnpackUint8(Buffer, 0) % TagBit
  IN  [id |-> id, tagged |-> UnpackUint8(Buffer, 0) >= TagBit,
       values |-> <<UnpackUint32(Buffer, 1)>> \o UnpackedData(id)]

-----------------------------------------------------------------------------
(* command_multi_pack *)

\* slip: a full block is not padded
UnpaddedBlock(bytes) == bytes

\* ljust(RS_DECODED_DATA_SIZE, b"\x00")
Block(bytes) ==
  bytes \o [i \in 1..(RsDecodedDataSize - Len(bytes)) |-> 0]

\* slip: the byte for the final zero is given away
FitsExactly(bytes) == Len(data) + Len(bytes) <= RsDecodedDataSize

\* the last byte of a block stays zero
FitsInBlock(bytes) == Len(data) + Len(bytes) <= RsDecodedDataSize - 1

\* one iteration of the loop: the block is closed when the command does not
\* fit, and the command goes into the open block or into a new one
PackCommand ==
  LET c == commands[next] IN
    /\ packer = "packing" /\ next <= Len(commands) /\ Supported(c.id)
    /\ next' = next + 1
    /\ IF FitsInBlock(Packed(c))
       THEN /\ data' = data \o Packed(c)
            /\ batches' = (IF data = <<>> THEN Append(batches, <<c>>)
                           ELSE [batches EXCEPT ![Len(batches)] = Append(@, c)])
            /\ UNCHANGED blocks
       ELSE /\ data' = Packed(c)
            /\ batches' = Append(batches, <<c>>)
            /\ blocks' = Append(blocks, Block(data))
    /\ UNCHANGED <<commands, packer, sent, receiver>>

\* slip: the blocks closed before it are kept
PackUnsupportedKeeps ==
  /\ packer = "packing" /\ next <= Len(commands)
  /\ ~Supported(commands[next].id)
  /\ packer' = "returned"
  /\ UNCHANGED <<commands, next, data, blocks, batches, sent, receiver>>

\* packCmdMsg refuses an id without a pack function, pack_command raises, and
\* command_multi_pack with it
PackUnsupported ==
  /\ packer = "packing" /\ next <= Len(commands)
  /\ ~Supported(commands[next].id)
  /\ packer' = "raised"
  /\ UNCHANGED <<commands, next, data, blocks, batches, sent, receiver>>

\* slip: the block still open is forgotten
ReturnClosedBlocks ==
  /\ packer = "packing" /\ next > Len(commands)
  /\ packer' = "returned"
  /\ UNCHANGED <<commands, next, data, blocks, batches, sent, receiver>>

ReturnBlocks ==
  /\ packer = "packing" /\ next > Len(commands)
  /\ packer' = "returned"
  /\ blocks' = IF data = <<>> THEN blocks ELSE Append(blocks, Block(data))
  /\ UNCHANGED <<commands, next, data, batches, sent, receiver>>

-----------------------------------------------------------------------------
(* The frame on the air, and unpack_command *)

StartUnpacking(bytes, block) ==
  /\ rx' = bytes /\ of' = block /\ total' = 0 /\ msgs' = <<>>
  /\ UNCHANGED results

SendBlock ==
  /\ packer = "returned" /\ sent < Len(blocks) /\ rx = <<>>
  /\ sent' = sent + 1
  /\ StartUnpacking(blocks[sent + 1], sent + 1)
  /\ UNCHANGED sender

LoseBlock ==
  /\ packer = "returned" /\ sent < Len(blocks) /\ rx = <<>>
  /\ sent' = sent + 1
  /\ UNCHANGED <<sender, receiver>>

\* bytes from elsewhere, once in a behaviour
ReceiveOther ==
  /\ rx = <<>> /\ \A r \in DOMAIN results : results[r].block # OtherBlock
  /\ \E bytes \in OtherBlocks : StartUnpacking(bytes, OtherBlock)
  /\ UNCHANGED <<sender, sent>>

Finish(outcome) ==
  /\ results' = Append(results, [block |-> of, outcome |-> outcome, list |-> msgs])
  /\ rx' = <<>> /\ of' = OtherBlock /\ total' = 0 /\ msgs' = <<>>
  /\ UNCHANGED <<sender, sent>>

\* "The encoded command data to unpack is too long"
TooLong == Len(rx) > RsDecodedDataSize

UnpackCommand ==
  /\ ~TooLong /\ total < Len(rx) /\ rx[total + 1] # CmdEndOfFrame
  /\ Supported(rx[total + 1] % TagBit)
  /\ msgs' = Append(msgs, Unpacked)
  /\ total' = total + 5 + DataLen(Unpacked.id)
  /\ UNCHANGED <<sender, sent, rx, of, results>>

EndOfFrame ==
  /\ ~TooLong /\ total < Len(rx) /\ rx[total + 1] = CmdEndOfFrame
  /\ Finish("returned")

\* too long, OBC_GS_ERR_CODE_UNSUPPORTED_CMD, or the index past the last byte
UnpackRaises ==
  /\ rx # <<>>
  /\ ~TooLong /\ total < Len(rx) => ~Supported(rx[total + 1] % TagBit) /\ rx[total + 1] # CmdEndOfFrame
  /\ Finish("raised")

Next ==
  \/ PackCommand \/ PackUnsupported \/ ReturnBlocks
  \/ SendBlock \/ LoseBlock \/ ReceiveOther
  \/ UnpackCommand \/ EndOfFrame \/ UnpackRaises

Spec == Init /\ [][Next]_vars

-----------------------------------------------------------------------------
(* Properties *)

\* Every block is exactly what the Reed-Solomon encoder takes, and the offset
\* of unpack_command never leaves a block of command_multi_pack.
TypeOK ==
  /\ next \in 1..(Len(commands) + 1) /\ sent \in 0..Len(blocks)
  /\ packer \in {"packing", "returned", "raised"}
  /\ \A b \in DOMAIN blocks :
       /\ Len(blocks[b]) = RsDecodedDataSize
       /\ \A i \in DOMAIN blocks[b] : blocks[b][i] \in 0..255
  /\ of \in 0..sent
  /\ of # OtherBlock => rx = blocks[of] /\ total \in 0..Len(rx)

Own(r) == results[r].block # OtherBlock

\* However the commands fall into blocks, unpack_command reaches a zero byte
\* and never runs off the end of one or into the middle of a command,
\* whatever it was given before.
BlocksReadable ==
  \A r \in DOMAIN results : Own(r) => results[r].outcome = "returned"

\* A call of unpack_command gives exactly the commands that were packed into
\* its block, tags, timestamps and arguments included; a lost block takes its
\* own commands with it and shifts nothing in the others.
BatchesWhole ==
  \A r \in DOMAIN results :
    Own(r) /\ results[r].outcome = "returned"
      => results[r].list = batches[results[r].block]

\* whole is pieces[1], pieces[2] and so on, end to end
Concatenates(pieces, whole) ==
  \E cut \in [0..Len(pieces) -> 0..Len(whole)] :
    /\ cut[0] = 0 /\ cut[Len(pieces)] = Len(whole)
    /\ \A b \in DOMAIN pieces : SubSeq(whole, cut[b - 1] + 1, cut[b]) = pieces[b]

\* what the call for block b gave
Result(b) == CHOOSE r \in DOMAIN results : results[r].block = b

\* A list with a command that cannot be packed, wherever in it, is not sent at
\* all, also when blocks were closed before that command was reached.
NoneOfRefusedList ==
  (\E k \in DOMAIN commands : ~Supported(commands[k].id)) =>
    sent = 0 /\ \A r \in DOMAIN results : ~Own(r)

\* When no block was lost, what the calls of unpack_command gave, in the order
\* they gave it, is the operator's list: each command once, in order, across the
\* block ends.
AllOfSentList ==
  (/\ packer = "returned"
   /\ \A b \in DOMAIN blocks : \E r \in DOMAIN results : results[r].block = b) =>
    /\ \A b, d \in DOMAIN blocks : b < d => Result(b) < Result(d)
    /\ Concatenates([b \in DOMAIN blocks |-> results[Result(b)].list], commands)

\* The operator's list reaches unpack_command whole, as far as the air lets it,
\* or nothing of it does.
WholeListOrNothing == NoneOfRefusedList /\ AllOfSentList
=============================================================================
