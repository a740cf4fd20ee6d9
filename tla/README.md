# Formal models of the UW Orbital OBC / ground station interface

TLA+ models, TLC configurations and TLAPS proofs for the code that the on-board
computer (OBC, C) and the ground station (Python, partly through ctypes bindings
to the same C) share: AX.25 framing and link control, command packing and
framing, Reed-Solomon, answers and telemetry, and the ground station's
sessions on the serial line. `PROJECT.json` is the machine-readable
index: components, runs, mutants, the map from definitions to source lines,
findings, hazards and theorems.

## 1. Inventory

| component | code | state | operations | what makes it correct | model |
|---|---|---|---|---|---|
| AX.25 link control | `obc_gs_interface/ax25/obc_gs_ax25.c` | three statics: `pktSentNum`, `pktReceiveNum` (uint8_t), `currentLinkDestAddr` | set / clear address, send I, flag-shared I and U frames, `ax25Recv` with its I, S, U handlers | sequence numbers stay in their 3-bit fields, count modulo the window, acknowledge what was accepted; nothing leaves unaddressed; a damaged frame changes nothing; SABM leaves a usable link | `Ax25Link` |
| AX.25 stuffing | same, and `ax25/__init__.py` | loop counters | `ax25Stuff`, `ax25Unstuff`, `AX25.stuff`, `AX25.unstuff` | no flag inside a packet; at most 6/5 growth; unstuffing inverts stuffing across the two implementations, length included | `BitStuffing` |
| addresses, frames and FCS | same, `common/obc_gs_crc.c` | none | building and checking U and I frames to the bit | each end understands the other's frames; noise is noticed | `CommsPipeline` |
| comms pipeline | `utils/encode_decode.py` (copy: `command_packaging.py`) | AES and FEC objects | `encode_frame`, `decode_frame` | decode inverts encode under correctable noise | `CommsPipeline` |
| flag sharing | `obc_gs_ax25.c` 89-149 | uint8_t loop counters | one burst | both buffers respected, all telemetry covered, returns | `FlagSharing` |
| command packing | `commands/src/*pack.c`, `commands/python/*`, `data_pack_unpack/*` | offsets, the block being filled | `packCmdMsg`, `unpackCmdMsg`, `pack_command`, `unpack_command`, `command_multi_pack` | blocks readable whatever the list; a lost block takes only its own commands; a list with a command that cannot be packed is not sent at all | `CommandFraming` |
| command factories, arguments | `commands/python/command_factories.py`, `utils/command_utils.py` | none | `generate_command` and the factories | a command is what the operator asked for, tagged when a time was given | `GroundSession` |
| command responses, telemetry | `obc_gs_commands_response_*.c`, `command_response_*.py`, `telemetry/*` | offsets | pack, unpack, parse | both sides agree on sizes and offsets | `Responses` |
| ground session | `utils/command_utils.py` | serial line, log file | `send_command`, `send_conn_request`, `poll` | an answer belongs to the request; what is shown was sent; the log keeps its order; polling swallows nothing | `GroundSession` |
| FEC wrapper | `fec/obc_gs_fec.c`, `fec/__init__.py` | `static correct_reed_solomon *rs` | `initRs`, `rsEncode`, `rsDecode`, `destroyRs` | the codec is live whenever it is used | `ReedSolomon` |
| Reed-Solomon | `interface_libs/libcorrect` (vendored) | polynomials and buffers of one codec, kept between calls | create, encode, decode | corrects up to 16 of 255 bytes, writes inside its buffers, never invents a block | `GaloisField`, `ReedSolomon` |
| byte packing, CRC-16 | `data_pack_unpack`, `common` | none | conversions | round trip | `Bytes`, `CommsPipeline` |
| AES-128 CTR | `aes128/*`, `interface_libs/tiny_aes` (vendored) | IV of a context made per call | encrypt, decrypt | decrypt inverts encrypt for the same IV | not modelled |
| heap wrapper; libcorrect's shim, tests, tools | `gs_heap`, `interface_libs/libcorrect` | none | | | not modelled |

How they interact. The operator's arguments become a `CmdMsg` (`generate_command`);
the list of commands goes through `command_multi_pack` into blocks of 223 bytes;
`CommsPipeline.encode_frame` encrypts each, adds 32 Reed-Solomon bytes and
makes it the information of an I frame; `AX25.stuff` turns that into a packet for
the serial line or the radio. The OBC calls `ax25Unstuff`, `ax25Recv` and, for
I frames, the FEC, AES and `unpackCmdMsg` code. Answers travel the other way from
`ax25SendIFrame` / `ax25SendUFrame`, on the same serial line as the log of the
OBC's other tasks; `send_command`, `send_conn_request` and `poll` read whatever
bytes have come and take them apart. The two ends share no memory; they interact
only by frames, which can be lost or damaged. Inside the OBC library the statics
are shared by the send and the receive functions, in whatever order the
application calls them. There is no retransmission, no timer and no thread inside
the library; the only timeouts are serial read timeouts of the ground station.

What is hard here: sequence counters that are wider than their fields and are
reset in one function only; two independent implementations of stuffing that
handle trailing zero bytes differently; a receiver that skips unstuffing for
short frames and corrects long ones in part; narrow counters for wide lengths;
blocks parsed back by scanning for a zero; errors in the middle of a list; reads
that cut a stream of answers and log text anywhere; a decoder that indexes
buffers by numbers it computes and keeps them from block to block.
`PROJECT.json` lists each under `hazards` with its line and the properties that
cover it.

## 2. Modules

| module | models | how state and actions correspond to the code |
|---|---|---|
| `Ax25Link` | the link control, over a radio | `pktSentNum`, `pktReceiveNum`, `currentLinkDestAddr` are the statics, per OBC node. One action per library function, one per outcome of `ax25Recv` (`RecvIFrame`, `RecvSFrame`, `RecvSabm`, `RecvAck`, `RecvDisc`, `RecvRejected`). `air` is the frames in flight. `LoseFrame`, `DamageFrame` are the radio (external). The Python class keeps no link state: `EncodeFrame`, `DecodeFrame`. A control byte is the set of its 1 bits, so `<<`, `\|`, `& ~` are set operations |
| `Ax25Numbering` | abstract: what N(S) promises | `Ax25Link` implements it (`NumberingRefined`): next number and last number per endpoint |
| `StuffingRules` | one bit of each stuffing loop, and the byte counts at the ends | operators shared by the next two modules |
| `BitStuffing` | both stuffers and both unstuffers | one action per loop iteration (`StuffBit`, `SkipStuffedBit`, `KeepBit`), `SendWire` and `Deliver` for what each function does after its loop |
| `CommsPipeline` | U and I frames, to the bit, from end to end | addresses, control byte, PID, CRC-16, stuffing; the radio flips bits; `Ax25Recv` unstuffs and checks; `DecodeFrame` and `DecodeLongFrame` are the two branches of `CommsPipeline.decode_frame`: a short frame is not unstuffed, a long one is unstuffed, sliced, corrected, spliced and checked. `rsDecode` gives the nearest codeword, if one is near enough |
| `FlagSharing` | `ax25SendIFrameWithFlagSharing` | its uint8_t locals; `Refuse`, `Start`, one `Frame` per iteration, `LastFlag` |
| `Bytes` | `data_pack_unpack`, and the fixed windows ctypes copies | operators of the next three modules |
| `CommandFraming` | `command_multi_pack` to `unpack_command` | the loops of both functions, one action per command; byte layout by `Packed` and `Unpacked`; blocks may be lost; `unpack_command` may be handed bytes that are no block at all |
| `Responses` | the layouts of answers | `packCmdResponse`, `unpackCmdResponse`, `parse_command_response`, `packTelemetry`, `unpackTelemetry`, `unpack_telem` as operators on bytes; an empty set of results means that the code raises or refuses |
| `GroundSession` | `command_utils.py` and the satellite behind the line | `mode` says which of the three functions is at work. Each has an action for its write and one for its read; `poll` has one per round and one for the round that raises. `line` is the port's input buffer, `log` the log file. `Reads` is how much of the line one read gets: all of it, or up to the middle of a packet that is still arriving. The satellite (external) decides on answers when it hears a command (`Hear`), sends them when it likes or never (`SendAnswer`) and logs on the same line (`WriteLog`) |
| `GaloisField` | `field.h`, `polynomial.c` | the tables exp and log and the loops as functions over indices |
| `ReedSolomon` | `obc_gs_fec.c`, `encode.c`, `decode.c` | `rs` is the static pointer; the decoder's buffers are variables and keep their contents from call to call; one action per iteration of the locator search (`Describes`, `Lengthen`, `Adjust`: its three ways), one for the factorisation, one for the correction |
| `*MC` | constants for TLC | frames, command lists, lengths, scripts |
| `*Proofs`, `DataLemmas` | theorems, and lemmas for several of them | see section 5 |

Operators with a comment that starts with "slip:" are not part of a
specification: each is a plausible mistake in the definition below it, used to
see that the property aimed at it does fail.

History variables: `lastNs`, `owed`, `accepted`, `opened` (`Ax25Link`), `at`
(`BitStuffing`), `readFrom`, `readCount`, `top` (`FlagSharing`), `batches`
(`CommandFraming`), `sent` (`CommsPipeline`), `framed`, `written`, `calls`,
`answers`, `clear`, `repeated` (`GroundSession`), `sent`, `noise` (`ReedSolomon`).
No guard reads them, except that `CommsPipeline` sends a single frame per
behaviour and knows so by `sent`, and `GroundSession` counts its bounded `calls`.

## 3. Runs

| run | question | instance | why enough |
|---|---|---|---|
| `ax25_endpoint` | numbering, acknowledgements, refinement | one OBC with the real window 7, counters modulo 9, ground station ATLAS sending I, SABM, ACK; one frame in flight; bursts of one; 631,021 states | counters go past the window and wrap; a burst of k is k bursts of one to the counters; the proofs lift the bounds |
| `ax25_inputs` | addresses, rejections, opening | window 2, counters modulo 4, seven control bytes, callsigns AKITO and ATLAS, SSIDs 0, 16, 17, a bad callsign; 258,006 states | every branch of `ax25Recv` and of the address functions is taken but one: no frame in this run has another destination, so that `RecvRejected` refuses damaged frames and unknown controls only; the proof of `GarbledFramesInert` covers every frame |
| `bit_stuffing` | both stuffers with both unstuffers | 56 frames of 1-2 bytes and 1024 of 5 bytes, where 5 bytes stand for a full I frame (`RsEncodedDataSize` 4, `NonInfoBytes` 1); 369,088 states | runs of ones across byte borders, trailing zero bytes, stuffed bits at the very end; the proofs cover every frame |
| `comms_pipeline` | frames heard, corrected, noise noticed | six U frames to each of AKITO and ATLAS and two of the ground station, with the real bytes; I frames of 24 bytes of information (22 of data, so one byte can be corrected) that are all ones, nearly all zeros or mixed, of both ends; every set of up to two flipped bits in three U frames, and in every seventh bit of three I frames; 52,857 states | callsigns and controls are fixed in the code; CRC-16 is only claimed for a few bits; one flip is corrected, one creates or hides a stuffed zero and shifts the rest, two go beyond the correction |
| `flag_sharing` | buffers, end, return | information of 7 bytes and counters modulo 8 for the code's 255 and 256; all lengths 0-72, which passes the wrap of the frame count at 49; buffers of exact size and one less | what wraps is the relation U8 = InfoBytes + 1, which an assumption fixes |
| `command_framing` | lists, blocks, losses | every list of at most four of five commands, and of at most three with unsupported ids anywhere in them; blocks of 15 bytes; five strings that are no block, one too long; 400,747 states | a block holds one to two commands, filled to the last byte that may be, and lists take up to four blocks; an unsupported id comes first, second or behind a block that is already closed |
| `reed_solomon` | correction, buffers, no invented block | the field of 8 elements, 3 message and 4 parity symbols; every message undamaged; every noise of up to three symbols and some heavier; erasures; each on a new decoder with arbitrary heap contents and after another call; 455,835 states | two symbols can be corrected, so noise below, at and above the limit occurs; the errors of one call are the stale contents of the next |
| `ground_session` | genuine, attributed, logged, ordered, reaching | two calls with polls around them; four commands, one time-tagged, and seven refusals; the longest response that is read, two telemetry lists that fill a block to its last byte or contain a pong; log text with ids and a flag in it; every kind of noise; blocks of 18 bytes; 464,105 states | two calls are what a late answer needs; the two kinds of text cover text before, after and with a flag; the proofs lift the number of calls |
| `bit_stuffing_tail`, `control_unstuffed`, `flag_sharing_whole`, `generate_stamp` | one comment, docstring or help text each | small instances | each ends in a counterexample, section 6 |

Deadlock is checked where the system runs on (`Ax25Link`, `GroundSession`). The
other modules model one call, one list or one script and stop when it is
finished; their configurations say so.

Fairness. `FlagSharing` assumes WF(Next): a C call that has been entered runs
on, nothing can take it out of its loop. `Returns` then says that the loop ends.
`GroundSession` assumes WF of one round of poll's loop, `PollRead \/ PollRaises`:
the loop waits for nothing but its serial read, which ends after its timeout. It assumes
nothing of the satellite, of the operator, or of the calls. `AnswersLogged` then
says that an answer on the line while `poll` runs gets into the log, unless the
stop flag or an exception ends `poll`. The library itself has no timer and no
retransmission, so nothing in this code makes a frame arrive or an answer follow,
and there is no further liveness property.

`NoiseNoticed` is stated for the ground station only for frames that it can
read: I frames, and U frames that need no stuffing. A U frame that does need it is
read wrong there even undamaged (finding `control_unstuffed`), and TLC finds a DISC
with the poll bit to ATLAS that two flipped bits turn into something its FCS
accepts. The C library, which unstuffs everything, notices all such damage.

`DataCorrected` is stated for damage in the data. `FEC.decode` returns the
corrected data followed by the last 32 bytes as they came, and the FCS is
checked on that: a damaged parity byte is corrected and then put back, so the
frame is refused though it could have been read. It is also stated for frames that come
out of unstuffing with their own number of bytes (`PaddingIntact`): with enough flipped bits
the wire can unstuff to the frame and eight zeros more, a byte that
`AX25.unstuff` keeps, and then the frame is refused. TLC's two flips are too few for that;
the proof for any number of them asks for it. On the way up it is the other way round:
`ax25Recv` checks the FCS before anything is corrected, so there Reed-Solomon
never has anything to correct.

`BurstNoticed` speaks of the bytes that come out of unstuffing, not of bits on the air: one of
those can shift all bytes behind it. It leaves out the last byte before the FCS together with the
first byte of the FCS. The CRC reads a byte from its most significant bit, as the stuffing does, but
the FCS is sent with its bits reversed: damage across that border is not a burst to the CRC, and
one pattern of it goes unnoticed (bits 0, 3 and 7 of the one byte, 0, 2 and 7 of the
other). It also leaves out frames of which `ax25Unstuff` drops a byte (`CDelivered`), since all that follows
is then a comparison of other bytes. In the run `NoiseNoticed` says more, since its two
flips are noticed wherever they fall; `BurstNoticed` is what remains true for any number of them.

## 4. Bounds and abstractions

- `MaxInFlight`, `MaxShared` (`Ax25Link`), `MaxFlips`, `NoisyFrames`
  (`CommsPipeline`), `MaxCalls` (`GroundSession`), `Scripts`, `Junk`
  (`ReedSolomon`), the frames, lists, lengths and buffers of the MC modules;
  `CounterMod` and `U8` stand for 2^8. `ReceiveOther` happens at most once in a
  behaviour.
- The link model does not carry information fields, and says of an FCS only
  whether it matches (`state`: intact, damaged, misframed). The CRC itself is in
  `CommsPipeline`. It assumes that damage is noticed; `NoiseNoticed` is the
  part of this that is checked.
- A flag-shared frame is "damaged" for `ax25Recv`: its FCS covers the start flag
  and misses the last information byte, so the check fails. (Two CRCs over
  different bytes may agree by accident; this is not modelled.)
- `encode_frame` of the Python class is asked for any control byte of
  `GroundControls`; the `ax25` package that packs it and `pyStuffing`, which
  does the bit loop, are external and are modelled by what this code needs of
  them.
- `CommsPipeline` takes the set of codewords as a constant whose members differ
  in more places than can be corrected twice (`PipelineAssumption`): what
  `ReedSolomon` is about. Encryption permutes blocks of data, so which bytes
  are encoded does not matter to it. Should more damage lead `rsDecode` to another codeword
  outside the set, its bytes are taken not to match the FCS.
- `GroundSession` has a packet as one element of the line with its noise:
  "none", "data" (damage in the data that can be corrected), "other" (damage
  that leaves the FCS wrong, the parity's included), "unframed" (no flag left).
  `CommsPipeline` shows for what noise this is so. A response's value is the
  number that is printed, its wording is left out. `argparse` is taken to refuse
  both options together, as its documentation says of an error without
  `exit_on_error`; older versions exit the process instead.
- `encode_frame` of less than 223 bytes would be padded after it was encrypted;
  its only caller passes 223.
- `ReedSolomon`: `decode` is `decode_with_erasures` with nothing erased (the
  wrapper never erases). A locator of order `MinDistance` is evaluated one
  power past its row of `element_exp`, which is the next row or other memory: any
  set of roots may come of it, and with more of them than `error_roots` holds the
  search writes behind that array (decode.c:138-140). These writes are left out
  (`RootsStored`), and `InsideBuffers` says nothing of them. It all takes
  `MinDistance` damaged symbols or more (`PowersSuffice`). With more errors than can
  be corrected the decoder may still succeed, on another codeword; with erasures also on none, which is why
  `OnlyCodewords` leaves them out. A symbol that is erased twice is a double root of the
  erasure locator, where Forney's derivative is 0, and is not corrected; `Correctable`
  asks for erasures that differ.
- Null pointer checks are one refusal; logging and text are left out.
- `ax25SendIFrame` copies up to 255 bytes as its `telemDataLen` is a uint8_t; a
  shorter text leaves zero bytes. The frame always has the full length, so
  the data does not matter to the link control.

## 5. What is proved

With TLAPS, for all values of the constants allowed by the named assumptions:

- `Ax25LinkProofs` (from `LinkAssumption`: the window is at most 7, counters are
  wider than the window and at most a byte): `TypeCorrect`,
  `FieldsNeverOverflow`, `AcksAreHonest`, `OpenedLinkAnswers`,
  `ImplementsNumbering`, `GarbledFramesAreInert`. For any number of nodes,
  any number of frames in flight, any callsigns.
  The inductive invariant `IInv` adds to the type invariant, for each endpoint,
  how the history relates to the counters (`Numbers`: the accepted count is the
  capped receive counter as long as each frame was answered; the last number
  precedes the next one modulo the window), and for each frame on the air that
  its fields hold the numbers its sender meant (`GoodAir`). Without `Numbers`
  the send step cannot show that a new frame is good: the cap alone does not
  say that the counter before it was at most the window. `ControlFields` is the
  bit-level lemma: numbers of at most 7 do not overlap in a control byte.
  The refinement maps `SendIFrame` to `Send`, SABM and ACK to `Reset`, bursts to
  `Burst`, all else to stuttering.
- `BitStuffingProofs` (from `StuffingAssumption`: a frame is whole bytes):
  `TypeCorrect`, `StuffingFits`, `UnstuffingInverts`, `NoFlagInside`, for
  every frame and every pair of implementations. The idea: the history `at`
  records, for each bit of the stuffed string, in what state an unstuffer should be
  when it reads it. `Chain` says that `at` steps as the unstuffing loop does
  on the stuffed bits, `OnWire` that the packet is the stuffed bits, cut or
  padded with zeros, `InStep` that the receiver is in that state, `Kept` that
  what it has kept is a prefix of the frame followed by zeros, and
  `Paid` that every stuffed bit has been paid for by five ones.
  With `SizesAssumption` (a frame is at least as long as
  an I frame, or at least two bytes shorter than its information; the code has
  273 and 17 bytes, and 255 of information) also `FramesAreDelivered` and
  `DownlinkIsExact`. To the invariant above it adds that a wire cut short has lost
  zeros only (`Cut`), that each bit of the frame has a place among the stuffed bits
  (`Placed`), and that these places are in order (`Rising`). So a bit of the frame
  that the receiver has not read lies behind the end of the wire and is zero, and
  what remains is to count the bytes at the end, `PythonCount` and `CCount`.
- `CommsPipelineProofs` (from `PipelineAssumption`, `CallsignAssumption` and
  `SizesAssumption`: codewords and control bytes are bytes, bit 0 of the control byte of an
  I frame is zero (`obc_gs_ax25.c:188`), frames are addressed to one
  of the two callsigns, what is not information in a frame is as long as in the code, and
  a U frame with its flags is no longer than the information, 19 bytes against 255):
  `TypeCorrect`, `LibraryHearsFrames`, `DataIsCorrected`, `AcksAreHeard` and
  `BurstsAreNoticed`, for any data and control bytes, any sizes of the information and any noise.
  - Stuffing and unstuffing are loops over a table (`Loop`), which the model computes in
    halves so that TLC does not run out of stack. `LoopRuns` shows that this is
    the loop of the code, one bit after the other. A run of the stuffer and one
    of the unstuffer are then compared without a history variable: `InStep` says
    that there is a bit of the frame such that the unstuffer has read what
    stands before it on the air, with the same count of ones. So `StuffedRestores`
    follows, and `DeliveredIsFrame` counts the bytes at the end.
  - `Framed` is what `ax25Recv` looks at; `BodyFramed` shows it of an address, anything
    behind it and the FCS of both, so that neither the CRC nor the data need be evaluated.
  - `DataIsCorrected` rests on what `PipelineAssumption` says of the codewords, that any two
    differ in more than `2 * MaxErrors` bytes: the one that was sent is then the only
    one within `MaxErrors` (`CorrectedIsSent`, by `Triangle`). `SplicedIsSent` puts the four
    stretches back together, and `UnstuffedShorter` rules out the branch for short frames.
    The invariant says for it that the information of an I frame is a codeword (`Coded`).
  - The bound on the stuffed I frame is tight: one stuffed bit for five bits of the
    frame would be a bit too many. `StuffedSize` uses that each shifted
    character of the callsign ends in a zero, which starts the count again
    (`Slack`).
  - `Invariant` adds to `TypeOK` that what was sent is `Framed` and that what is on the
    air is what its sender makes of it as long as no bit was flipped (`Clean`). A frame
    of which nothing goes on the air has to be excluded, too: `AX25.stuff` strips zero
    bytes (`SomethingSent`).
  - `AcksAreHeard` depends on the bits of the four ACKs (two directions, with and without
    poll), so these are worked out. `CrcRuns` says that the model's CRC, computed in halves,
    is the loop of `calculateCrc16Ccitt`; the proof follows its register through the two address
    headers byte by byte, and from there to the four FCSs. All bytes of the four frames are
    `Calm`: they bring no five ones together, within one or across two (`FewOnes`), so stuffing
    leaves the frame as it is (`StuffedAsIs`) and `decode_frame`, which takes a frame this
    short as it stands, reads what was sent. The strengthening is `AckOnAir`: an undamaged ACK of the
    library is on the air as it was sent. Bit 0 of the control
    byte keeps an I frame from being taken for one.
  - `BurstsAreNoticed` is what holds of the CRC for every frame. `calculateCrc16Ccitt` is taken
    apart into its four lines; each of them can be undone, and the low byte of its result
    tells the low byte of what it was given (`Tells`). So a register tells the one before the
    byte that was read (`CrcStepTells`), and two stretches of bytes with the same CRC that
    differ at most in two neighbouring bytes are the same (`CrcNoticesBursts`): the
    registers are compared forwards up to these bytes and backwards from the end. The FCS
    tells the CRC (`FcsTellsCrc`), and bits that make the same bytes are the same.
- `FlagSharingProofs` (from `SharingAssumption`: an I frame carries one byte less
  than a counter can count, 255 and 256 in the code): `TypeCorrect`,
  `BurstStaysInside`, `LastFrameIsExact`, for every length and buffer. The key
  part of the inductive invariant is `Counting`: the wrapped count of what is
  left equals the length plus the number of frames made, modulo 2^8. For the
  last frame this is the true rest (`FrameReads`), which is why that frame is
  right although those before it may not be.
- `ReedSolomonProofs` (from `CodecAssumption`: fewer parity symbols than symbols,
  at most as many erasures as parity symbols, fresh memory holds bytes; and
  `FieldAssumption` and `AlgebraAssumption`: elements are bytes (`field_element_t`), adding
  stays inside the field, is associative and commutative and cancels; the table exp begins with 1, runs once
  through all elements but 0 and begins again, as it does for a primitive
  polynomial; multiplying distributes over adding. TLC evaluates them for the field of
  the run; the tables of 0x187, the code's polynomial, satisfy them too, by enumeration):
  `SearchStaysInside`, `OrderIsNumberOfErrors`, `TypeCorrect`, `LocatorIsRecurrence`,
  `LocatorIsShortest`, `TableSuffices`, `DecodeCorrects`, `OnlyCodewordsReturned`, for
  every field, code, block and erasures.
  For the first two the coefficients do not matter. The invariant is `Balance`: i + 1 = numerrors + the last
  locator's order + delay. Each of the three ways through an iteration keeps it,
  and with it the highest coefficient written is i + 1 - numerrors, at most
  `MinDistance`. This is the headroom the comment in `decode.c` speaks of.
  The third says of every buffer that it holds elements (`Typed`), which takes a lemma for each
  loop of `polynomial.c` and needs `Balance`, since a buffer is typed only where an
  index lies inside it. Its last part is `LocationType`: the search for a
  location starts at the element 0, which stands for 1, and so never gives 255.
  The loops are recursive functions; `Iteration` shows that they exist.
  The next two are what Berlekamp and Massey proved of the algorithm, here of the code: the
  locator is the shortest recurrence the syndromes follow. `Tracking` strengthens it: the locator
  begins with 1 and is zero above numerrors (`Monic`), the syndromes follow it (`Fits`), the locator
  put aside was followed until delayLength iterations before and was then wrong by
  lastDiscrepancy (`LastFailed`), and all shorter recurrences are refuted (`NoneShorter`).
  The field laws come from the tables (a logarithm of a product is the wrapped sum);
  `CorrectedAgainst` says that a correction adds the shifted, scaled last locator,
  which makes the two discrepancies cancel; `Massey` says that the lengths of a recurrence that
  fails at n and of one that does not add up to more than n, by summing one table by
  rows and by columns (`SumSwap`).
  `TableSuffices` links the search to the noise. A row of the long division keeps the value of the
  block wherever the generator has none (`RowAdds`), and the generator has none at
  its roots (`FromRootsVanishes`), so that what is encoded has no syndromes (`EncodedVanishes`) and
  what is received has those of the noise (`SyndromesAreNoise`, `Explained`). From one root to
  the next a damaged symbol counts Exp[p] times (`ColumnIsGeometric`), so the polynomial with a factor
  for each is a recurrence that the syndromes follow (`LocatorExists`, `NoiseFollows`), and
  `NoneShorter` leaves no room for a longer locator.
  `DecodeCorrects` goes on from there, in the order of the code:
  - A polynomial has no more roots than its order (`FewRoots`), since a root can be
    divided out (`Deflates`). Noise on at most `MinDistance` symbols whose
    syndromes are zero is no noise (`OnlyZero`, by the locator of all of them but one).
  - With erasures, the modified syndromes are those of a noise that is zero at the erased
    symbols (`ModifiedSyndromesAre`). As there are two of them for each damaged symbol
    that is left, a locator as short as that has its roots exactly there (`LocatorRoots`).
  - The search over all elements finds and stores these roots behind those of
    the erasures (`FoundLists`, `StoredLists`, `ListsJoin`); what the buffers held before is
    overwritten up to the order.
  - Evaluator and derivative at a root give the noise there (`Forney`, by linearity from
    a noise of one symbol; `DerivativeAtRoot`, `ErrorValueIs`), and adding it
    gives back the block (`Corrects`).

  The invariants that carry this through the phases are `Arrived` (the block is what was sent plus
  the noise, the syndromes put aside are the noise's, the roots of the erasures are stored)
  and `Solved` (as many roots as the order are stored, and they are the damaged symbols
  if the block is `Correctable`).
  `OnlyCodewordsReturned` says nothing of the noise, which may be anything: values taken from Forney's
  formula have the syndromes that were read, because they have the same evaluator
  (`SyndromesAgree`), so that the corrected block vanishes at the generator's roots and is what its
  message part is encoded to (`Codeword`).
- `CommandFramingProofs` (from `FramingAssumption`: blocks that hold the longest command,
  any lists of commands): `TypesCorrect`, `BlocksAreReadable`,
  `BatchesArriveWhole`, `ListWholeOrNothing`. The bytes are reasoned about in
  `DataLemmas`: `UnpackUint` inverts `PackUint` at each of the three widths, and a
  window that ctypes copies reads the bytes that were put there.
  `Reading(block, list, total, got)` says that commands of `list` lie one behind
  the other in the block with a zero after the last, that `total` is at the border of
  two of them and `got` those before it; `ReadingOn` that one `unpack_command` step keeps this.
  The invariant has it for every closed block and for the one that is being read;
  `BatchesCover` says that the batches, end to end, are the commands packed so far
  (by an index at which each begins, not by a fold), and `ResultsOK` that results
  come in the order of the blocks. `PackedSupported` says that every command packed
  so far had a pack function, so that a list with one that has none is never
  returned. Without `OpenBlock`, which counts the bytes
  of the block that is being filled, a block need not end with a zero.
- `GroundSessionProofs` (from `SessionAssumption`): `TypeCorrect`,
  `AnswersAreGenuine`, `LogIsOrdered`, `AnswersAreAttributed`,
  `CleanAnswersArrive`, for any commands, outcomes, telemetry, log texts, noise and
  number of calls.
  - The invariant of the first two says of the line, the log and the last result
    that they hold bytes and what was made of an answer, and nothing else
    (`LineGenuine`, `LogGenuine`, `ReturnedGenuine`), and that a result stays until
    the next call. `Around` is the lemma on the slices before, between and behind
    the flags, `DecodedBlock` that what `decode_frame` accepts between them is one
    packet.
  - `LogOrdered` is not inductive: what is on the line is written to the log
    later. `Ordering` says it of the log with the line behind it. Ordered sequences
    compose (`OrderedTrans`), so that it is enough to show for each read that
    what it leaves is ordered in what was there; each slice has a lemma.
  - `Attribution` says, of a line that was clear when the call was made, that
    what is due or on the line belongs to the current call, that while
    `send_command` waits these are answers to its command, and that what it has taken
    from a frame is one of them. That it says what the satellite said needs
    the inversion of both layouts: `ResponseRead` for responses, and for
    telemetry, where records of six sizes are read one behind the other until a zero,
    `PacketBytes`, `RoundReads`, `StatesRead` and `TelemetryRead`.
  - `CleanAnswersArrive` uses both, and `Decided`: every answer is one that
    the satellite can make.
  - The layouts are recursive functions; they are shown to exist
    (`RecordsPackedDefined`, `UnpackStatesDefined`) and induction over their
    arguments goes through a set of numbers that holds 0 and successors (`UpTo`).

Only model-checked:

- Liveness (`Returns`, `AnswersLogged`), which is beyond the proof system.
- `NoiseNoticed`. Bits are flipped before the unstuffing, so one of them can shift all
  the bits behind it; what the CRC notices of that depends on the frame and on how many are
  flipped, and with enough of them one good frame becomes another. The property
  is about the frames and the `MaxFlips` of the run and does not hold for all values of the
  constants. What holds for all of them is `BurstNoticed`.

## 6. Findings

Places where the code does something else than the text beside it says; each is
a run that ends in a counterexample.

- `bit_stuffing_tail`: `ax25Unstuff` takes zero bytes that belong to the frame
  for padding. A full I frame whose last FCS byte is zero comes out short.
- `control_unstuffed`: `CommsPipeline.decode_frame` does not unstuff frames of
  at most 255 bytes; an undamaged SABM with poll bit does not decode. An ACK,
  the only U frame the ground station waits for, does (`AckHeard`): with the
  callsigns of the code it never needs stuffing (`AcksAreHeard`).
- `flag_sharing_whole`: what is left to send is counted in a uint8_t, so a frame
  before the last can carry less than it has room for while the next one reads on from
  the next multiple of 255, and the bytes in between are left out.
- `generate_stamp`: a command line with `-t` but without the command's own option
  gives the time stamp to the factory as its first argument: an RTC sync or a log
  level that goes out untagged, while `send_command` takes it for time-tagged and
  waits for no answer.

Smaller ones, met while reading, which no run is spent on:

- `obc_gs_ax25.c:464` says the answer goes to the source of the packet received;
  the copy is made into a local that is not used, and the answer goes to
  `currentLinkDestAddr`.
- `obc_gs_command_unpack.c:80` says the top bit is 0 for time-tagged commands;
  packing and unpacking both have 1.
- `send_conn_request` says it throws an IndexError when no frame is received: it
  returns None. With no flag in the read both indices are -1, so all of the
  text but its last byte is logged, and then all of it again.
- `send_command` parses a read without a flag as a response: an empty read
  is one to `CMD_END_OF_FRAME`.
- `pack_command_response` (`commands/python/__init__.py:363`) calls
  `packCommandResponse`, which the C library does not have (`packCmdResponse`).
- `packCmdResponse` accepts 220 bytes of data, `unpackCmdResponse` refuses them.
- `correct.h:133` asks for fewer erasures and doubled errors than roots; as many
  are enough (`DecodeRestores`).
- `destroyRs` leaves a dangling pointer that a later `initRs` would keep.

## 7. What is left

- AES-128 CTR. The cipher is vendored and keeps nothing between calls: the wrapper makes a
  context from the same key and IV each time. Whether its rounds are those of the
  standard is a question for test vectors, and the ground station never decrypts
  what it receives.
- The heap wrapper (forwards two calls), libcorrect's shim, tests and tools, and
  crc32 and the signed conversions, which have no caller.
- The wording of reports and prints, and the firmware behind the library, which
  is not in this repository; it appears as the external actions of `Ax25Link` and
  `GroundSession`.

## 8. Running

In this directory, `tlc -config Ax25Endpoint.cfg Ax25LinkMC` and so on as listed in
`PROJECT.json`; `tlapm Ax25LinkProofs.tla` and so on for `BitStuffingProofs`,
`CommsPipelineProofs`, `FlagSharingProofs`, `ReedSolomonProofs`, `CommandFramingProofs`
and `GroundSessionProofs` check the proofs, each within a few minutes
(`ReedSolomonProofs`, the longest, takes seven). `DataLemmas` holds
the lemmas that several of them share.
