\* Blocks of 15 bytes hold one to two commands; a ping and an RTC sync fill
\* one to the byte before the final zero.
SPECIFICATION Spec
CONSTANTS
  CommandLists <- MCLists
  RsDecodedDataSize = 15
  MaxCmdMsgSize = 16
  OtherBlocks <- MCOthers
INVARIANTS TypeOK BlocksReadable BatchesWhole WholeListOrNothing
\* the run ends when every block has been sent and read
CHECK_DEADLOCK FALSE
