\* Every pair of implementations, on short frames and on full I frames.
SPECIFICATION Spec
CONSTANTS
  Contents <- MCContents
  Stuffers = {"c", "python"}
  Unstuffers = {"c", "python"}
  InfoBytes = 255
  RsEncodedDataSize = 4
  NonInfoBytes = 1
INVARIANTS TypeOK FlagFree StuffedFits BitsKept FrameDelivered DownlinkExact
\* the run ends with the frame delivered
CHECK_DEADLOCK FALSE
