\* Frames as long as an I frame, from the ground station to the C library,
\* against the comments of ax25Unstuff on the zeros it takes off the end.
SPECIFICATION Spec
CONSTANTS
  Contents <- MCFull
  Stuffers = {"python"}
  Unstuffers = {"c"}
  InfoBytes = 255
  RsEncodedDataSize = 4
  NonInfoBytes = 1
INVARIANT OnlyPaddingRemoved
CHECK_DEADLOCK FALSE
