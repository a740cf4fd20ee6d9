\* A buffer with room for all frames, against what the header says of the
\* function.
SPECIFICATION Spec
CONSTANTS
  TelemDataLens <- MCTelemDataLens
  BufferLens <- MCRoomy
  InfoBytes = 7
  U8 = 8
INVARIANT WholeTelemetrySent
CHECK_DEADLOCK FALSE
