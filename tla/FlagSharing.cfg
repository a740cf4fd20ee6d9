\* Every length, into every buffer.
SPECIFICATION Spec
CONSTANTS
  TelemDataLens <- MCTelemDataLens
  BufferLens <- MCBufferLens
  InfoBytes = 7
  U8 = 8
INVARIANTS TypeOK StaysInside LastFrameExact
PROPERTIES Returns
\* the run ends when the call returns
CHECK_DEADLOCK FALSE
