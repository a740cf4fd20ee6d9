\* Undamaged U frames, against the docstring of CommsPipeline.decode_frame.
SPECIFICATION Spec
CONSTANTS
  GroundCommands = {}
  LinkCallsigns <- MCLinkCallsigns
  LinkControls = {}
  Codewords = {}
  NoisyFrames = {}
  MaxFlips = 0
  InfoBytes = 255
  RsEncodedDataSize = 255
  RsDecodedDataSize = 223
  NonInfoBytes = 18
INVARIANT GroundHears
CHECK_DEADLOCK FALSE
