\* Every U frame of both ends, three of those to the satellite with every pair of
\* flipped bits, and I frames of 24 bytes of information, of which one can be
\* corrected.
SPECIFICATION Spec
CONSTANTS
  GroundCommands <- MCGroundCommands
  LinkCallsigns <- MCLinkCallsigns
  LinkControls <- MCLinkControls
  Codewords <- MCCodewords
  NoisyFrames <- MCNoisyFrames
  MaxFlips = 2
  InfoBytes = 24
  RsEncodedDataSize = 24
  RsDecodedDataSize = 22
  NonInfoBytes = 18
INVARIANTS TypeOK LibraryHears AckHeard NoiseNoticed
PROPERTIES DataCorrected BurstNoticed
\* the run ends when the frame is heard
CHECK_DEADLOCK FALSE
