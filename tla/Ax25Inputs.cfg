\* One endpoint that hears every kind of frame, from two callsigns; the window
\* is 2 so that the numbers start again soon.
SPECIFICATION Spec
CONSTANTS
  Library = {"obc"}
  Ground = {"gs"}
  OtherCallsigns = {}
  GroundCallsigns = {"ATLAS", "AKITO"}
  GroundControls <- MCGroundControls
  BadCallsign = "TOOLONG"
  SsidArguments = {0, 16, 17}
  Window = 2
  CounterMod = 4
  MaxInFlight = 1
  MaxShared = 1
INVARIANTS TypeOK OpenedCanAnswer
PROPERTIES GarbledFramesInert
