\* One endpoint with the real window, and the Python ground station.
SPECIFICATION Spec
CONSTANTS
  Library = {"obc"}
  Ground = {"gs"}
  OtherCallsigns = {}
  GroundCallsigns = {"ATLAS"}
  GroundControls <- MCFewControls
  BadCallsign = "TOOLONG"
  SsidArguments = {16}
  Window = 7
  CounterMod = 9
  MaxInFlight = 1
  MaxShared = 1
INVARIANTS FieldsHoldNumbers AckHonest
PROPERTIES NumberingRefined
