SPECIFICATION Spec
CONSTANTS
  RsDecodedDataSize = 18
  Arguments <- MCTyped
  Outcomes <- MCOutcomes
  TelemetryLists <- MCTelemetry
  LogTexts = {}
  Noises = {"none"}
  MaxCalls = 1
INVARIANTS StampTagsCommand
