\* Two calls, and polls between and after them.
SPECIFICATION Spec
CONSTANTS
  RsDecodedDataSize = 18
  Arguments <- MCArguments
  Outcomes <- MCOutcomes
  TelemetryLists <- MCTelemetry
  LogTexts <- MCTexts
  Noises = {"none", "data", "other", "unframed"}
  MaxCalls = 2
INVARIANTS TypeOK AnswersGenuine AnswersAttributed LogOrdered
PROPERTIES CleanAnswersReach AnswersLogged
