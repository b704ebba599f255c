SPECIFICATION MeasuredSpec
CONSTANTS
  None = None
  Nicknames = {"a", "b"}
  Context = "resolved"
  MaxSafeInteger = 3
  StartStates <- Resumed
  Events <- RecordEvents
  Payloads <- RecordPayloads
  LineErrors = {"disconnect", "stale_rqid", "server_invalid_choice"}
  PolicyErrors = {"no_legal_action_available", "unclassified"}
  PolicyAnswers <- ArbitraryAnswers
  SendErrors = {"server_invalid_choice", "disconnect"}
INVARIANTS
  TypeOK
  OneCommandPerRequest
  RecordsTellTheWire
  ErrorsAreReportedTruthfully
  ResultTellsTheTruth
PROPERTIES
  ImplementsExchange
  RecordsDescribeDecisionState
CHECK_DEADLOCK FALSE
