SPECIFICATION Spec
CONSTANTS
  None = None
  Nicknames = {"a", "b"}
  Context = "resolved"
  MaxSafeInteger = 9
  StartStates <- Resumed
  Events <- RecordEvents
  Payloads <- RecordPayloads
  LineErrors = {"disconnect", "stale_rqid", "server_invalid_choice"}
  PolicyErrors = {}
  PolicyAnswers = {}
  SendErrors = {"disconnect"}
INVARIANTS
  EveryFreshRequestDisposed
CHECK_DEADLOCK FALSE
