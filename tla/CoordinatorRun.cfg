SPECIFICATION Spec
CONSTANTS
  None = None
  Us = "us"
  Opponent = "opponent"
  Rooms = {"battle"}
  Facts = {"tier"}
  Lines <- ArbitraryLines
  TransportErrors = {"transport_timeout"}
  SessionErrors = {"trace_sink_failure"}
  MaxLines = 5
INVARIANTS
  SessionReadsOnlyOurBattle
  HandoffKeepsLines
  EndIsReportedTruthfully
CHECK_DEADLOCK FALSE
