SPECIFICATION Spec
CONSTANTS
  None = None
  PlayerSides = {"p1"}
  Steps <- TwoSteps
  MaxMessages = 3
  LaunchErrors = {"node_not_found"}
  StdoutErrors = {"malformed_output"}
  StderrErrors = {"process_crash"}
INVARIANTS
  InducedExitNotBlamed
CHECK_DEADLOCK FALSE
