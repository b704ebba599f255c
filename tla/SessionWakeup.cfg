SPECIFICATION Spec
CONSTANTS
  None = None
  Nicknames = {"a", "b"}
  Context = "unresolved"
  MaxSafeInteger = 9
  StartStates <- FromScratch
  Events <- WakeupEvents
  Payloads <- WakeupPayloads
  LineErrors = {}
  PolicyErrors = {}
  PolicyAnswers = {}
  SendErrors = {}
INVARIANTS
  WaitsOnlyWhileItMust
PROPERTIES
  CommandAgreesWithState
CHECK_DEADLOCK FALSE
