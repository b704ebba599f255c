SPECIFICATION BattleSpec
CONSTANTS
  None = None
  Nicknames = {"a", "c", "d"}
  Stats = {"atk", "spe"}
  OurUserId = "us"
  Lines <- AllLines
  Openings <- BothOpenings
  MaxLines = 19
INVARIANTS
  ViewsAreCoherent
  EvidenceIsATimeline
  RevealedMovesAreOwn
PROPERTIES
  ImplementsObservedState
CHECK_DEADLOCK FALSE
