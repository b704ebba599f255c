SPECIFICATION BattleSpec
CONSTANTS
  None = None
  Nicknames = {"a", "c", "d"}
  Stats = {"atk", "spe"}
  OurUserId = "us"
  Lines <- AllLines
  Openings <- BothOpenings
  MaxLines = 19
INVARIANTS
  SpikesStack
CHECK_DEADLOCK FALSE
