SPECIFICATION SetupSpec
CONSTANTS
  None = None
  Us = "us"
  Opponent = "opponent"
  Rooms = {"r1", "r2"}
  Facts = {"game_type", "generation", "tier"}
  Lines <- NoOtherLines
  TransportErrors = {}
  SessionErrors = {}
  MaxLines = 9
  MaxInbox = 9
INVARIANTS
  OnlyOurChallenge
  FateOfTheChallengeIsKnown
PROPERTIES
  SetupEnds
CHECK_DEADLOCK FALSE
