SPECIFICATION SupplySpec
CONSTANTS
  None = None
  Nicknames = {"a"}
  Payloads <- SmallPayloads
  Installations <- SomeInstallations
  Setups <- SomeSetups
  SearchRequests <- Searches
  RequestMoves <- AskedMoves
  Observations <- TwoObservations
  Documents <- Worlds
  Answers <- SomeAnswers
  Damages <- Hits
  FullMass = 10000
  Tolerance = 1
  MaxCalls = 2
  Nothing = Nothing
  Partial = Partial
  c1 = c1
  c2 = c2
  p1 = p1
  p2 = p2
  Cells <- TwoCells
  Patches <- SomePatches
  MaxRuns = 3
  MaxMishaps = 1
INVARIANTS
  ReaderAndEncoderAgree
  VerifiedMeansReleased
  RootActionsAreTheSafeSet
  ActionsStayWithTheirRoot
  WorkIsWhatTheEngineDid
  ChanceIsExact
  ViewsHideTheWorld
  ManifestNamesItsSource
  ReleaseIsOneBuild
SYMMETRY Alike
CHECK_DEADLOCK FALSE
