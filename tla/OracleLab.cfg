SPECIFICATION Spec
CONSTANTS
    None = None
    Partial = Partial
    StreamErrors = {"output_too_large"}
    Hosts <- SomeHosts
    FixtureSets <- SomeFixtureSets
    ProcessRuns <- SomeRuns
    MaxRuns = 3
    MaxMishaps = 1
INVARIANTS
    ManifestDescribesTheBuild
    EvidenceIsSound
    ServerLeavesNothing
PROPERTY
    SmokeEnds
