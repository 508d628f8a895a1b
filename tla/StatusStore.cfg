CONSTANTS
    r1 = r1
    r2 = r2
    b1 = b1
    b2 = b2
    w1 = w1
    k1 = k1
    None = None
    Replicas = {r1, r2}
    Builds = {b1, b2}
    Unnamed = {b2}
    Prewarms = {w1}
    Reconcilers = {k1}
    Starts <- MCStarts
    Edits <- MCEdits
    InflightCap = 2
    MaxBuildSeconds = 1
    DefaultMaxBuild = 2
    ExportInterval = 2
    MaxTries = 2
    Lossy = TRUE
    MaxTime = 2
    MaxVersion = 3
SPECIFICATION Spec
SYMMETRY ReplicaSymmetry
CHECK_DEADLOCK FALSE
INVARIANTS
    TypeOK
    RegisteredBuildsStayCounted
    ProjectionMatchesEntries
    SingleExporterPerWindow
PROPERTIES
    ImplementsRegistry
    LastBuildTimeNeverRegresses
