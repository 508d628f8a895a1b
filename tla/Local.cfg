SPECIFICATION FairSpec
CONSTANTS
    Builds = {b1, b2}
    Idle = 1
    MaxBuild = 2
    Every = 1
    Keep = 1
    MaxSnaps = 3
    Quota = 3
    None = None
INVARIANTS
    PinnedProjectIsKnown
PROPERTIES
    StopsAreDecidedUnpinned
    SeedIsFound
    QuietInstanceStops
