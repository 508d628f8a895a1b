SPECIFICATION SliceSpec
CONSTANTS
    Tokens = {"a", "b", "c", "d"}
    InflightCap = 3
    MaxBuildSeconds = 2
    DefaultMaxBuild = 2
    NoTime = NoTime
    AdaptiveWindow = 2
    RecentBuildTimesCap = 3
    IdleTimeouts = {0, 1, 2, 4}
    AdaptiveMax = 3
    Skew = 0
    MaxTime = 5
INVARIANTS
    SliceAgreesWithSet
    WarmWindowFollowsCadence
CHECK_DEADLOCK FALSE
