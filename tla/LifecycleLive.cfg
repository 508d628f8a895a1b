CONSTANTS
    None = None
    Builds = {b1}
    Setups <- WarmAndHot
    MaxBuild = 1
    Grace = 1
    Faults = FALSE
SPECIFICATION EventSpec
PROPERTIES
    RollLands
    DaemonComesUp
    QuietProjectGoesDown
