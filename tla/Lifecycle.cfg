CONSTANTS
    None = None
    Builds = {b1}
    Setups <- UpgradedOrBusy
    MaxBuild = 2
    Grace = 1
    Faults = TRUE
SPECIFICATION Spec
PROPERTIES
    TakedownsAreConfirmed
