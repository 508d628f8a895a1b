SPECIFICATION CompanionFairSpec
CONSTANTS
    DrainSeconds = 3
    GraceSeconds = 3
INVARIANTS
    AtRestOnExit
    DrainIsNoticed
PROPERTIES
    InodesRecover
    ShutdownCompletes
CHECK_DEADLOCK FALSE
