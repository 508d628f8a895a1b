SPECIFICATION ClientSpec
CONSTANTS
    j1 = j1
    j2 = j2
    j3 = j3
    e1 = e1
    e2 = e2
    Jobs = {j1, j2, j3}
    Endpoints = {e1, e2}
    Within <- PortBegins
    InflightCap = 2
    Casts <- AllCasts
    None = None
INVARIANTS
    EntriesCoverBuilds
    LeaksAreExcused
    BuildsRunWhereRouted
CHECK_DEADLOCK FALSE
