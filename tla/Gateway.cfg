SPECIFICATION FairSpec
CONSTANTS
    Conns = {1, 2}
    MaxConns = 1
    Bytes = 1
INVARIANTS
    SlotsMatchConnections
    NothingIsTruncated
    StreamingBuildsAreDrained
PROPERTIES
    SlotsComeBack
CHECK_DEADLOCK FALSE
