SPECIFICATION FairSpec
CONSTANTS
    MaxFanout = 2
    KeepSnapshots = 2
    Courses <- AllCourses
INVARIANTS
    PruningKeepsTheNewest
    RecordedSnapshotExists
PROPERTIES
    ClonePruneIsConfirmed
    SurplusClonesGo
CHECK_DEADLOCK FALSE
