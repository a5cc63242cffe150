SPECIFICATION Spec
CONSTANTS
    Viewers = {v1}
    Sizes = {1, 7}
    Limit = 6
    None = None
    MaxRecords = 8
    MaxCrashes = 1
INVARIANTS
    TypeOK
    HeaderDescribesRecords
    OnlyTheOldestGo
PROPERTIES
    RecordingEnds
CHECK_DEADLOCK FALSE
