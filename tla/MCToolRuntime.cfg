SPECIFICATION Spec
CONSTANTS
    Runs = {"r1", "r2"}
    Backends <- MCBackends
    Cancellable = {"r1"}
    Tools = {"look"}
    ToolWorker <- MCToolWorker
    Refused = "no"
    Batches <- MCBatches
    MaxRounds = 3
    MaxCalls = 3
    ResultBytes = 2
    TotalBytes = 2
    Sizes = {1, 2}
    NoteBytes = 1
    Capacity = 1
    Budget = 2
    ToolTime = 1
    MetaTime = 1
    MaxTime = 2
    None = None
INVARIANTS
    TypeOK
    EvidenceIsReal
PROPERTIES
    AbandonedWorkNotStarted
    EveryRunEnds
CHECK_DEADLOCK FALSE
