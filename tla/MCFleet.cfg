SPECIFICATION Spec
CONSTANTS
    Configured = {"process"}
    MaxGen = 4
CONSTANT Every <- MCEvery
INVARIANTS
    TypeOK
    AccountingExact
    RowsWerePublished
    SampledProcessesAreCurrent
PROPERTIES
    RunsTheOpenSink
    KeepsPromise
    ProcessTableNeverRegresses
    NewestIsStored
    StopEndsTheThread
CHECK_DEADLOCK FALSE
