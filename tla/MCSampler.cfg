SPECIFICATION OrderSpec
CONSTANTS
    Clients = {c1, c2}
    Segments = {1, 2}
    None = None
    IdleAfter = 3
    ResampleEvery = 2
    Bound = 1
    LastCall = 1
    MaxCalls = 3
    MaxNow = 5
INVARIANTS
    TypeOK
    ParkedThreadMissesNothing
    WaitingClientLacksASample
    NeverFresherThanRead
    OvertakenOnceByEach
PROPERTIES
    ResampleSpacing
    EveryRequestAnswered
    IdleServerIsQuiet
CHECK_DEADLOCK FALSE
