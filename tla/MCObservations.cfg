SPECIFICATION Spec
CONSTANTS
    Callers = {"caller"}
    Poller = "poller"
    Ids = {"i1", "i2"}
    Readings = {"missing", "high"}
    Every = 2
    MaxEvents = 3
    Limit = 1
    MaxGen = 3
    MaxOwners = 2
    MaxTime = 2
    None = None
INVARIANTS
    TypeOK
    StampsNotFresher
    EveryEventSeenOrAnnounced
CHECK_DEADLOCK FALSE
