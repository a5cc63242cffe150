SPECIFICATION Spec
CONSTANTS
    Callers = {"caller"}
    Poller = "poller"
    Ids = {"i1"}
    Readings = {"missing"}
    Every = 2
    MaxEvents = 1
    Limit = 1
    MaxGen = 4
    MaxOwners = 2
    MaxTime = 3
    None = None
INVARIANTS
    IdentityHolds
CHECK_DEADLOCK FALSE
