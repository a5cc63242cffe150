SPECIFICATION ReadersSpec
CONSTANTS
    Clients = {c1}
    Segments = {1, 2}
    None = None
    IdleAfter = 9
    ResampleEvery = 1
    Bound = 1
    LastCall = 1
    MaxCalls = 1
    MaxNow = 1
    Configured = {}
    MaxGen = 2
CONSTANT Every <- MCEvery
INVARIANTS
    ReadersTypeOK
    PassesNeverOverlap
CHECK_DEADLOCK FALSE
