SPECIFICATION Spec
CONSTANTS
    Clients = {c1}
    Segments = {1}
    None = None
    IdleAfter = 9
    ResampleEvery = 2
    Bound = 1
    LastCall = 1
    MaxCalls = 2
    MaxNow = 3
PROPERTY
    LaterRequestsAreServed
CHECK_DEADLOCK FALSE
