SPECIFICATION Spec
CONSTANTS
    Windows = {w1, w2}
    NP = 1
    None = None
    Torn = Torn
    Deadline = 1
    Stale = 1
    Gap = 1
    Margin = 0
    FirstWindow = 1
    LastWrite = 0
    MaxMishaps = 1
    MaxScans = 1
    MaxNow = 2
SYMMETRY MCSymmetry
INVARIANTS
    TypeOK
    ExclusiveUntilAFault
    NoSessionSkipped
    TornByOverlapOnly
CHECK_DEADLOCK FALSE
