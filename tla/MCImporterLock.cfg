SPECIFICATION Spec
CONSTANTS
    Windows = {w1, w2, w3}
    NP = 1
    None = None
    Torn = Torn
    Deadline = 1
    Stale = 1
    Gap = 1
    Margin = 0
    FirstWindow = 1
    LastWrite = 0
    MaxMishaps = 0
    MaxScans = 0
    MaxNow = 1
SYMMETRY MCSymmetry
INVARIANTS
    SingleInstance
CHECK_DEADLOCK FALSE
