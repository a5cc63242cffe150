SPECIFICATION Spec
CONSTANTS
    NumSettings = 3
    Values = {"low", "high"}
    UseCases = {"u1", "u2"}
    Target <- MCTarget
    Risk <- MCRisk
    Ceilings = {1, 3}
    Measured = {1}
    Quality <- MCQuality
    MinEffect = 1
    MaxNoise = 1
    None = None
    MaxDisturbances = 2
INVARIANTS
    WayBackIsReported
