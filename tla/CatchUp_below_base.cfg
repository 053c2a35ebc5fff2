SPECIFICATION Spec
CONSTANTS
    Server = {n1, n2}
    MaxBatch = 2
    MaxTerm = 2
    MaxWrites = 1
    MaxRestarts = 1
    MaxLost = 0
    MaxOvertakes = 0
CHECK_DEADLOCK FALSE
PROPERTY
    CatchesUp
