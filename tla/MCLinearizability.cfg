SPECIFICATION MCSpec
CONSTANTS
    Keys = {x}
    Value = {v1, v2}
    TwoKeys = {y, z}
    w = w
    Server = {n1, n2, n3}
    None = None
    ABSENT = ABSENT
    Kinds = {"put", "get"}
    MaxSteps = 1000
    MaxOps = 4
    MaxTime = 2
    MaxBatch = 8
    MaxTerm = 2
    MaxWrites = 1
    MaxReads = 1
    MaxBeats = 0
INVARIANTS
    VerdictIsRight
    BlamedRightly
    ReadIndexHolds
SYMMETRY Alike
CHECK_DEADLOCK FALSE
