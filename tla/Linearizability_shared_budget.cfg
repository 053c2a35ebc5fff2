SPECIFICATION HistorySpec
CONSTANTS
    Keys = {x, y}
    Value = {v1}
    None = None
    ABSENT = ABSENT
    Kinds = {"put", "get"}
    MaxSteps = 2
    MaxOps = 3
    MaxTime = 3
INVARIANTS
    VerdictIsExact
CHECK_DEADLOCK FALSE
