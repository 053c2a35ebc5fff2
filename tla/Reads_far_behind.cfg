SPECIFICATION Spec
CONSTANTS
    Server = {n1, n2, n3}
    MaxBatch = 1
    MaxTerm = 2
    MaxWrites = 1
    MaxReads = 1
    MaxBeats = 0
CHECK_DEADLOCK FALSE
INVARIANT ReadsAreFresh
