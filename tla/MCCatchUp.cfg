SPECIFICATION MCSpec
CONSTANTS
    n1 = n1
    n2 = n2
    n3 = n3
CHECK_DEADLOCK FALSE
PROPERTIES
    CatchesUpWholeLogs
