SPECIFICATION PowerSpec
CONSTANTS
    Voter = {}
    Nil = Nil
    Keep = 2
    Faults = {"power"}
    TornForms = {}
    MaxTerm = 1
    MaxIndex = 3
    MaxRecords = 5
    MaxCrashes = 3
    MaxOrphans = 2
    MaxMergeTerm = 3
    MaxMergeLen = 4
INVARIANTS
    AlwaysRecoverable
CHECK_DEADLOCK FALSE
