SPECIFICATION PowerSpec
CONSTANTS
    Voter = {v1}
    Nil = Nil
    Keep = 2
    Faults = {"power", "kill"}
    TornForms = {"torn"}
    MaxTerm = 2
    MaxIndex = 2
    MaxRecords = 6
    MaxCrashes = 2
    MaxOrphans = 1
    MaxMergeTerm = 3
    MaxMergeLen = 4
INVARIANTS
    ToldSurvives
CHECK_DEADLOCK FALSE
