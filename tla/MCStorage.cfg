SPECIFICATION MCSpec
CONSTANTS
    Voter = {v1}
    Nil = Nil
    Keep = 2
    Faults = {"power"}
    TornForms = {"torn"}
    MaxTerm = 2
    MaxIndex = 2
    MaxRecords = 5
    MaxCrashes = 2
    MaxOrphans = 1
    MaxMergeTerm = 3
    MaxMergeLen = 4
INVARIANTS
    AlwaysRecoverable
    RestartIsSound
    TornLogIsPrefix
PROPERTIES
    ImplementsStableStorage
    LoopMerges
CHECK_DEADLOCK FALSE
