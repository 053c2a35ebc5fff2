SPECIFICATION MCSpec
CONSTANTS
    n1 = n1
    n2 = n2
    Members <- TwoMembers
    NoNode = NoNode
    Client = {c1}
    Key = {x}
    Value <- Written2
    Absent = Absent
    Kinds = {"cas"}
    Burst = 1
    MaxCalls = 2
    MaxAttempts = 2
    MaxElections = 1
    MaxRestarts = 1
    Snapshots = FALSE
    SuddenDeposition = FALSE
INVARIANTS
    AnswersGoToWhoAsked
    AppliedOnce
    ReplicasAgree
CHECK_DEADLOCK FALSE
