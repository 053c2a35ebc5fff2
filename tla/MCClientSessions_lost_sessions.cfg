SPECIFICATION AloneSpec
CONSTANTS
    n1 = n1
    n2 = n2
    Members <- TwoMembers
    NoNode = NoNode
    Client = {c1}
    Key = {x}
    Value <- Written2
    Absent = Absent
    Kinds = {"put"}
    Burst = 1
    MaxCalls = 2
    MaxAttempts = 2
    MaxElections = 1
    MaxRestarts = 1
    Snapshots = TRUE
    SuddenDeposition = FALSE
INVARIANTS
    ReplicasAgree
CHECK_DEADLOCK FALSE
