SPECIFICATION AloneSpec
CONSTANTS
    n1 = n1
    n2 = n2
    Members <- TwoMembers
    NoNode = NoNode
    Client = {c1}
    Key = {x}
    Value <- Written2
    Absent = Absent
    Kinds = {"put"}
    Burst = 2
    MaxCalls = 2
    MaxAttempts = 2
    MaxElections = 0
    MaxRestarts = 0
    Snapshots = FALSE
    SuddenDeposition = FALSE
INVARIANTS
    AnswersAreOwn
CHECK_DEADLOCK FALSE
