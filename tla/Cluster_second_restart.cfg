SPECIFICATION Spec
CONSTANTS
    Node = {n1, n2, n3}
    Request = {r1, r2}
    Persistent = TRUE
    MaxObjects = 3
    MaxDeaths = 0
INVARIANT MemberIsWhatItSays
CHECK_DEADLOCK FALSE
