SPECIFICATION MCSpec
CONSTANTS
    Server = {n1, n2, n3}
    Node = {n1, n2, n3}
    NONE = NONE
    Splits = {{n1}, {n2}, {n3}}
    TermLimit = 2
    MaxFaults = 1
    MaxEvents = 12
SYMMETRY Alike
CHECK_DEADLOCK FALSE
INVARIANTS
    AppliedAgree
    TermsAreTold
    CrashIsLeaderless
