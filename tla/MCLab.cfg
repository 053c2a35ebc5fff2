SPECIFICATION MCSpec
CONSTANTS
    Node = {n1, n2, n3}
    Request = {r1, r2}
    Persistent = FALSE
    MaxObjects = 2
    MaxDeaths = 1
    n1 = n1
    NONE = NONE
    LIVE = LIVE
    REBUILT = REBUILT
    WATCHED = WATCHED
    MANY = MANY
    RUN = RUN
CHECK_DEADLOCK FALSE
INVARIANTS
    MemberIsWhatItSays
    NothingLeftBehind
    CancelIsHeeded
PROPERTIES
    EndIsHeardUnlessSlow
    ScenarioIsRun
    EveryLiveRequestEnds
    PruneKeepsRecent
