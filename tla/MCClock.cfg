SPECIFICATION MCSpec
CONSTANTS
    n1 = n1
    n2 = n2
    Racer = {r1}
    NOTHING = NOTHING
    NotAdvancing = NotAdvancing
    NoSplit = NoSplit
    Node <- TwoNodes
    Delay = {0, 1}
    Loss = {"none", "some"}
    Split <- Apart
    MaxSent = 3
    MaxTime = 2
    MaxFaults = 4
    MaxQueued = 2
    MaxRaces = 3
    MaxWait = 3
CHECK_DEADLOCK FALSE
INVARIANTS
    MessagesAreAccounted
    SameDelayInOrder
    OnTime
    RacesAreClean
PROPERTIES
    IdealAfterReset
    EveryRaceEnds
