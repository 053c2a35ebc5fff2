SPECIFICATION Schedules
VIEW NoHistoryHere
CONSTANTS
    n1 = n1
    n2 = n2
    n3 = n3
    Server = {n1, n2, n3}
    Command = {}
    NoOp = NoOp
    Nil = Nil
    MaxBatch = 1
    Crashable = {}
    MaxTerm = 3
    MaxLog = 2
    MaxInFlight = 2
INVARIANTS ThreeLeadersAgree
PROPERTIES CountedIsDecided CrashesUndoNothing
