SPECIFICATION TwoLeaders
VIEW NoHistoryHere
CONSTANTS
    n1 = n1
    n2 = n2
    n3 = n3
    n4 = n4
    n5 = n5
    Server = {n1, n2, n3, n4, n5}
    Command = {}
    NoOp = NoOp
    Nil = Nil
    MaxBatch = 1
    Crashable = {n2}
    MaxTerm = 2
    MaxLog = 1
    MaxInFlight = 1
INVARIANTS MatchIndexIsStored
