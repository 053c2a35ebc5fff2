SPECIFICATION Spec
VIEW NoHistory
CONSTANTS
    Server = {n1, n2, n3}
    Command = {a}
    NoOp = NoOp
    Nil = Nil
    MaxBatch = 2
    Crashable = {}
    MaxTerm = 2
    MaxLog = 2
    MaxInFlight = 2
SYMMETRY Symmetry
INVARIANTS TypeOK LogMatching LeaderCompleteness StateMachineSafety MatchIndexIsStored
PROPERTIES CommittedNeverTruncated
