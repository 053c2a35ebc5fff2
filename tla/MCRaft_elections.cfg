SPECIFICATION Spec
CONSTANTS
    Server = {n1, n2, n3}
    Command = {}
    NoOp = NoOp
    Nil = Nil
    MaxBatch = 1
    Crashable = {n1, n2, n3}
    MaxTerm = 2
    MaxLog = 1
    MaxInFlight = 2
SYMMETRY Symmetry
INVARIANTS ElectionSafety VotesDurable OneVotePerTerm
