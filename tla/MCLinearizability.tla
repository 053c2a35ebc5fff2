--------------------------- MODULE MCLinearizability ---------------------------
(***************************************************************************)
(* Linearizability for TLC, three times: short histories of reads and      *)
(* writes of two values, longer than the others; every kind of operation,  *)
(* with None among the values; and histories on two keys, judged with a    *)
(* budget that suffices and with budgets that run out.  And the reads that *)
(* a leader answers without the log, in a failover or in a round of        *)
(* heartbeats, with a state of their own.  The first state says which of   *)
(* the five it is.                                                         *)
(***************************************************************************)
EXTENDS Reads, Linearizability, TLC

CONSTANTS
    w,       \* a value that the symmetry leaves alone
    TwoKeys  \* the keys of the histories on two keys

ASSUME NewAssumption == ABSENT # w

VARIABLE part

\* The cfg gives the constants of the first.
AllKinds ==
    INSTANCE Linearizability
        WITH Value <- {w, None}, Kinds <- {"put", "get", "delete", "cas"},
             MaxOps <- 3, MaxTime <- 2
OnTwo == INSTANCE Linearizability WITH Keys <- TwoKeys, Value <- {w}, MaxOps <- 3, MaxTime <- 2

\* The same histories, with budgets that run out at the first key or at the
\* second.
Short(budget) ==
    INSTANCE Linearizability
        WITH Keys <- TwoKeys, Value <- {w}, MaxOps <- 3, MaxTime <- 2, MaxSteps <- budget
Budgets == {2, 4}

\* The cfg gives the constants of the failover.
Round == INSTANCE Reads WITH MaxWrites <- 0, MaxBeats <- 1

Recording ==
    /\ \/ part = "reads and writes" /\ HistoryNext
       \/ part = "all kinds" /\ AllKinds!HistoryNext
       \/ part = "two keys" /\ OnTwo!HistoryNext
    /\ UNCHANGED <<part, vars>>

Reading ==
    /\ \/ part = "failover" /\ Next
       \/ part = "round" /\ Round!Next
    /\ UNCHANGED <<part, historyVars>>

MCInit ==
    /\ HistoryInit /\ Init
    /\ part \in {"reads and writes", "all kinds", "two keys", "failover", "round"}

MCSpec ==
    /\ MCInit
    /\ [][Recording \/ Reading]_<<part, historyVars, vars>>

\* Nothing tells two values apart but that one was written and not the other.
Alike == Permutations(Value) \cup Permutations(Server)

-----------------------------------------------------------------------------
\* The checker decides every history it has the budget for, and decides it
\* rightly: "the verdict is exact".  When the budget runs out it passes nothing
\* that is not linearizable, and accuses rightly until then.
VerdictIsRight ==
    CASE part = "reads and writes" -> VerdictDecides
      [] part = "all kinds" -> AllKinds!VerdictDecides
      [] part = "two keys" ->
            /\ OnTwo!VerdictDecides
            /\ \A budget \in Budgets : Short(budget)!VerdictIsExactWhileItLasts
      [] OTHER -> TRUE
=============================================================================
