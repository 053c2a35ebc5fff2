----------------------------- MODULE MCLeadership ------------------------------
(***************************************************************************)
(* What depends on who leads, for TLC: replication from a leader whose log *)
(* was compacted, and what a trace tells of the leadership.  The first     *)
(* state says which of the two it is.                                      *)
(***************************************************************************)
EXTENDS Replication, Trace, TLC

VARIABLES
    part,
    leads, next, match, writes,
    base, snapshot, awaiting, net, restarts, lost, overtakes  \* of CatchUp

Alike == Permutations(Server)

Compacted ==
    INSTANCE CatchUp
        WITH MaxBatch <- 2, MaxTerm <- 2, MaxWrites <- 0,
             MaxRestarts <- 1, MaxLost <- 0, MaxOvertakes <- 0

catchUpVars ==
    <<term, leads, log, commit, next, match, writes,
      base, snapshot, awaiting, net, restarts, lost, overtakes>>

MCInit ==
    /\ part \in {"compacted", "told"}
    /\ Compacted!Init /\ TraceInit
    /\ part = "compacted" => persistent

\* The node that restarts is one whose log was compacted.
CatchUpStep ==
    /\ part = "compacted" /\ Compacted!Next
    /\ restarts' > restarts => base' # base
    /\ UNCHANGED <<part, traceVars>>

\* Two elections and a node that comes back between them take one event more than
\* two elections and any other fault.
ComesBack == \E i \in DOMAIN trace : trace[i].kind = "NODE_RECOVERED"

TraceStep ==
    /\ part = "told" /\ TraceNext
    /\ Len(trace') < MaxEvents \/ ComesBack
    /\ UNCHANGED <<part, catchUpVars>>

MCSpec == MCInit /\ [][CatchUpStep \/ TraceStep]_<<part, catchUpVars, traceVars>>

==============================================================================
