----------------------------- MODULE Replication ------------------------------
(***************************************************************************)
(* What reads (Reads.tla) and catching up (CatchUp.tla) have in common:    *)
(* the logs of a cluster, what its leaders call committed, and what that   *)
(* is worth.                                                               *)
(***************************************************************************)
EXTENDS RaftLog

CONSTANT Server

VARIABLES term, log, commit  \* of every node

Peers(n) == Server \ {n}
IsMajority(S) == Cardinality(S) >= Cardinality(Server) \div 2 + 1

\* What a leader may call committed once its peers are known to store mt: an entry
\* of its own term, and what is before it.
CommitIndex(n, mt) ==
    LET stored == {i \in 0..Len(log[n]) : IsMajority({n} \cup {p \in Peers(n) : mt[p] >= i})}
    IN  IF Max(stored) > commit[n] /\ TermAt(log[n], Max(stored)) = term[n]
        THEN Max(stored) ELSE commit[n]

\* No two nodes differ on what both have applied, whatever their logs, their
\* leaders' logs or their snapshots went through.
AppliedAgree ==
    \A n, p \in Server : \A i \in 1..Min({commit[n], commit[p]}) : log[n][i] = log[p][i]
=============================================================================
