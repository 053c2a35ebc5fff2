------------------------------- MODULE MCRaft -------------------------------
(***************************************************************************)
(* Small clusters for TLC.                                                 *)
(***************************************************************************)
EXTENDS RaftProperties, TLC

\* Every property treats the servers that may crash alike, and the others too.
Symmetry == Permutations(Crashable) \cup Permutations(Server \ Crashable)

\* What distinguishes two states when no property reads the history: nothing
\* but a property does.
NoHistory == <<stateVars, roleVars, wal, network>>
=============================================================================
