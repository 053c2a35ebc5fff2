--------------------------- MODULE MCClientSessions ---------------------------
(***************************************************************************)
(* ClientSessions for TLC, twice: one call at a time, with restarts, and   *)
(* bursts of calls without them.  The first state says which.              *)
(***************************************************************************)
EXTENDS ClientSessions

CONSTANTS n1, n2

VARIABLE part

TwoMembers == <<n1, n2>>

\* A workload's values: who wrote them and in which of its calls.
Written2 == Client \X (0..(MaxCalls - 1))

\* The cfg gives the constants of the first.
Bursts ==
    INSTANCE ClientSessions
        WITH Kinds <- {"delete"}, Burst <- 2, MaxRestarts <- 0

OneAtATime == part = "one at a time" /\ Next /\ UNCHANGED part
InBursts == part = "bursts" /\ Bursts!Next /\ UNCHANGED part

MCInit == Init /\ part \in {"one at a time", "bursts"}

MCSpec == MCInit /\ [][OneAtATime \/ InBursts]_<<vars, part>>

AloneSpec == Init /\ part = "one at a time" /\ [][OneAtATime]_<<vars, part>>

=============================================================================
