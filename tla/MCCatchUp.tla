------------------------------- MODULE MCCatchUp -------------------------------
(***************************************************************************)
(* CatchUp for TLC, in four parts on the same variables; the first state   *)
(* says which of them it is.  It is always n1 whose leadership is looked   *)
(* at.                                                                     *)
(***************************************************************************)
EXTENDS Naturals

CONSTANTS n1, n2, n3

VARIABLES
    part, term, leads, log, commit, base, snapshot, next, match, awaiting, net,
    writes, restarts, lost, overtakes

\* Three servers, one term, one entry at a time: a message is lost, a request to n3
\* is overtaken, a write comes in between.
Slots ==
    INSTANCE CatchUp
        WITH Server <- {n1, n2, n3}, MaxBatch <- 1, MaxTerm <- 1, MaxWrites <- 1,
             MaxRestarts <- 0, MaxLost <- 1, MaxOvertakes <- 1

SlotsNext ==
    /\ Slots!Next
    /\ UNCHANGED snapshot
    /\ ~ leads'[n2] /\ ~ leads'[n3]
    /\ overtakes' > overtakes => net'[<<n1, n3>>] # net[<<n1, n3>>]

\* n1 is elected after n2, whose log may have gone another way, and a message
\* between them is lost.
Deposing ==
    INSTANCE CatchUp
        WITH Server <- {n1, n2, n3}, MaxBatch <- 1, MaxTerm <- 2, MaxWrites <- 0,
             MaxRestarts <- 0, MaxLost <- 1, MaxOvertakes <- 0
DeposingNext ==
    /\ Deposing!Next
    /\ UNCHANGED snapshot
    /\ lost' > lost => leads[n1] /\ net'[<<n3, n1>>] = net[<<n3, n1>>] /\ net'[<<n1, n3>>] = net[<<n1, n3>>]
    /\ \A n \in {n1, n2, n3} :
        leads'[n] /\ ~ leads[n] => IF n = n1 THEN term'[n2] = 1 ELSE n = n2 /\ term'[n] = 1

\* n1 leads, comes back from a compacted log and leads again, and what it sends to
\* n3, or n3 to it, is lost.
Behind ==
    INSTANCE CatchUp
        WITH Server <- {n1, n2, n3}, MaxBatch <- 2, MaxTerm <- 2, MaxWrites <- 0,
             MaxRestarts <- 1, MaxLost <- 1, MaxOvertakes <- 0
BehindNext ==
    /\ Behind!Next
    /\ \A n \in {n2, n3} : ~ leads'[n] /\ snapshot'[n] = 0
    /\ restarts' > restarts => leads[n1] /\ base'[n1] > 0 /\ base'[n2] = base[n2]
    /\ term'[n1] = 2 => restarts = 1
    /\ lost' > lost => \E link \in {<<n1, n3>>, <<n3, n1>>} : net'[link] # net[link]

\* Two servers, of which either leads and either comes back from a compacted log.
Compacted ==
    INSTANCE CatchUp
        WITH Server <- {n1, n2}, MaxBatch <- 2, MaxTerm <- 2, MaxWrites <- 0,
             MaxRestarts <- 1, MaxLost <- 0, MaxOvertakes <- 0

Step ==
    \/ part = "slots" /\ SlotsNext
    \/ part = "deposing" /\ DeposingNext
    \/ part = "behind" /\ BehindNext
    \/ part = "compacted" /\ Compacted!Next

mcVars == <<part, Slots!vars>>

\* The fairness of CatchUp, as far as the leadership of n1 needs it.
Heartbeat ==
    \/ part \in {"slots", "deposing"} /\ Slots!Heartbeat(n1)
    \/ part = "behind" /\ Behind!Heartbeat(n1)
    \/ part = "compacted" /\ Compacted!Heartbeat(n1)
Handle(n, p) ==
    \/ part \in {"slots", "deposing"} /\ Slots!Handle(<<n, p>>)
    \/ part = "behind" /\ Behind!Handle(<<n, p>>)
    \/ part = "compacted" /\ n3 \notin {n, p} /\ Compacted!Handle(<<n, p>>)

MCSpec ==
    /\ part \in {"slots", "deposing", "behind", "compacted"}
    /\ IF part = "compacted" THEN Compacted!Init ELSE Slots!Init
    /\ [][Step /\ UNCHANGED part]_mcVars
    /\ WF_mcVars(Heartbeat /\ UNCHANGED part)
    /\ \A p \in {n2, n3} :
        /\ WF_mcVars(Handle(n1, p) /\ UNCHANGED part)
        /\ WF_mcVars(Handle(p, n1) /\ UNCHANGED part)

-----------------------------------------------------------------------------
\* If n1 stays the leader it brings every node that has a whole log, and of it the
\* part that n1 itself cannot read, to the end of its own.
CatchesUpWholeLogs ==
    \A p \in {n2, n3} :
        leads[n1] ~> (p = n3 /\ part = "compacted") \/ Slots!CaughtUp(n1, p)
=============================================================================
