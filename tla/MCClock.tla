------------------------------- MODULE MCClock --------------------------------
(***************************************************************************)
(* What runs on the virtual clock, for TLC: the network's timers, and the  *)
(* waits that race a deadline, each with a clock of its own.  The first    *)
(* state says which of the two it is.                                      *)
(***************************************************************************)
EXTENDS Network, Deadlines, TLC

CONSTANTS n1, n2

VARIABLE part

TwoNodes == {n1, n2}
Apart == {n1 :> 1 @@ n2 :> 2}

NetworkStep == part = "network" /\ Next /\ UNCHANGED <<part, raceVars>>
WaitsStep == part = "waits" /\ RaceNext /\ UNCHANGED <<part, vars>>

MCInit == Init /\ NoRaces /\ part \in {"network", "waits"}

MCSpec ==
    /\ MCInit
    /\ [][NetworkStep \/ WaitsStep]_<<vars, raceVars, part>>
    /\ part = "waits" => Fairness
=============================================================================
