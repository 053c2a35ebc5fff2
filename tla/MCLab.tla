-------------------------------- MODULE MCLab ---------------------------------
(***************************************************************************)
(* What is built around the nodes, for TLC: the live cluster, with         *)
(* requests that keep apart, of members without a WAL or with one; the     *)
(* jobs, with a socket that watches one or so many that old ones are       *)
(* dropped; and a run with its scenario.  They have no state in common:    *)
(* the first state says which of the five it is.                           *)
(***************************************************************************)
EXTENDS Cluster

CONSTANTS
    n1, NONE,                          \* of Runner
    LIVE, REBUILT, WATCHED, MANY, RUN  \* the parts

VARIABLES
    part,
    jobs, kept, worker, callbacks, queue, subscribed, connected,               \* Jobs
    list, view, unsure, created, others,
    faults, pending, applied, now, phase, stop, down, reigns, groups, link     \* Runner

\* The cfg gives the constants of members without a WAL.
Rebuilt == INSTANCE Cluster WITH Persistent <- TRUE, MaxDeaths <- 0
Watched ==
    INSTANCE Jobs
        WITH now <- created, Subscriber <- {"s1"}, MAX_JOBS <- 1, QUEUE_LIMIT <- 2,
             Total <- 2, MaxStarted <- 1, MaxTime <- 0, MaxOthers <- 1
Many ==
    INSTANCE Jobs
        WITH now <- created, Subscriber <- {}, MAX_JOBS <- 1, QUEUE_LIMIT <- 2,
             Total <- 1, MaxStarted <- 4, MaxTime <- 1, MaxOthers <- 0
Run ==
    INSTANCE Runner
        WITH leads <- reigns, Targets <- {n1, "leader"},
             Kinds <- {"crash", "partition", "latency"}, Starts <- {0, 1},
             Durations <- {NONE, 1, 2}, MaxFaults <- 2, Duration <- 3,
             MaxSettle <- 1, MaxTerm <- 2, Persistent <- TRUE

jobVars ==
    <<jobs, kept, worker, callbacks, queue, subscribed, connected, list, view, unsure, created,
      others>>
runVars == <<faults, pending, applied, now, phase, stop, down, reigns, groups, link>>
allVars == <<part, vars, jobVars, runVars>>

\* A scenario for the parts that have none of their own.
Unused == <<CHOOSE f \in Run!Fault : TRUE>>

MCInit ==
    /\ part \in {LIVE, REBUILT, WATCHED, MANY, RUN}
    /\ Init
    /\ IF part = MANY THEN Many!Init ELSE Watched!Init
    /\ Run!Init /\ (part # RUN => faults = Unused)

ClusterStep ==
    /\ \/ part = LIVE /\ ApartNext
       \/ part = REBUILT /\ Rebuilt!ApartNext
    /\ UNCHANGED <<part, jobVars, runVars>>

\* Whether jobs are cancelled makes no difference to which are dropped.
ManyStep ==
    \/ Many!Start \/ Many!Tick
    \/ \E j \in Many!Started : Many!WorkerStep(j) \/ Many!Finish(j)

JobStep ==
    /\ \/ part = WATCHED /\ Watched!Next
       \/ part = MANY /\ ManyStep
    /\ UNCHANGED <<part, vars, runVars>>

RunStep == part = RUN /\ Run!Next /\ UNCHANGED <<part, vars, jobVars>>

\* The fairness of Cluster, which only the property of the live part asks for.
LiveFairness ==
    \A r \in Request :
        /\ WF_vars(part = LIVE /\ StopReturns(r))
        /\ WF_vars(part = LIVE /\ (Poll(r) \/ TimesOut(r)))

MCSpec == MCInit /\ [][ClusterStep \/ JobStep \/ RunStep]_allVars /\ LiveFairness

-----------------------------------------------------------------------------
\* Every request on the live cluster is answered.
EveryLiveRequestEnds == part = LIVE => EveryRequestEnds

\* Whoever keeps up knows how each finished job ended.
EndIsHeardUnlessSlow == Watched!EndIsHeardUnlessSlow

\* A cancelled job stops before its next trial, and does not count as a success
\* by trials it was cancelled in.
CancelIsHeeded == Watched!CancelIsHeeded

\* The bound on finished jobs is met at the expense of the oldest of them, and
\* never of one that runs.
PruneKeepsRecent == Many!PruneKeepsRecent

\* A scenario is applied in its time, undone where it says so, and hits the
\* leader where it names the leader.
ScenarioIsRun == Run!ScenarioIsRun
=============================================================================
