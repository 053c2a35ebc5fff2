-------------------------------- MODULE Runner --------------------------------
(***************************************************************************)
(* An experiment (experiments/runner.py): the faults of a scenario         *)
(* (experiments/scenario.py) are read into a timeline and applied while    *)
(* virtual time advances.  The cluster under test is reduced to who is up  *)
(* and who believes to lead in which term.                                 *)
(***************************************************************************)
EXTENDS Integers, SequencesExt, FiniteSetsExt

CONSTANTS
    Node,        \* the members
    NONE,        \* no member, no duration
    Targets,     \* what a crash may name: members, or "leader"
    Kinds,       \* the kinds of faults a scenario may hold
    Starts,      \* when they may begin
    Durations,   \* how long they may last, NONE for ever
    MaxFaults,   \* bound on the faults of a scenario
    Duration,    \* of the scenario, not zero
    MaxSettle,   \* what waiting for the first leader may take
    MaxTerm,     \* bound on the elections
    Persistent   \* do the nodes of the run have a WAL

VARIABLES
    faults,    \* the scenario's faults, as the file writes them
    pending,   \* the steps of its timeline still to come
    applied,   \* what each step did, in order
    now,       \* the virtual clock
    phase,     \* settling, driving, done, or failed of an exception
    stop,      \* the crash whose member is being stopped, or NONE
    down,      \* the members taken down, the oldest outage first
    leads,     \* the term in which a member believes to lead, or 0
    groups,    \* the partition in effect, NONE without one
    link       \* the faults of every link: latency, loss

cluster == <<down, leads, groups, link>>
vars == <<faults, pending, applied, now, phase, stop, cluster>>

-----------------------------------------------------------------------------
(***************************************************************************)
(* The timeline: a fault is a step, and another to end it when it has a    *)
(* duration.                                                               *)
(***************************************************************************)
Fault ==
    [kind : Kinds \cap {"crash"}, start : Starts, duration : Durations, target : Targets]
        \cup [kind : Kinds \ {"crash"}, start : Starts, duration : Durations, target : {NONE}]

Undoes(kind) ==
    CASE kind = "crash" -> "recover"
      [] kind = "partition" -> "heal_partition"
      [] OTHER -> "reset_faults"

\* The steps of the i-th fault.
StepsOf(fs, i) ==
    LET f == fs[i] IN
    <<[at |-> f.start, action |-> f.kind, target |-> f.target, of |-> i]>> \o
    (IF f.duration = NONE THEN <<>>
     ELSE <<[at |-> f.start + f.duration, action |-> Undoes(f.kind), target |-> f.target,
             of |-> i]>>)

\* Sorted by time, steps of one instant as the file wrote them.
Timeline(fs) ==
    LET steps == FlattenSeq([i \in DOMAIN fs |-> StepsOf(fs, i)])
        Before(i, j) == steps[i].at < steps[j].at \/ (steps[i].at = steps[j].at /\ i < j)
        order == SetToSortSeq(DOMAIN steps, Before)
    IN  [k \in DOMAIN order |-> steps[order[k]]]

Init ==
    /\ \E n \in 1..MaxFaults : faults \in [1..n -> Fault]
    /\ pending = Timeline(faults)
    /\ applied = <<>>
    /\ now = 0 /\ phase = "settling" /\ stop = NONE
    /\ down = <<>>
    /\ leads = [n \in Node |-> 0]
    /\ groups = NONE
    /\ link = {}

-----------------------------------------------------------------------------
(***************************************************************************)
(* The cluster under test.                                                 *)
(***************************************************************************)
IsDown(n) == \E i \in DOMAIN down : down[i] = n
Terms == {leads[n] : n \in Node}
Over == phase \in {"done", "failed"}

\* A member acts until it is down or its task has been cancelled.
Acts(n) == ~ Over /\ ~ IsDown(n) /\ (stop # NONE => stop.target # n)

Elect(n) ==
    /\ Acts(n) /\ Max(Terms) < MaxTerm
    /\ 2 * Cardinality({m \in Node : Acts(m)}) > Cardinality(Node)
    /\ leads' = [leads EXCEPT ![n] = Max(Terms) + 1]
    /\ UNCHANGED <<faults, pending, applied, now, phase, stop, down, groups, link>>

StepDown(n) ==
    /\ Acts(n) /\ leads[n] # 0 /\ leads[n] < Max(Terms)
    /\ leads' = [leads EXCEPT ![n] = 0]
    /\ UNCHANGED <<faults, pending, applied, now, phase, stop, down, groups, link>>

\* Whom a step names, as of right now.
Leaders == {n \in Node : leads[n] # 0 /\ ~ IsDown(n)}
Resolve(target) ==
    IF target # "leader" THEN target
    ELSE IF Leaders = {} THEN NONE
    ELSE CHOOSE n \in Leaders : \A m \in Leaders : leads[m] <= leads[n]

-----------------------------------------------------------------------------
(***************************************************************************)
(* What a step does.  Each says whom it hit and whether it did anything.   *)
(***************************************************************************)
Outcome(step, target, did) ==
    applied' = Append(applied, [step |-> step, at |-> now, target |-> target, applied |-> did])

\* The member is stopped, and the others act until its task has ended.
Crash(step) ==
    LET target == Resolve(step.target) IN
    /\ step.action = "crash"
    /\ IF target = NONE \/ IsDown(target)
       THEN UNCHANGED stop /\ Outcome(step, target, FALSE)
       ELSE stop' = [step |-> step, target |-> target] /\ UNCHANGED applied
    /\ UNCHANGED cluster

StopReturns ==
    /\ ~ Over /\ stop # NONE
    /\ down' = Append(down, stop.target)
    /\ Outcome(stop.step, stop.target, TRUE)
    /\ stop' = NONE
    /\ UNCHANGED <<faults, pending, now, phase, leads, groups, link>>

\* What the member's loop died of is raised again, and nothing catches it: the run
\* is torn down.
StopRaises ==
    /\ ~ Over /\ stop # NONE
    /\ phase' = "failed"
    /\ UNCHANGED <<faults, pending, applied, now, stop, cluster>>

\* The member named if it is down, or the oldest outage; a persistent run
\* builds it again from its WAL.  (Definitions named X_Something are X with a
\* plausible bug, to show that the properties notice; nothing uses them.)
Recover_Named(step) ==
    LET named == Resolve(step.target) IN
    /\ step.action = "recover"
    /\ IF named = NONE \/ ~ IsDown(named)
       THEN UNCHANGED <<down, leads>> /\ Outcome(step, NONE, FALSE)
       ELSE /\ down' = SelectSeq(down, LAMBDA n : n # named)
            /\ leads' = IF Persistent THEN [leads EXCEPT ![named] = 0] ELSE leads
            /\ Outcome(step, named, TRUE)
    /\ UNCHANGED <<groups, link, stop>>
Recover(step) ==
    LET named == Resolve(step.target)
        target == IF named # NONE /\ IsDown(named) THEN named ELSE Head(down)
    IN
    /\ step.action = "recover"
    /\ IF down = <<>>
       THEN UNCHANGED <<down, leads>> /\ Outcome(step, NONE, FALSE)
       ELSE /\ down' = SelectSeq(down, LAMBDA n : n # target)
            /\ leads' = IF Persistent THEN [leads EXCEPT ![target] = 0] ELSE leads
            /\ Outcome(step, target, TRUE)
    /\ UNCHANGED <<groups, link, stop>>

\* "[[leader], everybody]": the first group to name a node keeps it.
Partition(step) ==
    LET leader == Resolve("leader") IN
    /\ step.action = "partition"
    /\ IF leader = NONE
       THEN UNCHANGED groups /\ Outcome(step, NONE, FALSE)
       ELSE /\ groups' = [n \in Node |-> IF n = leader THEN 1 ELSE 2]
            /\ Outcome(step, NONE, TRUE)
    /\ UNCHANGED <<down, leads, link, stop>>

HealPartition(step) ==
    /\ step.action = "heal_partition"
    /\ groups' = NONE
    /\ Outcome(step, NONE, TRUE)
    /\ UNCHANGED <<down, leads, link, stop>>

SetLink(step) ==
    /\ step.action \in {"latency", "packet_loss"}
    /\ link' = link \cup {step.action}
    /\ Outcome(step, NONE, TRUE)
    /\ UNCHANGED <<down, leads, groups, stop>>

ResetFaults(step) ==
    /\ step.action = "reset_faults"
    /\ link' = {} /\ groups' = NONE
    /\ Outcome(step, NONE, TRUE)
    /\ UNCHANGED <<down, leads, stop>>

-----------------------------------------------------------------------------
(***************************************************************************)
(* Driving the run.                                                        *)
(***************************************************************************)
\* Time passes until somebody leads, or the wait has had its chance.
SettleOn ==
    /\ phase = "settling" /\ Leaders = {} /\ now < MaxSettle
    /\ now' = now + 1
    /\ UNCHANGED <<faults, pending, applied, phase, stop, cluster>>

Settled ==
    /\ phase = "settling" /\ (Leaders # {} \/ now = MaxSettle)
    /\ phase' = "driving"
    /\ UNCHANGED <<faults, pending, applied, now, stop, cluster>>

Driving == phase = "driving" /\ stop = NONE /\ now < Duration
Due == pending # <<>> /\ Head(pending).at <= now

ApplyStep ==
    /\ Driving /\ Due
    /\ LET step == Head(pending) IN
       \/ Crash(step) \/ Recover(step) \/ Partition(step) \/ HealPartition(step)
       \/ SetLink(step) \/ ResetFaults(step)
    /\ pending' = Tail(pending)
    /\ UNCHANGED <<faults, now, phase>>

\* To the next timer, wherever it is, the next step or the end of the scenario.
Horizon == IF pending = <<>> THEN Duration ELSE Min({Duration, Head(pending).at})

Advance ==
    /\ Driving /\ ~ Due
    /\ now' \in (now + 1)..Horizon
    /\ UNCHANGED <<faults, pending, applied, phase, stop, cluster>>

Finish ==
    /\ phase = "driving" /\ stop = NONE /\ now >= Duration
    /\ phase' = "done"
    /\ UNCHANGED <<faults, pending, applied, now, stop, cluster>>

Next ==
    \/ \E n \in Node : Elect(n) \/ StepDown(n)
    \/ SettleOn \/ Settled \/ ApplyStep \/ StopReturns \/ StopRaises \/ Advance \/ Finish

Spec == Init /\ [][Next]_vars

-----------------------------------------------------------------------------
(***************************************************************************)
(* What a run promises about its faults.                                   *)
(***************************************************************************)
Done == phase = "done"
EndOf(i) == faults[i].start + faults[i].duration

\* A step due before the end of the scenario is applied, once, in the order of
\* the timeline, and not a moment after its time unless the cluster was still
\* settling.
StepsInTime ==
    /\ IsPrefix([i \in DOMAIN applied |-> applied[i].step], Timeline(faults))
    /\ \A i \in DOMAIN applied :
           applied[i].at = applied[i].step.at \/ applied[i].at <= MaxSettle
    /\ Done => \A i \in DOMAIN pending : pending[i].at >= Duration

\* When every crash ends before the scenario does, no member is left down,
\* whatever the steps hit.
EverybodyIsBack ==
    Done /\ (\A i \in DOMAIN faults :
                faults[i].kind = "crash" => faults[i].duration # NONE /\ EndOf(i) < Duration)
        => down = <<>>

\* A partition of the leader against everybody leaves it alone, and leaves the
\* others together.
LeaderIsAlone ==
    Leaders # {} /\ Len(applied') > Len(applied) /\ Last(applied').step.action = "partition" =>
        /\ groups' # NONE
        /\ \E n \in Leaders : \A m \in Node \ {n} :
               /\ groups'[m] # groups'[n]
               /\ m \in Leaders => leads[m] < leads[n]
               /\ \A k \in Node \ {n} : groups'[k] = groups'[m]

\* The run is the scenario's: each step in its time, each crash undone, and a
\* partition of the leader hits the leader.
ScenarioIsRun == [](StepsInTime /\ EverybodyIsBack) /\ [][LeaderIsAlone]_vars

\* "What the author meant is put back the one you took down, so that is what
\* happens": a recovery that puts a member back puts back the one that its
\* own fault took down.
PutsBackItsOwn ==
    \A i, j \in DOMAIN applied :
        /\ applied[i].step.action = "crash" /\ applied[j].step.action = "recover"
        /\ applied[i].step.of = applied[j].step.of
        /\ applied[i].applied /\ applied[j].applied
        => applied[j].target = applied[i].target

\* "The report says so, rather than the step silently vanishing."
EveryStepIsReported == Done => pending = <<>>

\* A step that ends a fault with a duration ends that fault: the partition in
\* effect stays until its own heal.
EndsOnlyItsOwn ==
    [][groups # NONE /\ groups' = NONE /\ pending # <<>> => Head(pending).action = "heal_partition"]_vars
=============================================================================
