-------------------------------- MODULE Cluster --------------------------------
(***************************************************************************)
(* A live cluster: the members' managers (cluster/manager.py), the waiting *)
(* and the teardown (cluster/lifecycle.py), RaftNode.start and stop, and   *)
(* the one cluster a process owns behind HTTP (api/state.py).              *)
(*                                                                         *)
(* Requests run as coroutines of one event loop: a request gives way to    *)
(* the others only where it awaits, which is while a cancelled loop ends   *)
(* and between two polls for a leader.  Raft itself is reduced to who      *)
(* believes to lead.                                                       *)
(***************************************************************************)
EXTENDS Naturals, FiniteSets, SequencesExt

CONSTANTS
    Node,        \* the members
    Request,     \* the requests that may be in progress at a time
    Persistent,  \* do the members have a WAL
    MaxObjects,  \* bound on the RaftNode objects built for one member
    MaxDeaths    \* bound on loops that end with an exception, of a bug

VARIABLES
    object,   \* the RaftNode object a member's manager holds, 0 for None
    running,  \* what the manager believes
    raised,   \* history: it believes so of a member whose last stop raised
    task,     \* for each object its _task: none, live, or died of an exception
    leads,    \* for each object: is its role LEADER
    inbox,    \* the object registered on the network under a member's id, 0 for none
    lab,      \* the process's cluster: none, starting, up, stopping
    request,  \* what each request is doing
    answer,   \* how its last call ended
    deaths    \* loops that ended with an exception

members == <<object, running, raised, task, leads, inbox>>
vars == <<members, lab, request, answer, deaths>>

Objects == 1..MaxObjects
Idle == [at |-> "idle"]

Init ==
    /\ object = [n \in Node |-> 0]
    /\ running = [n \in Node |-> FALSE] /\ raised = [n \in Node |-> FALSE]
    /\ task = [n \in Node |-> [o \in Objects |-> "none"]]
    /\ leads = [n \in Node |-> [o \in Objects |-> FALSE]]
    /\ inbox = [n \in Node |-> 0]
    /\ lab = "none"
    /\ request = [r \in Request |-> Idle]
    /\ answer = [r \in Request |-> "none"]
    /\ deaths = 0

Answer(r, how) ==
    /\ answer' = [answer EXCEPT ![r] = how]
    /\ request' = [request EXCEPT ![r] = Idle]

Continue(r, next) ==
    /\ answer' = [answer EXCEPT ![r] = "none"]
    /\ request' = [request EXCEPT ![r] = next]

-----------------------------------------------------------------------------
(***************************************************************************)
(* One member: starting and stopping an object.  The state of one member   *)
(* is a record, so that a request can do several things to it in one step. *)
(***************************************************************************)
Member(n) ==
    [object |-> object[n], running |-> running[n], raised |-> raised[n], task |-> task[n],
     leads |-> leads[n], inbox |-> inbox[n]]

MembersBecome(ms) ==
    /\ object' = [n \in Node |-> ms[n].object]
    /\ running' = [n \in Node |-> ms[n].running]
    /\ raised' = [n \in Node |-> ms[n].raised]
    /\ task' = [n \in Node |-> ms[n].task]
    /\ leads' = [n \in Node |-> ms[n].leads]
    /\ inbox' = [n \in Node |-> ms[n].inbox]

MemberBecomes(n, m) ==
    MembersBecome([[k \in Node |-> Member(k)] EXCEPT ![n] = m])

CanBuild(m) == m.object < MaxObjects
Built(m) == [m EXCEPT !.object = @ + 1]

\* RaftNode.start raises when the object has a task, or its id a registration.
CanStart(m) == m.task[m.object] = "none" /\ m.inbox = 0
Started(m) ==
    [m EXCEPT !.task[m.object] = "live", !.inbox = m.object, !.running = TRUE]

\* The end of RaftNode.stop, whatever the loop died of.  (Definitions named
\* X_Something are X with a plausible bug, to show that the properties notice;
\* nothing uses them.)
Released_Never(m, o) == m
Released(m, o) == [m EXCEPT !.inbox = IF @ = o THEN 0 ELSE @]

\* NodeManager.recover.  A persistent member is built again from its WAL.
MustBuild(m) == Persistent \/ m.object = 0
Fresh(m) == IF MustBuild(m) THEN Built(m) ELSE m
Refuses(m) == m.running
CanRecover(m) == MustBuild(m) => CanBuild(m)

\* NodeManager.stop calls RaftNode.stop on the object held: its task is taken
\* and cancelled, and the caller waits for it to end.
StopWaits(m) == m.running /\ m.task[m.object] = "live"
Cancelled(m) == [m EXCEPT !.task[m.object] = "none"]

\* With no task the stop is over at once; with one that died its exception is
\* raised, past the line that says the member no longer runs.
StopRaises(m) == m.running /\ m.task[m.object] = "died"
Down(m) == [m EXCEPT !.running = FALSE, !.raised = FALSE]
Raised(m) == [m EXCEPT !.raised = m.running]
StoppedAtOnce(m) ==
    IF ~ m.running THEN m
    ELSE LET released == Released([m EXCEPT !.task[m.object] = "none"], m.object)
         IN  IF StopRaises(m) THEN Raised(released) ELSE Down(released)

\* A stop that waited: o is the object whose task has ended, or has raised while
\* it did.
StopEnded(m, o, raises) == IF raises THEN Raised(Released(m, o)) ELSE Down(Released(m, o))

-----------------------------------------------------------------------------
(***************************************************************************)
(* What happens by itself: elections, and loops that die.                  *)
(***************************************************************************)
Lives(n, o) == task[n][o] = "live" /\ inbox[n] = o
Live == {n \in Node : \E o \in Objects : Lives(n, o)}
LiveLeaders == {n \in Node : \E o \in Objects : Lives(n, o) /\ leads[n][o]}

Elect(n) ==
    /\ n \in Live /\ 2 * Cardinality(Live) > Cardinality(Node)
    /\ ~ leads[n][inbox[n]]
    /\ leads' = [leads EXCEPT ![n][inbox[n]] = TRUE]
    /\ UNCHANGED <<object, running, raised, task, inbox, lab, request, answer, deaths>>

StepDown(n) ==
    /\ n \in LiveLeaders /\ LiveLeaders # {n}
    /\ leads' = [leads EXCEPT ![n][inbox[n]] = FALSE]
    /\ UNCHANGED <<object, running, raised, task, inbox, lab, request, answer, deaths>>

LoopDies(n) ==
    /\ deaths < MaxDeaths
    /\ \E o \in Objects :
        /\ task[n][o] = "live"
        /\ task' = [task EXCEPT ![n][o] = "died"]
    /\ deaths' = deaths + 1
    /\ UNCHANGED <<object, running, raised, leads, inbox, lab, request, answer>>

-----------------------------------------------------------------------------
(***************************************************************************)
(* Waiting for a leader: the objects held when the wait began are polled.  *)
(***************************************************************************)
AskedFor(held) == {n \in Node : held[n] # 0 /\ leads[n][held[n]]}

WaitForLeader(purpose, ms) ==
    [at |-> "waiting", purpose |-> purpose, held |-> [n \in Node |-> ms[n].object]]

\* Stopping the members one after the other; failed says if one has raised.
\* When the node in hand must be waited for, the request is told to.
NextToStop(todo, ms) ==
    {i \in DOMAIN todo : StopWaits(ms[todo[i]])
        /\ \A j \in 1..(i - 1) : ~ StopWaits(ms[todo[j]])}

AnyRaises(todo, last, ms) == \E j \in 1..last : StopRaises(ms[todo[j]])

StoppedUpTo(todo, last, ms) ==
    [n \in Node |-> IF \E j \in 1..last : todo[j] = n THEN StoppedAtOnce(ms[n]) ELSE ms[n]]

\* The cluster is gone: a failed start answers as the start did.
TornDown(r, purpose, failed) ==
    /\ lab' = "none"
    /\ Answer(r, IF purpose = "start" THEN "timeout" ELSE IF failed THEN "error" ELSE "ok")

Shutdown_AtTheFirstError(r, purpose, todo, failed, ms) ==
    IF failed THEN MembersBecome(ms) /\ TornDown(r, purpose, TRUE)
    ELSE IF NextToStop(todo, ms) = {}
    THEN /\ MembersBecome(StoppedUpTo(todo, Len(todo), ms))
         /\ TornDown(r, purpose, AnyRaises(todo, Len(todo), ms))
    ELSE LET i == CHOOSE k \in NextToStop(todo, ms) : TRUE IN
         LET rest == StoppedUpTo(todo, i - 1, ms) IN
         IF AnyRaises(todo, i - 1, ms)
         THEN MembersBecome(rest) /\ TornDown(r, purpose, TRUE)
         ELSE /\ MembersBecome([rest EXCEPT ![todo[i]] = Cancelled(@)])
              /\ Continue(r, [at |-> "stopping", purpose |-> purpose, node |-> todo[i],
                              object |-> ms[todo[i]].object,
                              todo |-> SubSeq(todo, i + 1, Len(todo)), failed |-> FALSE])
              /\ lab' = "stopping"
Shutdown(r, purpose, todo, failed, ms) ==
    IF NextToStop(todo, ms) = {}
    THEN /\ MembersBecome(StoppedUpTo(todo, Len(todo), ms))
         /\ TornDown(r, purpose, failed \/ AnyRaises(todo, Len(todo), ms))
    ELSE LET i == CHOOSE k \in NextToStop(todo, ms) : TRUE IN
         /\ MembersBecome([StoppedUpTo(todo, i - 1, ms) EXCEPT ![todo[i]] = Cancelled(@)])
         /\ Continue(r, [at |-> "stopping", purpose |-> purpose, node |-> todo[i],
                         object |-> ms[todo[i]].object,
                         todo |-> SubSeq(todo, i + 1, Len(todo)),
                         failed |-> failed \/ AnyRaises(todo, i - 1, ms)])
         /\ lab' = "stopping"

AllMembers == SetToSeq(Node)
Now == [n \in Node |-> Member(n)]

Poll(r) ==
    /\ request[r].at = "waiting"
    /\ Cardinality(AskedFor(request[r].held)) = 1
    /\ lab' = IF request[r].purpose = "start" THEN "up" ELSE lab
    /\ Answer(r, "ok")
    /\ UNCHANGED <<members, deaths>>

\* The deadline passes with none or several leading: a start tears down what it
\* built.
TimesOut_AtRestartOnly(r) ==
    /\ request[r].at = "waiting"
    /\ Cardinality(AskedFor(request[r].held)) # 1
    /\ request[r].purpose = "restart"
    /\ Answer(r, "timeout")
    /\ UNCHANGED <<members, lab, deaths>>
TimesOut(r) ==
    /\ request[r].at = "waiting"
    /\ Cardinality(AskedFor(request[r].held)) # 1
    /\ IF request[r].purpose = "start"
       THEN Shutdown(r, "start", AllMembers, FALSE, Now)
       ELSE Answer(r, "timeout") /\ UNCHANGED <<members, lab>>
    /\ UNCHANGED deaths

-----------------------------------------------------------------------------
(***************************************************************************)
(* The requests.                                                           *)
(***************************************************************************)
Free(r) == request[r].at = "idle"

\* LabState.start_cluster: a new manager with new members.
StartCluster(r) ==
    /\ Free(r) /\ lab = "none"
    /\ \A n \in Node : object[n] = 0
    /\ LET ms == [n \in Node |-> Started(Built(Member(n)))] IN
       MembersBecome(ms) /\ Continue(r, WaitForLeader("start", ms))
    /\ lab' = "starting"
    /\ UNCHANGED deaths

\* LabState.stop_cluster: under the lock of the starts and stops, and the
\* cluster cannot be reached any more from its first step.
StopCluster(r) ==
    /\ Free(r) /\ lab = "up"
    /\ Shutdown(r, "stop", AllMembers, FALSE, Now)
    /\ UNCHANGED deaths

\* NodeManager.recover, in the step that calls it.
Recover(r, n, m, purpose) ==
    /\ CanRecover(m)
    /\ IF Refuses(m) THEN MemberBecomes(n, m) /\ Answer(r, "refused")
       ELSE IF ~ CanStart(Fresh(m)) THEN MemberBecomes(n, Fresh(m)) /\ Answer(r, "error")
       ELSE LET up == Started(Fresh(m)) IN
            /\ MemberBecomes(n, up)
            /\ IF purpose = "restart"
               THEN Continue(r, WaitForLeader("restart", [Now EXCEPT ![n] = up]))
               ELSE Answer(r, "ok")

RecoverNode(r, n) ==
    /\ Free(r) /\ lab = "up"
    /\ Recover(r, n, Member(n), "recover")
    /\ UNCHANGED <<lab, deaths>>

\* What follows the stop of one member: a crash is over, a restart recovers.
AfterStop(r, n, m, purpose) ==
    IF purpose = "crash" THEN MemberBecomes(n, m) /\ Answer(r, "ok")
    ELSE Recover(r, n, m, "restart")

StopNode(r, n, purpose) ==
    IF StopWaits(Member(n))
    THEN /\ MemberBecomes(n, Cancelled(Member(n)))
         /\ Continue(r, [at |-> "stopping", purpose |-> purpose, node |-> n,
                         object |-> object[n], todo |-> <<>>, failed |-> FALSE])
    ELSE IF StopRaises(Member(n))
    THEN MemberBecomes(n, StoppedAtOnce(Member(n))) /\ Answer(r, "error")
    ELSE AfterStop(r, n, StoppedAtOnce(Member(n)), purpose)

CrashNode(r, n) ==
    /\ Free(r) /\ lab = "up"
    /\ IF running[n] THEN StopNode(r, n, "crash")
       ELSE Answer(r, "refused") /\ UNCHANGED members
    /\ UNCHANGED <<lab, deaths>>

RestartNode(r, n) ==
    /\ Free(r) /\ lab = "up"
    /\ StopNode(r, n, "restart")
    /\ UNCHANGED <<lab, deaths>>

\* The cancelled task has ended, perhaps with an exception, and the request that
\* waited for it goes on.
StopReturns(r) ==
    /\ request[r].at = "stopping"
    /\ \E raises \in BOOLEAN :
       LET q == request[r]
           m == StopEnded(Member(q.node), q.object, raises)
       IN
       /\ raises => deaths < MaxDeaths
       /\ deaths' = IF raises THEN deaths + 1 ELSE deaths
       /\ IF q.purpose \in {"start", "stop"}
          THEN Shutdown(r, q.purpose, q.todo, q.failed \/ raises, [Now EXCEPT ![q.node] = m])
          ELSE /\ IF raises THEN MemberBecomes(q.node, m) /\ Answer(r, "error")
                  ELSE AfterStop(r, q.node, m, q.purpose)
               /\ UNCHANGED lab

Next ==
    \/ \E n \in Node : Elect(n) \/ StepDown(n) \/ LoopDies(n)
    \/ \E r \in Request :
        \/ StartCluster(r) \/ StopCluster(r)
        \/ \E n \in Node : CrashNode(r, n) \/ RestartNode(r, n) \/ RecoverNode(r, n)
        \/ StopReturns(r) \/ Poll(r) \/ TimesOut(r)

\* A cancelled task ends, and a poll is made again until the deadline.
Fairness ==
    \A r \in Request : WF_vars(StopReturns(r)) /\ WF_vars(Poll(r) \/ TimesOut(r))

Spec == Init /\ [][Next]_vars /\ Fairness

\* Requests that keep apart: none stops a member that another one is stopping, and
\* the cluster is not stopped while a member is.  The code does not see to it; what
\* it promises it promises only then.
Alone(r, n) ==
    \A s \in Request \ {r} : request[s].at = "stopping" => request[s].node # n

ApartNext ==
    \/ \E n \in Node : Elect(n) \/ StepDown(n) \/ LoopDies(n)
    \/ \E r \in Request :
        \/ StartCluster(r) \/ StopReturns(r) \/ Poll(r) \/ TimesOut(r)
        \/ (\A n \in Node : Alone(r, n)) /\ StopCluster(r)
        \/ \E n \in Node :
            RecoverNode(r, n) \/ (Alone(r, n) /\ (CrashNode(r, n) \/ RestartNode(r, n)))

ApartSpec == Init /\ [][ApartNext]_vars /\ Fairness

-----------------------------------------------------------------------------
(***************************************************************************)
(* What a cluster promises.                                                *)
(***************************************************************************)
BeingStopped(n) == \E r \in Request : request[r].at = "stopping" /\ request[r].node = n

\* A member that no request is stopping is what its manager says.  One that runs
\* has one loop, registered under its id: live, or died and not looked at.  One
\* that is down has neither, so that it can be recovered and its WAL has no second
\* writer.  Nor has one whose last stop raised, though its manager still believes
\* that it runs: another stop is what makes it recoverable.
MemberIsWhatItSays ==
    \A n \in Node : ~ BeingStopped(n) =>
        /\ running[n] /\ ~ raised[n] =>
              inbox[n] = object[n] /\ task[n][object[n]] \in {"live", "died"}
        /\ ~ running[n] \/ raised[n] => inbox[n] = 0
        /\ \A o \in Objects :
              task[n][o] = "live" => running[n] /\ ~ raised[n] /\ object[n] = o

\* Tearing down ends every loop and frees every id, "every node", even when
\* stopping one of them raises.
NothingLeftBehind ==
    lab = "none" => \A n \in Node : inbox[n] = 0 /\ \A o \in Objects : task[n][o] # "live"

Ends(r, how) ==
    request[r].at = "waiting" /\ request'[r] = Idle /\ answer'[r] = how

\* A wait for a leader that succeeds does not "quietly hand back a session with
\* nothing actually elected".
LeaderIsReal ==
    [][\A r \in Request : Ends(r, "ok") => LiveLeaders # {}]_vars

\* A wait that fails did not have one leader among the live members.
TimeoutIsHonest ==
    [][\A r \in Request : Ends(r, "timeout") => Cardinality(LiveLeaders) # 1]_vars

\* Every request is answered: a stop ends, a wait has a deadline.
EveryRequestEnds == \A r \in Request : [](request[r].at # "idle" => <>(request[r].at = "idle"))
=============================================================================
