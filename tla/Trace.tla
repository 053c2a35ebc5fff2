-------------------------------- MODULE Trace ---------------------------------
(***************************************************************************)
(* The trace of a run and what is told from it: the events the nodes and   *)
(* the network emit (raft/node.py, network/simulator.py,                   *)
(* observability/tracer.py), the live view folded from them                *)
(* (observability/metrics.py), and the leadership that a report finds in   *)
(* them afterwards (experiments/metrics.py).                               *)
(*                                                                         *)
(* The cluster is reduced to its elections, faults included.  Every event  *)
(* happens at an instant of its own, which is its place in the trace.      *)
(***************************************************************************)
EXTENDS Integers, SequencesExt, FiniteSetsExt

CONSTANTS
    Node,
    NONE,         \* nobody, and the term of what has none
    Splits,       \* the groups a partition may cut off
    TermLimit,    \* bound on the elections
    MaxFaults,    \* bound on the crashes and partitions
    MaxEvents     \* bound on the trace

ASSUME NoneAssumption == NONE \notin Nat \cup Node

VARIABLES
    persistent,          \* does a node come back from its WAL, or from its memory
    current_term, role,
    traced,              \* the term each node last told the tracer
    granted,             \* the votes granted: in which term, to whom, by whom
    crashed,             \* the nodes that are down
    cut,                 \* the group a partition cuts off, {} without one
    trace,               \* the events so far
    live,                \* the live view
    served               \* history: was there a leader after each event

nodeVars == <<persistent, current_term, role, traced, granted>>
traceVars == <<nodeVars, crashed, cut, trace, live, served>>

Event(kind, node, t) == [kind |-> kind, node |-> node, term |-> t]

-----------------------------------------------------------------------------
(***************************************************************************)
(* The live view: a fold of the trace, one event at a time.                *)
(***************************************************************************)
\* A new term means that whoever led the old one no longer does.  (Definitions
\* named X_Something are X with a plausible bug, to show that the properties
\* notice; nothing uses them.)
Unseats(v, e) == e.kind = "TERM_CHANGED" /\ e.term > v.leader_term

Seats_Any(v, e) == e.kind = "LEADER_ELECTED"
Seats(v, e) == e.kind = "LEADER_ELECTED" /\ e.term >= v.leader_term

Record(v, e) ==
    [leader |-> IF Seats(v, e) THEN e.node ELSE IF Unseats(v, e) THEN NONE ELSE v.leader,
     leader_term |-> IF Seats(v, e) THEN e.term ELSE v.leader_term,
     down |-> CASE e.kind = "NODE_CRASHED" -> v.down \cup {e.node}
                [] e.kind = "NODE_RECOVERED" -> v.down \ {e.node}
                [] OTHER -> v.down]

Recorded(v, events) ==
    LET view[i \in 0..Len(events)] ==
            IF i = 0 THEN v ELSE Record(view[i - 1], events[i])
    IN  view[Len(events)]

TraceInit ==
    /\ persistent \in BOOLEAN
    /\ current_term = [n \in Node |-> 0] /\ traced = current_term
    /\ role = [n \in Node |-> "follower"]
    /\ granted = {} /\ crashed = {} /\ cut = {}
    /\ trace = <<>> /\ served = <<>>
    /\ live = [leader |-> NONE, leader_term |-> 0, down |-> {}]

-----------------------------------------------------------------------------
(***************************************************************************)
(* Emitting.                                                               *)
(***************************************************************************)
Majority(S) == 2 * Cardinality(S) > Cardinality(Node)
SameSide(n, m) == n \in cut <=> m \in cut

\* Somebody leads who is up and whom a majority can still follow.
Leads(n) ==
    /\ role'[n] = "leader" /\ n \notin crashed'
    /\ Majority({m \in Node \ crashed' :
                    (m \in cut' <=> n \in cut') /\ current_term'[m] <= current_term'[n]})

Emit(events) ==
    /\ Len(trace) + Len(events) <= MaxEvents
    /\ trace' = trace \o events
    /\ live' = Recorded(live, events)
    /\ served' = served \o [i \in DOMAIN events |-> \E n \in Node : Leads(n)]

\* _trace: a term that moved since the node last looked is told first.
Announced(n, kinds) ==
    LET t == current_term'[n]
        told == [i \in DOMAIN kinds |-> Event(kinds[i], n, t)]
    IN  IF t # traced[n] THEN <<Event("TERM_CHANGED", n, t)>> \o told ELSE told

Narrate(n, kinds) ==
    /\ Emit(Announced(n, kinds))
    /\ traced' = [traced EXCEPT ![n] = current_term'[n]]

-----------------------------------------------------------------------------
(***************************************************************************)
(* Elections.  A message may arrive late: a vote is counted, and an old    *)
(* request answered, at any time.                                          *)
(***************************************************************************)
StartElection(n) ==
    /\ n \notin crashed /\ role[n] # "leader" /\ current_term[n] < TermLimit
    /\ current_term' = [current_term EXCEPT ![n] = @ + 1]
    /\ role' = [role EXCEPT ![n] = "candidate"]
    /\ granted' = granted \cup {<<current_term[n] + 1, n, n>>}
    /\ UNCHANGED <<persistent, crashed, cut>>
    /\ Narrate(n, <<"ELECTION_STARTED">>)

GrantVote(n, t, candidate) ==
    /\ n \notin crashed /\ SameSide(n, candidate)
    /\ <<t, candidate, candidate>> \in granted /\ t >= current_term[n]
    /\ \A c \in Node : <<t, c, n>> \notin granted
    /\ current_term' = [current_term EXCEPT ![n] = t]
    /\ role' = IF t > current_term[n] THEN [role EXCEPT ![n] = "follower"] ELSE role
    /\ granted' = granted \cup {<<t, candidate, n>>}
    /\ UNCHANGED <<persistent, crashed, cut>>
    /\ Narrate(n, <<"VOTE_GRANTED">>)

WinElection(n) ==
    /\ n \notin crashed /\ role[n] = "candidate"
    /\ Majority({v \in Node : <<current_term[n], n, v>> \in granted})
    /\ role' = [role EXCEPT ![n] = "leader"]
    /\ UNCHANGED <<persistent, current_term, granted, crashed, cut>>
    /\ Narrate(n, <<"LEADER_ELECTED">>)

\* A message of a higher term, whatever it holds, or of the leader of this one.
Hear(n, m) ==
    /\ n \notin crashed /\ m \notin crashed /\ SameSide(n, m)
    /\ \/ current_term[m] > current_term[n]
       \/ current_term[m] = current_term[n] /\ role[m] = "leader" /\ role[n] = "candidate"
    /\ current_term' = [current_term EXCEPT ![n] = current_term[m]]
    /\ role' = [role EXCEPT ![n] = "follower"]
    /\ UNCHANGED <<persistent, granted, crashed, cut>>
    /\ Narrate(n, <<>>)

-----------------------------------------------------------------------------
(***************************************************************************)
(* Faults, which the network narrates: a crashed process cannot.           *)
(***************************************************************************)
FewFaults ==
    Cardinality({i \in DOMAIN trace : trace[i].kind \in {"NODE_CRASHED", "PARTITION_CREATED"}})
        < MaxFaults

Crash(n) ==
    /\ n \notin crashed /\ FewFaults
    /\ crashed' = crashed \cup {n}
    /\ UNCHANGED <<nodeVars, cut>>
    /\ Emit(<<Event("NODE_CRASHED", n, NONE)>>)

Recover(n) ==
    /\ n \in crashed
    /\ crashed' = crashed \ {n}
    /\ role' = IF persistent THEN [role EXCEPT ![n] = "follower"] ELSE role
    /\ UNCHANGED <<persistent, current_term, traced, granted, cut>>
    /\ Emit(<<Event("NODE_RECOVERED", n, NONE)>>)

Partition(group) ==
    /\ cut = {} /\ FewFaults
    /\ cut' = group
    /\ UNCHANGED <<nodeVars, crashed>>
    /\ Emit(<<Event("PARTITION_CREATED", NONE, NONE)>>)

Heal ==
    /\ cut # {}
    /\ cut' = {}
    /\ UNCHANGED <<nodeVars, crashed>>
    /\ Emit(<<Event("PARTITION_HEALED", NONE, NONE)>>)

TraceNext ==
    \/ \E n \in Node :
          \/ StartElection(n) \/ WinElection(n) \/ Crash(n) \/ Recover(n)
          \/ \E m \in Node : Hear(n, m) \/ \E t \in 1..TermLimit : GrantVote(n, t, m)
    \/ \E group \in Splits : Partition(group)
    \/ Heal

TraceSpec == TraceInit /\ [][TraceNext]_traceVars

-----------------------------------------------------------------------------
(***************************************************************************)
(* The report on leadership.                                               *)
(***************************************************************************)
\* recovery_intervals: from the loss of the leader to the next election, for the event
\* e at i and what was found before it.
LostAt_AnyCrash(acc, e, i) ==
    CASE e.kind = "NODE_CRASHED" -> i
      [] e.kind = "PARTITION_CREATED" /\ acc.leader # NONE /\ acc.lost_at = 0 -> i
      [] OTHER -> acc.lost_at
LostAt(acc, e, i) ==
    CASE e.kind = "NODE_CRASHED" /\ e.node = acc.leader -> i
      [] e.kind = "PARTITION_CREATED" /\ acc.leader # NONE /\ acc.lost_at = 0 -> i
      [] OTHER -> acc.lost_at

Followed(acc, e, i) ==
    IF e.kind = "LEADER_ELECTED"
    THEN [leader |-> e.node, lost_at |-> 0,
          found |-> IF acc.lost_at = 0 THEN acc.found ELSE acc.found \cup {<<acc.lost_at, i>>}]
    ELSE [acc EXCEPT !.lost_at = LostAt(acc, e, i)]

Outages(events) ==
    LET seen[i \in 0..Len(events)] ==
            IF i = 0 THEN [leader |-> NONE, lost_at |-> 0, found |-> {}]
            ELSE Followed(seen[i - 1], events[i], i)
    IN  seen[Len(events)]

recovery_intervals == Outages(trace).found

\* election_durations: from the first candidate of a term to its leader.
Started(t, i) ==
    {j \in 1..i : trace[j].kind = "ELECTION_STARTED" /\ trace[j].term = t
                  /\ \A k \in 1..j - 1 : trace[k].kind = "ELECTION_STARTED" => trace[k].term # t}

election_durations ==
    {d \in (DOMAIN trace) \X (DOMAIN trace) :
        trace[d[2]].kind = "LEADER_ELECTED" /\ d[1] \in Started(trace[d[2]].term, d[2])}

\* leadership_timeline: a reign ends when the next one begins.
leadership_timeline ==
    LET elections == SelectSeq([i \in DOMAIN trace |-> i],
                               LAMBDA i : trace[i].kind = "LEADER_ELECTED")
    IN  [k \in DOMAIN elections |->
            [term |-> trace[elections[k]].term, leader |-> trace[elections[k]].node,
             start |-> elections[k],
             end |-> IF k < Len(elections) THEN elections[k + 1] ELSE Len(trace)]]

-----------------------------------------------------------------------------
(***************************************************************************)
(* What a reader of the trace relies on.                                   *)
(***************************************************************************)
\* A node's terms are told in order and each is told to change before anything
\* happens in it, so that the trace never "appears to answer an RPC from a term
\* it had not reached yet".
TermIsAnnounced ==
    \A i \in DOMAIN trace :
        LET e == trace[i]
            before == {j \in 1..i - 1 : trace[j].node = e.node /\ trace[j].term # NONE}
            last == IF before = {} THEN 0 ELSE trace[Max(before)].term
        IN  e.term # NONE => IF e.kind = "TERM_CHANGED" THEN e.term > last ELSE e.term = last

\* The live view never names a node that has told of a later term, nor forgets
\* that a later leader was elected: "a dashboard that keeps naming a deposed node
\* is how a split brain gets mistaken for health".
NamedIsNotDeposed ==
    live.leader # NONE =>
        \A i \in DOMAIN trace :
            /\ trace[i].kind = "LEADER_ELECTED" => trace[i].term <= live.leader_term
            /\ trace[i].node = live.leader /\ trace[i].term # NONE
                   => trace[i].term <= live.leader_term

\* The leader named is not known to be down ("what is true about the cluster
\* right now").
NamedIsUp == live.leader \notin live.down

\* Every election won is timed, and from no later than the winner's own start.
EveryElectionIsTimed ==
    \A i \in DOMAIN trace :
        trace[i].kind = "LEADER_ELECTED" =>
            \E j \in 1..i :
                /\ <<j, i>> \in election_durations
                /\ \A k \in 1..i :
                      trace[k] = Event("ELECTION_STARTED", trace[i].node, trace[i].term) => j <= k

\* What was told, and what is read from it, is what happened to the terms.
TermsAreTold == TermIsAnnounced /\ NamedIsNotDeposed /\ EveryElectionIsTimed

\* A recovery time is one in which nobody led: it is "measured from the moment
\* the cluster lost the node that had most recently been elected".
RecoveryIsLeaderless ==
    \A interval \in recovery_intervals :
        \A i \in interval[1]..interval[2] - 1 : ~ served[i]

\* A reign is ended by a later leader, never by an earlier one: the timeline says
\* "who led, in which term, between when and when".
ReignsAreInOrder ==
    \A k \in 2..Len(leadership_timeline) :
        leadership_timeline[k - 1].term < leadership_timeline[k].term

\* No election is won after one of a later term.
WonInOrder ==
    \A i, j \in DOMAIN trace :
        i < j /\ trace[i].kind = "LEADER_ELECTED" /\ trace[j].kind = "LEADER_ELECTED"
            => trace[i].term < trace[j].term

Unsplit == \A i \in DOMAIN trace : trace[i].kind # "PARTITION_CREATED"

\* In a cluster with WALs a recovery time of crashes alone is one in which nobody led,
\* as long as the elections were won in the order of their terms.
CrashIsLeaderless == persistent /\ Unsplit /\ WonInOrder => RecoveryIsLeaderless
=============================================================================
