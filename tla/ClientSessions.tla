---------------------------- MODULE ClientSessions ----------------------------
(***************************************************************************)
(* Writes from a client's call to its answer: the retry loop and channel   *)
(* of client/client.py, the requests a workload issues together            *)
(* (client/workload.py), the nodes' side of a request (raft/node.py) and   *)
(* the state machine with its sessions (KVStore).                          *)
(*                                                                         *)
(* Consensus is what Raft.tla checks of it: a leader is elected only with  *)
(* every committed entry, what it commits is appended to the chosen log,   *)
(* and a follower takes over the leader's log.  A deposed leader goes on   *)
(* accepting requests until a message tells it.                            *)
(***************************************************************************)
EXTENDS KVStore, SequencesExt

CONSTANTS
    Members,          \* the nodes, in the order of every client's member list
    NoNode,           \* no leader known
    Kinds,            \* the kinds of writes issued
    Burst,            \* how many calls of one client may be in progress
    MaxCalls,         \* bound on the calls of a client
    MaxAttempts,      \* RetryPolicy.max_attempts
    MaxElections,     \* bound on elections
    MaxRestarts,      \* bound on restarts
    Snapshots,        \* the nodes are given a snapshot store
    SuddenDeposition  \* a deposed leader may learn of it from an append that
                      \* succeeds; if not, from a vote request or a refusal

ASSUME MembersAssumption ==
    Members \in Seq(Range(Members)) /\ Members # <<>> /\ IsInjective(Members)
ASSUME BurstAssumption == Burst \in Nat \ {0}
ASSUME KindsAssumption == Kinds \subseteq {"put", "delete", "cas"}

Node == Range(Members)

VARIABLES
    chosen,         \* the committed log
    log, commit,    \* per node: its log, commit_index
    store,          \* per node: the KVStore
    leads,          \* per node: role is LEADER
    leader_id,      \* per node: whom it takes for the leader
    pending,        \* per node: log index -> the client waiting on it
    snapshot,       \* per node: the snapshot its WAL refers to
    latest,         \* the leader last elected
    calls,          \* per client: its calls, in the order issued
    hint,           \* per client: leader_hint
    network,        \* requests and replies in flight
    elections, restarts  \* history: how many of each

nodeVars == <<chosen, log, commit, store, leads, leader_id, pending, snapshot, latest>>
clientVars == <<calls, hint>>
countVars == <<elections, restarts>>
vars == <<nodeVars, clientVars, network, countVars>>

Id(c, serial) == <<c, serial>>

\* Messages.  The attempt is a ghost: the code sends the request id only.
ClientRequest(c, serial, attempt, n, cmd) ==
    [type |-> "request", client |-> c, serial |-> serial, attempt |-> attempt,
     node |-> n, command |-> cmd]
ClientReply(waiter, result) ==
    [type |-> "reply", client |-> waiter.client, serial |-> waiter.serial,
     attempt |-> waiter.attempt, not_leader |-> FALSE, result |-> result]
Redirect(request, n) ==
    [type |-> "reply", client |-> request.client, serial |-> request.serial,
     attempt |-> request.attempt, not_leader |-> TRUE, leader_hint |-> n]

Init ==
    /\ chosen = <<>>
    /\ log = [n \in Node |-> <<>>] /\ commit = [n \in Node |-> 0]
    /\ store = [n \in Node |-> EmptyStore]
    /\ leads = [n \in Node |-> n = Members[1]]
    /\ leader_id = [n \in Node |-> Members[1]]
    /\ pending = [n \in Node |-> [i \in {} |-> <<>>]]
    /\ snapshot = [n \in Node |-> Snapshot(EmptyStore)]
    /\ latest = Members[1]
    /\ calls = [c \in Client |-> <<>>]
    /\ hint = [c \in Client |-> NoNode]
    /\ network = {}
    /\ elections = 0 /\ restarts = 0

-----------------------------------------------------------------------------
(***************************************************************************)
(* The client: KVClient._call over BusChannel.                             *)
(***************************************************************************)
\* Each call writes a value of its own, as a workload does.
Command(c, serial, kind) ==
    [kind |-> kind, key |-> CHOOSE k \in Key : TRUE, value |-> Id(c, serial),
     expected |-> Absent, client |-> c, serial |-> serial]

\* The known leader, or the next member.
PickTarget(c, attempt) ==
    IF hint[c] # NoNode THEN hint[c] ELSE Members[(attempt % Len(Members)) + 1]

InProgress(c) == {k \in DOMAIN calls[c] : calls[c][k].pc \in {"waiting", "backoff"}}

\* A call starts and sends its first request.
Call(c, kind) ==
    LET serial == Len(calls[c])
        target == PickTarget(c, 0)
        cmd == Command(c, serial, kind)
    IN
    /\ Len(calls[c]) < MaxCalls /\ Cardinality(InProgress(c)) < Burst
    /\ calls' = [calls EXCEPT ![c] = Append(@,
            [pc |-> "waiting", attempt |-> 0, target |-> target, command |-> cmd,
             asked |-> {target}])]
    /\ network' = network \cup {ClientRequest(c, serial, 0, target, cmd)}
    /\ UNCHANGED <<nodeVars, hint, countVars>>

\* The backoff is over: the next attempt, at whoever is the leader by now.
Retry(c, k) ==
    LET call == calls[c][k]
        target == PickTarget(c, call.attempt)
    IN
    /\ call.pc = "backoff"
    /\ calls' = [calls EXCEPT ![c][k].pc = "waiting", ![c][k].target = target,
                              ![c][k].asked = @ \cup {target}]
    /\ network' = network
        \cup {ClientRequest(c, k - 1, call.attempt, target, call.command)}
    /\ UNCHANGED <<nodeVars, hint, countVars>>

\* This attempt is over without an answer to the call.
NextAttempt(call) ==
    [call EXCEPT !.attempt = @ + 1,
                 !.pc = IF call.attempt + 1 < MaxAttempts THEN "backoff" ELSE "failed"]

\* No reply before the deadline: someone else is asked next.
Timeout(c, k) ==
    LET call == calls[c][k] IN
    /\ call.pc = "waiting"
    /\ calls' = [calls EXCEPT ![c][k] = NextAttempt(call)]
    /\ hint' = [hint EXCEPT ![c] = IF @ = call.target THEN NoNode ELSE @]
    /\ UNCHANGED <<nodeVars, network, countVars>>

\* The channel drops what is not a reply to its own request.
ForThisCall_Any(msg, k) == TRUE
ForThisCall(msg, k) == msg.serial = k - 1

Redirected(c, k, msg) ==
    /\ calls' = [calls EXCEPT ![c][k] = NextAttempt(calls[c][k])]
    /\ hint' = [hint EXCEPT ![c] = msg.leader_hint]

Returned(c, k, msg) ==
    /\ calls' = [calls EXCEPT ![c][k] =
            [pc |-> "returned", attempt |-> @.attempt, target |-> @.target,
             command |-> @.command, asked |-> @.asked,
             result |-> msg.result, of |-> msg.attempt]]
    /\ hint' = [hint EXCEPT ![c] = calls[c][k].target]

\* The calls of a client share one inbox: whichever reads the message first
\* takes it or drops it.
ReceiveReply(c, k, msg) ==
    /\ calls[c][k].pc = "waiting"
    /\ network' = network \ {msg}
    /\ \/ ~ ForThisCall(msg, k) /\ UNCHANGED clientVars
       \/ ForThisCall(msg, k) /\ msg.not_leader /\ Redirected(c, k, msg)
       \/ ForThisCall(msg, k) /\ ~ msg.not_leader /\ Returned(c, k, msg)
    /\ UNCHANGED <<nodeVars, countVars>>

-----------------------------------------------------------------------------
(***************************************************************************)
(* The nodes.                                                              *)
(***************************************************************************)
\* _apply_committed at node n with the log lg up to index to: the state
\* machine, the answers to whoever waits for an index, and, if a policy asks
\* for it, a snapshot.
ApplyAt(n, lg, to) ==
    LET from == store[n].last_applied
        after == Applied(store[n], lg, to)
        answered == {i \in (from + 1)..to : i \in DOMAIN pending[n]}
    IN
    /\ store' = [store EXCEPT ![n] = after[to].store]
    /\ network' = network \cup
            {ClientReply(pending[n][i], after[i].result) : i \in answered}
    /\ \/ UNCHANGED snapshot
       \/ /\ Snapshots /\ to > from
          /\ snapshot' = [snapshot EXCEPT ![n] = Snapshot(after[to].store)]

\* Waiters of indexes that are not applied yet.
StillPending(n, to) ==
    [i \in {j \in DOMAIN pending[n] : j > to} |-> pending[n][i]]

Nobody == [i \in {} |-> <<>>]

\* A follower redirects; a leader stamps the command, appends it and remembers
\* who waits for that index.
ReceiveRequest(msg) ==
    LET n == msg.node IN
    /\ network' = (network \ {msg}) \cup
            (IF leads[n] THEN {} ELSE {Redirect(msg, leader_id[n])})
    /\ IF leads[n]
       THEN /\ log' = [log EXCEPT ![n] =
                    Append(@, Stamped(msg.command, msg.client, msg.serial))]
            /\ pending' = [pending EXCEPT ![n] =
                    [i \in DOMAIN @ \cup {Len(log[n]) + 1} |->
                        IF i = Len(log[n]) + 1
                        THEN [client |-> msg.client, serial |-> msg.serial,
                              attempt |-> msg.attempt]
                        ELSE @[i]]]
       ELSE UNCHANGED <<log, pending>>
    /\ UNCHANGED <<chosen, commit, store, leads, leader_id, snapshot, latest,
                    clientVars, countVars>>

\* A node with every committed entry wins, and appends the no-op of its term.
Elect(n) ==
    /\ ~ leads[n] /\ elections < MaxElections
    /\ IsPrefix(chosen, log[n])
    /\ latest' = n
    /\ leads' = [leads EXCEPT ![n] = TRUE]
    /\ leader_id' = [leader_id EXCEPT ![n] = n]
    /\ log' = [log EXCEPT ![n] = Append(@, NoOp)]
    /\ elections' = elections + 1
    /\ UNCHANGED <<chosen, commit, store, pending, snapshot, clientVars,
                    network, restarts>>

\* A campaign that does not win.
Campaign(n) ==
    /\ ~ leads[n] /\ leader_id[n] # NoNode /\ elections < MaxElections
    /\ leader_id' = [leader_id EXCEPT ![n] = NoNode]
    /\ UNCHANGED <<chosen, log, commit, store, leads, pending, snapshot, latest,
                    clientVars, network, countVars>>

\* The leader last elected finds its log on a majority: commits, applies and
\* answers.
Commit(n) ==
    /\ n = latest /\ leads[n] /\ commit[n] < Len(log[n])
    /\ chosen' = log[n]
    /\ commit' = [commit EXCEPT ![n] = Len(log[n])]
    /\ ApplyAt(n, log[n], Len(log[n]))
    /\ pending' = [pending EXCEPT ![n] = StillPending(n, Len(log[n]))]
    /\ UNCHANGED <<log, leads, leader_id, latest, clientVars, countVars>>

\* The log of a follower once an append has succeeded.
Merged_KeepsConflict(n) ==
    log[n] \o SubSeq(log[latest], Len(log[n]) + 1, Len(log[latest]))
Merged(n) == log[latest]

\* An append of that leader succeeds at another node, with what the leader had
\* committed or an earlier commit index.  One handler: the log, the commit
\* index, the state machine and its answers, and only then, the node being no
\* leader, whoever still waits is forgotten.
Follow(n) ==
    /\ leads[latest] /\ n # latest
    /\ leads[n] => SuddenDeposition
    /\ \E to \in {commit[n], commit[latest]} :
        /\ to >= commit[n]
        /\ commit' = [commit EXCEPT ![n] = to]
        /\ ApplyAt(n, Merged(n), to)
    /\ log' = [log EXCEPT ![n] = Merged(n)]
    /\ leads' = [leads EXCEPT ![n] = FALSE]
    /\ leader_id' = [leader_id EXCEPT ![n] = latest]
    /\ pending' = [pending EXCEPT ![n] = Nobody]
    /\ UNCHANGED <<chosen, latest, clientVars, countVars>>

\* A deposed leader hears of the later term in a vote request or a refusal.
StepDown(n) ==
    /\ leads[n] /\ n # latest
    /\ leads' = [leads EXCEPT ![n] = FALSE]
    /\ pending' = [pending EXCEPT ![n] = Nobody]
    /\ UNCHANGED <<chosen, log, commit, store, leader_id, snapshot, latest,
                    clientVars, network, countVars>>

RestartedStore(n) ==
    Applied(RestoreFrom(snapshot[n]), log[n], commit[n])[commit[n]].store

\* A node dies and comes back with its log and commit index, its state machine
\* rebuilt from the snapshot its WAL refers to and the entries after it.
Restart(n) ==
    /\ restarts < MaxRestarts
    /\ restarts' = restarts + 1
    /\ store' = [store EXCEPT ![n] = RestartedStore(n)]
    /\ leads' = [leads EXCEPT ![n] = FALSE]
    /\ leader_id' = [leader_id EXCEPT ![n] = NoNode]
    /\ pending' = [pending EXCEPT ![n] = Nobody]
    /\ UNCHANGED <<chosen, log, commit, snapshot, latest, clientVars, network, elections>>

Lose(msg) ==
    /\ network' = network \ {msg}
    /\ UNCHANGED <<nodeVars, clientVars, countVars>>

Next ==
    \/ \E c \in Client, kind \in Kinds : Call(c, kind)
    \/ \E c \in Client : \E k \in DOMAIN calls[c] :
        \/ Retry(c, k) \/ Timeout(c, k)
        \/ \E msg \in network :
            msg.type = "reply" /\ msg.client = c /\ ReceiveReply(c, k, msg)
    \/ \E msg \in network :
        \/ msg.type = "request" /\ ReceiveRequest(msg)
        \/ Lose(msg)
    \/ \E n \in Node :
        Elect(n) \/ Campaign(n) \/ Commit(n) \/ Follow(n) \/ StepDown(n) \/ Restart(n)

Spec == Init /\ [][Next]_vars

-----------------------------------------------------------------------------
Calls(c) == DOMAIN calls[c]
HasReturned(c, k) == calls[c][k].pc = "returned"

\* The log answers the call with what it returned: some replica ran the command
\* of that very call, and this is what it gave.
AnsweredByLog(c, k) ==
    \E i \in DOMAIN chosen :
        /\ chosen[i].kind # "noop"
        /\ Id(chosen[i].client, chosen[i].serial) = Id(c, k - 1)
        /\ Applied(EmptyStore, chosen, i)[i].result = calls[c][k].result
        /\ Id(c, k - 1) \in Range(Applied(EmptyStore, chosen, i)[i].store.effects)

\* The answer a call returns with is the answer of its own command: the one a
\* replica gave when it ran it, whatever was lost, retried, deposed or
\* restarted in between, and the command is in the chosen log.
AnswersAreOwn ==
    \A c \in Client : \A k \in Calls(c) : HasReturned(c, k) => AnsweredByLog(c, k)

\* Of the client's calls in progress the one issued last returns with its own
\* answer.  (One issued before may be answered as a repetition of a later one.)
LatestAnswerIsOwn ==
    \A c \in Client : \A k \in Calls(c) :
        HasReturned(c, k) /\ k = Len(calls[c]) => AnsweredByLog(c, k)

\* "Applied in index order, exactly once", at every replica: the requests of
\* one client take effect at most once each and in the order it issued them,
\* however often they were sent and wherever they were appended.
AppliedOnce ==
    \A n \in Node : \A i, j \in DOMAIN store[n].effects :
        i < j /\ store[n].effects[i][1] = store[n].effects[j][1]
            => store[n].effects[i][2] < store[n].effects[j][2]

\* "Given the same committed log prefix, every replica's KVStore holds
\* byte-identical state": also a replica that restarted in between.
ReplicasAgree ==
    \A m, n \in Node :
        store[m].last_applied = store[n].last_applied => store[m].data = store[n].data

\* "A reply to an attempt the client already gave up on must be discarded."
AnswerIsOfThisAttempt ==
    \A c \in Client : \A k \in Calls(c) :
        HasReturned(c, k) => calls[c][k].of = calls[c][k].attempt

\* A call that has used up as many attempts as there are members has asked
\* each of them, "rather than re-asking the same node".
FailedCallAskedAround ==
    \A c \in Client : \A k \in Calls(c) :
        calls[c][k].pc = "failed" /\ MaxAttempts >= Len(Members) => calls[c][k].asked = Node

\* Only indexes that are still to be applied are waited for, and by the very
\* request that is at that index.
WaitersMatchLog ==
    \A n \in Node : \A i \in DOMAIN pending[n] :
        /\ leads[n] /\ i \in (store[n].last_applied + 1)..Len(log[n])
        /\ log[n][i].kind # "noop"
        /\ Id(log[n][i].client, log[n][i].serial) = Id(pending[n][i].client, pending[n][i].serial)

\* Neither the client nor the node takes one request for another: the call issued
\* last returns with its own answer, and nobody waits for an index that is
\* another's.
AnswersGoToWhoAsked == LatestAnswerIsOwn /\ WaitersMatchLog

TypeOK ==
    /\ \A n \in Node : commit[n] = store[n].last_applied /\ store[n].data \in Data
    /\ \A n \in Node : leader_id[n] \in Node \cup {NoNode}
    /\ \A c \in Client : \A k \in Calls(c) : calls[c][k].attempt \in 0..MaxAttempts
    /\ hint \in [Client -> Node \cup {NoNode}]
=============================================================================
